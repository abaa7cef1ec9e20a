-------------------------- MODULE PacketQueueProofs --------------------------
(***************************************************************************)
(* Proofs about PacketQueue for any set of producers and asynchronous      *)
(* readers, at most one blocking reader and any set of packets.            *)
(***************************************************************************)
EXTENDS PacketQueueList, SequenceTheorems, TLAPS

\* The mutex has the one owner that is inside a critical section.
MutexInv == \A t \in Threads : (pc[t] \in Critical) <=> (queue_mutex = t)

\* Each thread is only at points of the calls it makes, and holds a packet where
\* the code dereferences or stores one.
RoleInv ==
  \A t \in Threads :
    /\ pc[t] \in {"add_lock", "add_link", "add_count"}
         => t \in Producers /\ item[t] \in Packets
    /\ pc[t] \in {"get_lock", "get_wait", "get_test"} => t \in Getters
    /\ pc[t] \in {"poll_lock", "poll_test"} => t \in Pollers
    /\ pc[t] = "get_count" => t \in Getters \cup Pollers /\ item[t] \in Packets
    /\ pc[t] \in {"flush_lock", "flush_free"} => t = Main

\* Sleepers are inside pthread_cond_wait.
SleepInv == \A t \in queue_count_cv : pc[t] = "get_wait"

\* Main touches the queue only after every worker has returned.
FlushInv ==
  /\ pc[Main] # "idle" => \A t \in Workers : pc[t] = "exited"
  /\ pc[Main] \in {"idle", "flush_lock", "flush_free", "exited"}
  /\ pc[Main] \in {"idle", "flush_lock"} => flushed = <<>>
  /\ pc[Main] = "exited" => queue = <<>>

\* queue_count against the list, at every point of the owner of the mutex.
CountInv ==
  /\ OwnerAt = "add_count"  => queue_count + 1 = Len(queue)
  /\ OwnerAt = "get_count"  => queue_count = Len(queue) + 1
  /\ OwnerAt = "flush_free" => queue_count = Len(flushed) + Len(queue)
  /\ OwnerAt \notin {"add_count", "get_count", "flush_free"}
       => queue_count = Len(queue)

\* What has just been linked or unlinked, until queue_count is updated.
TailInv ==
  /\ OwnerAt = "add_count" => queue # <<>>
  /\ OwnerAt = "get_count" =>
       delivered # <<>> /\ delivered[Len(delivered)] = item[queue_mutex]

IInv ==
  /\ TypeOK /\ MutexInv /\ RoleInv /\ SleepInv /\ FlushInv /\ CountInv
  /\ TailInv /\ FifoOrder /\ NoLostWakeup
-----------------------------------------------------------------------------
(* Sequences: the rearrangements that linking and unlinking rest on. *)

\* Linking at the tail of a suffix extends the whole.
LEMMA AppendToConcat ==
  ASSUME NEW S, NEW s \in Seq(S), NEW u \in Seq(S), NEW x \in S
  PROVE  s \o Append(u, x) = Append(s \o u, x)
OBVIOUS

\* Moving the head of the suffix to the end of the prefix changes nothing.
LEMMA ShiftHead ==
  ASSUME NEW S, NEW s \in Seq(S), NEW u \in Seq(S), u # <<>>
  PROVE  Append(s, Head(u)) \o Tail(u) = s \o u
OBVIOUS

-----------------------------------------------------------------------------
(* The inductive invariant. *)

LEMMA InitIInv == Init => IInv
BY ThreadsAssumption
   DEF Init, IInv, TypeOK, MutexInv, RoleInv, SleepInv, FlushInv, CountInv,
       TailInv, FifoOrder, NoLostWakeup, OwnerAt, Threads, Workers, PcStates,
       Critical

LEMMA Keep_stutter == IInv /\ UNCHANGED vars => IInv'
BY DEF vars, IInv, TypeOK, MutexInv, RoleInv, SleepInv, FlushInv, CountInv,
       TailInv, FifoOrder, NoLostWakeup, OwnerAt

LEMMA Keep_packet_queue_add_item ==
  ASSUME NEW t \in Workers, NEW p \in Packets \cup {NULL}, IInv,
         packet_queue_add_item(t, p)
  PROVE  IInv'
<1>1. CASE p = NULL
  BY <1>1, Keep_stutter DEF packet_queue_add_item
<1>2. CASE p # NULL
  <2> USE <1>2, ThreadsAssumption DEF packet_queue_add_item, IInv, Threads,
          Workers, history
  <2>1. TypeOK'
    BY DEF TypeOK, PcStates, Critical
  <2>2. MutexInv' /\ RoleInv' /\ SleepInv'
    BY DEF TypeOK, MutexInv, RoleInv, SleepInv, Critical
  <2>3. FlushInv'
    BY DEF TypeOK, FlushInv
  <2>4. CountInv' /\ TailInv'
    BY DEF TypeOK, MutexInv, CountInv, TailInv, OwnerAt, Critical
  <2>5. FifoOrder' /\ NoLostWakeup'
    BY DEF FifoOrder, NoLostWakeup
  <2> QED  BY <2>1, <2>2, <2>3, <2>4, <2>5
<1> QED  BY <1>1, <1>2

LEMMA Keep_add_item_lock ==
  ASSUME NEW t \in Workers, IInv, add_item_lock(t)
  PROVE  IInv'
<1> USE ThreadsAssumption DEF IInv, Threads, Workers, history, add_item_lock, Lock
<1>1. TypeOK'
  BY DEF TypeOK, PcStates, Critical
<1>2. MutexInv' /\ RoleInv' /\ SleepInv'
  BY DEF TypeOK, MutexInv, RoleInv, SleepInv, Critical
<1>3. FlushInv'
  BY DEF TypeOK, FlushInv
<1>4. CountInv' /\ TailInv'
  BY DEF TypeOK, MutexInv, CountInv, TailInv, OwnerAt, Critical
<1>5. FifoOrder' /\ NoLostWakeup'
  BY DEF FifoOrder, NoLostWakeup
<1> QED  BY <1>1, <1>2, <1>3, <1>4, <1>5

LEMMA Keep_add_item_link ==
  ASSUME NEW t \in Workers, IInv, add_item_link(t)
  PROVE  IInv'
<1> USE ThreadsAssumption DEF IInv, Threads, Workers, history, add_item_link, Signal
<1>1. TypeOK'
  BY DEF TypeOK, RoleInv, PcStates, Critical
<1>2. MutexInv' /\ RoleInv' /\ SleepInv'
  BY DEF TypeOK, MutexInv, RoleInv, SleepInv, Critical
<1>3. FlushInv'
  BY DEF TypeOK, FlushInv
<1>4. CountInv' /\ TailInv'
  BY DEF TypeOK, MutexInv, RoleInv, CountInv, TailInv, OwnerAt, Critical
<1>5. FifoOrder'
  <2>1. item[t] \in Packets
    BY DEF TypeOK, RoleInv
  <2>2. flushed \o queue \in Seq(Packets)
    BY DEF TypeOK
  <2>3. flushed \o queue' = Append(flushed \o queue, item[t])
    BY <2>1, AppendToConcat DEF TypeOK
  <2>4. delivered \o Append(flushed \o queue, item[t])
          = Append(delivered \o (flushed \o queue), item[t])
    BY <2>1, <2>2, AppendToConcat DEF TypeOK
  <2> QED
    BY <2>3, <2>4 DEF FifoOrder
<1>6. NoLostWakeup'
  BY SingleGetter DEF TypeOK, NoLostWakeup
<1> QED  BY <1>1, <1>2, <1>3, <1>4, <1>5, <1>6

LEMMA Keep_add_item_unlock ==
  ASSUME NEW t \in Workers, IInv, add_item_unlock(t)
  PROVE  IInv'
<1> USE ThreadsAssumption DEF IInv, Threads, Workers, history, add_item_unlock, Unlock
<1>1. TypeOK'
  BY DEF TypeOK, PcStates, Critical
<1>2. MutexInv' /\ RoleInv' /\ SleepInv'
  BY DEF TypeOK, MutexInv, RoleInv, SleepInv, Critical
<1>3. FlushInv'
  BY DEF TypeOK, FlushInv
<1>4. CountInv' /\ TailInv'
  BY DEF TypeOK, MutexInv, CountInv, TailInv, OwnerAt, Critical
<1>5. FifoOrder' /\ NoLostWakeup'
  BY DEF FifoOrder, NoLostWakeup
<1> QED  BY <1>1, <1>2, <1>3, <1>4, <1>5

LEMMA Keep_packet_queue_get_next_item ==
  ASSUME NEW t \in Workers, IInv, packet_queue_get_next_item(t)
  PROVE  IInv'
<1> USE ThreadsAssumption DEF IInv, Threads, Workers, history, packet_queue_get_next_item
<1>1. TypeOK'
  BY DEF TypeOK, PcStates, Critical
<1>2. MutexInv' /\ RoleInv' /\ SleepInv'
  BY DEF TypeOK, MutexInv, RoleInv, SleepInv, Critical
<1>3. FlushInv'
  BY DEF TypeOK, FlushInv
<1>4. CountInv' /\ TailInv'
  BY DEF TypeOK, MutexInv, CountInv, TailInv, OwnerAt, Critical
<1>5. FifoOrder' /\ NoLostWakeup'
  BY DEF FifoOrder, NoLostWakeup
<1> QED  BY <1>1, <1>2, <1>3, <1>4, <1>5

LEMMA Keep_get_next_item_lock ==
  ASSUME NEW t \in Workers, IInv, get_next_item_lock(t)
  PROVE  IInv'
<1> USE ThreadsAssumption DEF IInv, Threads, Workers, history, get_next_item_lock, Lock
<1>1. TypeOK'
  BY DEF TypeOK, PcStates, Critical
<1>2. MutexInv' /\ RoleInv' /\ SleepInv'
  BY DEF TypeOK, MutexInv, RoleInv, SleepInv, Critical
<1>3. FlushInv'
  BY DEF TypeOK, FlushInv
<1>4. CountInv' /\ TailInv'
  BY DEF TypeOK, MutexInv, CountInv, TailInv, OwnerAt, Critical
<1>5. FifoOrder' /\ NoLostWakeup'
  BY DEF FifoOrder, NoLostWakeup
<1> QED  BY <1>1, <1>2, <1>3, <1>4, <1>5

LEMMA Keep_get_next_item_wait ==
  ASSUME NEW t \in Workers, IInv, get_next_item_wait(t)
  PROVE  IInv'
<1> USE ThreadsAssumption DEF IInv, Threads, Workers, history, get_next_item_wait, Unlock
<1>1. TypeOK'
  BY DEF TypeOK, RoleInv, PcStates, Critical
<1>2. MutexInv' /\ RoleInv' /\ SleepInv'
  BY DEF TypeOK, MutexInv, RoleInv, SleepInv, Critical
<1>3. FlushInv'
  BY DEF TypeOK, FlushInv
<1>4. CountInv' /\ TailInv'
  BY DEF TypeOK, MutexInv, CountInv, TailInv, OwnerAt, Critical
<1>5. FifoOrder' /\ NoLostWakeup'
  BY DEF FifoOrder, NoLostWakeup
<1> QED  BY <1>1, <1>2, <1>3, <1>4, <1>5

LEMMA Keep_get_next_item_wake ==
  ASSUME NEW t \in Workers, IInv, get_next_item_wake(t)
  PROVE  IInv'
<1> USE ThreadsAssumption DEF IInv, Threads, Workers, history, get_next_item_wake, Lock
<1>1. TypeOK'
  BY DEF TypeOK, PcStates, Critical
<1>2. MutexInv' /\ RoleInv' /\ SleepInv'
  BY DEF TypeOK, MutexInv, RoleInv, SleepInv, Critical
<1>3. FlushInv'
  BY DEF TypeOK, FlushInv
<1>4. CountInv' /\ TailInv'
  BY DEF TypeOK, MutexInv, CountInv, TailInv, OwnerAt, Critical
<1>5. FifoOrder' /\ NoLostWakeup'
  BY DEF FifoOrder, NoLostWakeup
<1> QED  BY <1>1, <1>2, <1>3, <1>4, <1>5

LEMMA Keep_packet_queue_get_next_item_asynch ==
  ASSUME NEW t \in Workers, IInv, packet_queue_get_next_item_asynch(t)
  PROVE  IInv'
<1> USE ThreadsAssumption DEF IInv, Threads, Workers, history, packet_queue_get_next_item_asynch
<1>1. TypeOK'
  BY DEF TypeOK, PcStates, Critical
<1>2. MutexInv' /\ RoleInv' /\ SleepInv'
  BY DEF TypeOK, MutexInv, RoleInv, SleepInv, Critical
<1>3. FlushInv'
  BY DEF TypeOK, FlushInv
<1>4. CountInv' /\ TailInv'
  BY DEF TypeOK, MutexInv, CountInv, TailInv, OwnerAt, Critical
<1>5. FifoOrder' /\ NoLostWakeup'
  BY DEF FifoOrder, NoLostWakeup
<1> QED  BY <1>1, <1>2, <1>3, <1>4, <1>5

LEMMA Keep_asynch_lock ==
  ASSUME NEW t \in Workers, IInv, asynch_lock(t)
  PROVE  IInv'
<1> USE ThreadsAssumption DEF IInv, Threads, Workers, history, asynch_lock, Lock
<1>1. TypeOK'
  BY DEF TypeOK, PcStates, Critical
<1>2. MutexInv' /\ RoleInv' /\ SleepInv'
  BY DEF TypeOK, MutexInv, RoleInv, SleepInv, Critical
<1>3. FlushInv'
  BY DEF TypeOK, FlushInv
<1>4. CountInv' /\ TailInv'
  BY DEF TypeOK, MutexInv, CountInv, TailInv, OwnerAt, Critical
<1>5. FifoOrder' /\ NoLostWakeup'
  BY DEF FifoOrder, NoLostWakeup
<1> QED  BY <1>1, <1>2, <1>3, <1>4, <1>5

LEMMA Keep_asynch_empty ==
  ASSUME NEW t \in Workers, IInv, asynch_empty(t)
  PROVE  IInv'
<1> USE ThreadsAssumption DEF IInv, Threads, Workers, history, asynch_empty, Unlock
<1>1. TypeOK'
  BY DEF TypeOK, PcStates, Critical
<1>2. MutexInv' /\ RoleInv' /\ SleepInv'
  BY DEF TypeOK, MutexInv, RoleInv, SleepInv, Critical
<1>3. FlushInv'
  BY DEF TypeOK, FlushInv
<1>4. CountInv' /\ TailInv'
  BY DEF TypeOK, MutexInv, CountInv, TailInv, OwnerAt, Critical
<1>5. FifoOrder' /\ NoLostWakeup'
  BY DEF FifoOrder, NoLostWakeup
<1> QED  BY <1>1, <1>2, <1>3, <1>4, <1>5

LEMMA Keep_get_unlink ==
  ASSUME NEW t \in Workers, IInv, get_unlink(t)
  PROVE  IInv'
<1> USE ThreadsAssumption DEF IInv, Threads, Workers, history, get_unlink
<1>1. TypeOK'
  BY DEF TypeOK, PcStates, Critical
<1>2. MutexInv' /\ RoleInv' /\ SleepInv'
  BY DEF TypeOK, MutexInv, RoleInv, SleepInv, Critical
<1>3. FlushInv'
  BY DEF TypeOK, FlushInv
<1>4. CountInv' /\ TailInv'
  BY DEF TypeOK, MutexInv, CountInv, TailInv, OwnerAt, Critical
<1>5. FifoOrder'
  <2>1. flushed = <<>> /\ flushed' = <<>>
    BY DEF TypeOK, FlushInv
  <2>2. delivered' \o queue' = delivered \o queue
    <3>1. delivered \in Seq(Packets) /\ queue \in Seq(Packets) /\ queue # <<>>
      BY DEF TypeOK
    <3>2. delivered' = Append(delivered, Head(queue)) /\ queue' = Tail(queue)
      OBVIOUS
    <3> HIDE DEF get_unlink, IInv
    <3> QED
      BY <3>1, <3>2, ShiftHead
  <2>3. <<>> \o queue = queue /\ <<>> \o queue' = queue'
    BY <1>1, ConcatEmptySeq DEF TypeOK
  <2> QED
    BY <2>1, <2>2, <2>3 DEF FifoOrder
<1>6. NoLostWakeup'
  BY DEF TypeOK, NoLostWakeup
<1> QED  BY <1>1, <1>2, <1>3, <1>4, <1>5, <1>6

LEMMA Keep_get_unlock ==
  ASSUME NEW t \in Workers, IInv, get_unlock(t)
  PROVE  IInv'
<1> USE ThreadsAssumption DEF IInv, Threads, Workers, history, get_unlock, Unlock
<1>1. TypeOK'
  BY DEF TypeOK, MutexInv, CountInv, OwnerAt, PcStates, Critical
<1>2. MutexInv' /\ RoleInv' /\ SleepInv'
  BY DEF TypeOK, MutexInv, RoleInv, SleepInv, Critical
<1>3. FlushInv'
  BY DEF TypeOK, FlushInv
<1>4. CountInv' /\ TailInv'
  BY DEF TypeOK, MutexInv, CountInv, TailInv, OwnerAt, Critical
<1>5. FifoOrder' /\ NoLostWakeup'
  BY DEF FifoOrder, NoLostWakeup
<1> QED  BY <1>1, <1>2, <1>3, <1>4, <1>5

LEMMA Keep_packet_queue_free_packet ==
  ASSUME NEW t \in Workers, IInv, packet_queue_free_packet(t)
  PROVE  IInv'
<1> USE ThreadsAssumption DEF IInv, Threads, Workers, history, packet_queue_free_packet
<1>1. TypeOK'
  BY DEF TypeOK, PcStates, Critical
<1>2. MutexInv' /\ RoleInv' /\ SleepInv'
  BY DEF TypeOK, MutexInv, RoleInv, SleepInv, Critical
<1>3. FlushInv'
  BY DEF TypeOK, FlushInv
<1>4. CountInv' /\ TailInv'
  BY DEF TypeOK, MutexInv, CountInv, TailInv, OwnerAt, Critical
<1>5. FifoOrder' /\ NoLostWakeup'
  BY DEF FifoOrder, NoLostWakeup
<1> QED  BY <1>1, <1>2, <1>3, <1>4, <1>5

LEMMA Keep_ThreadExit ==
  ASSUME NEW t \in Workers, IInv, ThreadExit(t)
  PROVE  IInv'
<1> USE ThreadsAssumption DEF IInv, Threads, Workers, history, ThreadExit
<1>1. TypeOK'
  BY DEF TypeOK, PcStates, Critical
<1>2. MutexInv' /\ RoleInv' /\ SleepInv'
  BY DEF TypeOK, MutexInv, RoleInv, SleepInv, Critical
<1>3. FlushInv'
  BY DEF TypeOK, FlushInv
<1>4. CountInv' /\ TailInv'
  BY DEF TypeOK, MutexInv, CountInv, TailInv, OwnerAt, Critical
<1>5. FifoOrder' /\ NoLostWakeup'
  BY DEF FifoOrder, NoLostWakeup
<1> QED  BY <1>1, <1>2, <1>3, <1>4, <1>5

LEMMA Keep_SpuriousWakeup ==
  ASSUME NEW t \in Workers, IInv, SpuriousWakeup(t)
  PROVE  IInv'
<1> USE ThreadsAssumption DEF IInv, Threads, Workers, history, SpuriousWakeup
<1>1. TypeOK'
  BY DEF TypeOK, PcStates, Critical
<1>2. MutexInv' /\ RoleInv' /\ SleepInv'
  BY DEF TypeOK, MutexInv, RoleInv, SleepInv, Critical
<1>3. FlushInv'
  BY DEF TypeOK, FlushInv
<1>4. CountInv' /\ TailInv'
  BY DEF TypeOK, MutexInv, CountInv, TailInv, OwnerAt, Critical
<1>5. FifoOrder' /\ NoLostWakeup'
  BY DEF FifoOrder, NoLostWakeup
<1> QED  BY <1>1, <1>2, <1>3, <1>4, <1>5

LEMMA Keep_packet_queue_flush ==
  ASSUME IInv, packet_queue_flush
  PROVE  IInv'
<1> USE ThreadsAssumption DEF IInv, Threads, Workers, history, packet_queue_flush
<1>1. TypeOK'
  BY DEF TypeOK, PcStates, Critical
<1>2. MutexInv' /\ RoleInv' /\ SleepInv'
  BY DEF TypeOK, MutexInv, RoleInv, SleepInv, Critical
<1>3. FlushInv'
  BY DEF TypeOK, FlushInv
<1>4. CountInv' /\ TailInv'
  BY DEF TypeOK, MutexInv, CountInv, TailInv, OwnerAt, Critical
<1>5. FifoOrder' /\ NoLostWakeup'
  BY DEF FifoOrder, NoLostWakeup
<1> QED  BY <1>1, <1>2, <1>3, <1>4, <1>5

LEMMA Keep_flush_lock ==
  ASSUME IInv, flush_lock
  PROVE  IInv'
<1> USE ThreadsAssumption DEF IInv, Threads, Workers, history, flush_lock, Lock
<1>1. TypeOK'
  BY DEF TypeOK, PcStates, Critical
<1>2. MutexInv' /\ RoleInv' /\ SleepInv'
  BY DEF TypeOK, MutexInv, RoleInv, SleepInv, Critical
<1>3. FlushInv'
  BY DEF TypeOK, FlushInv
<1>4. CountInv' /\ TailInv'
  BY DEF TypeOK, MutexInv, FlushInv, CountInv, TailInv, OwnerAt, Critical
<1>5. FifoOrder' /\ NoLostWakeup'
  BY DEF FifoOrder, NoLostWakeup
<1> QED  BY <1>1, <1>2, <1>3, <1>4, <1>5

LEMMA Keep_flush_free ==
  ASSUME IInv, flush_free
  PROVE  IInv'
<1> USE ThreadsAssumption DEF IInv, Threads, Workers, history, flush_free
<1>1. TypeOK'
  BY DEF TypeOK, PcStates, Critical
<1>2. MutexInv' /\ RoleInv' /\ SleepInv'
  BY DEF TypeOK, MutexInv, RoleInv, SleepInv, Critical
<1>3. FlushInv'
  BY DEF TypeOK, FlushInv
<1>4. CountInv' /\ TailInv'
  <2>1. OwnerAt = "flush_free" /\ OwnerAt' = "flush_free"
    BY DEF TypeOK, MutexInv, OwnerAt, Critical
  <2>2. Len(flushed') + Len(queue') = Len(flushed) + Len(queue)
    BY DEF TypeOK
  <2> QED
    BY <2>1, <2>2 DEF CountInv, TailInv
<1>5. FifoOrder'
  <2>1. flushed' \o queue' = flushed \o queue
    <3>1. flushed \in Seq(Packets) /\ queue \in Seq(Packets) /\ queue # <<>>
      BY DEF TypeOK
    <3>2. flushed' = Append(flushed, Head(queue)) /\ queue' = Tail(queue)
      OBVIOUS
    <3> HIDE DEF flush_free, IInv
    <3> QED
      BY <3>1, <3>2, ShiftHead
  <2> QED
    BY <2>1 DEF FifoOrder
<1>6. NoLostWakeup'
  BY DEF TypeOK, NoLostWakeup
<1> QED  BY <1>1, <1>2, <1>3, <1>4, <1>5, <1>6

LEMMA Keep_flush_unlock ==
  ASSUME IInv, flush_unlock
  PROVE  IInv'
<1> USE ThreadsAssumption DEF IInv, Threads, Workers, history, flush_unlock, Unlock
<1>1. TypeOK'
  BY DEF TypeOK, PcStates, Critical
<1>2. MutexInv' /\ RoleInv' /\ SleepInv'
  BY DEF TypeOK, MutexInv, RoleInv, SleepInv, Critical
<1>3. FlushInv'
  BY DEF TypeOK, FlushInv
<1>4. CountInv' /\ TailInv'
  BY DEF TypeOK, MutexInv, CountInv, TailInv, OwnerAt, Critical
<1>5. FifoOrder' /\ NoLostWakeup'
  BY DEF FifoOrder, NoLostWakeup
<1> QED  BY <1>1, <1>2, <1>3, <1>4, <1>5

LEMMA NextIInv == IInv /\ [Next]_vars => IInv'
<1> SUFFICES ASSUME IInv, [Next]_vars PROVE IInv'
  OBVIOUS
<1>1. ASSUME NEW t \in Workers, ThreadStep(t) PROVE IInv'
  BY <1>1, Keep_packet_queue_add_item, Keep_add_item_lock, Keep_add_item_link,
     Keep_add_item_unlock, Keep_packet_queue_get_next_item, Keep_get_next_item_lock,
     Keep_get_next_item_wait, Keep_get_next_item_wake, Keep_packet_queue_get_next_item_asynch,
     Keep_asynch_lock, Keep_asynch_empty, Keep_get_unlink, Keep_get_unlock,
     Keep_packet_queue_free_packet, Keep_ThreadExit
     DEF ThreadStep, LinkStep, OtherStep
<1>2. ASSUME NEW t \in Workers, SpuriousWakeup(t) PROVE IInv'
  BY <1>2, Keep_SpuriousWakeup
<1>3. CASE MainStep
  BY <1>3, Keep_packet_queue_flush, Keep_flush_lock, Keep_flush_free, Keep_flush_unlock
     DEF MainStep
<1>4. CASE UNCHANGED vars
  BY <1>4, Keep_stutter
<1> QED
  BY <1>1, <1>2, <1>3, <1>4 DEF Next

\* The inductive invariant holds throughout.
THEOREM InvariantHolds == Spec => []IInv
<1>1. Init => IInv
  BY InitIInv
<1>2. IInv /\ [Next]_vars => IInv'
  BY NextIInv
<1> QED
  BY <1>1, <1>2, PTL DEF Spec
\* The type invariant of the queue, for any threads and packets.
THEOREM TypeCorrect == Spec => []TypeOK
<1>1. IInv => TypeOK
  BY DEF IInv
<1> QED
  BY <1>1, InvariantHolds, PTL

\* packet_queue_add_item, both readers and packet_queue_flush keep FIFO order:
\* what was linked is what was handed out, then what was flushed, then what is
\* still in the list, in that order.
THEOREM FifoOrderHolds == Spec => []FifoOrder
<1>1. IInv => FifoOrder
  BY DEF IInv
<1> QED
  BY <1>1, InvariantHolds, PTL

\* The signal on the empty-to-non-empty edge is enough: with one blocking reader
\* nobody sleeps on queue_count_cv while the list holds a packet, however many
\* producers and asynchronous readers there are.
THEOREM NoLostWakeupHolds == Spec => []NoLostWakeup
<1>1. IInv => NoLostWakeup
  BY DEF IInv
<1> QED
  BY <1>1, InvariantHolds, PTL

-----------------------------------------------------------------------------
(* PacketQueue implements PacketFifo. *)

LEMMA FrontOfAppend ==
  ASSUME NEW S, NEW s \in Seq(S), NEW x \in S
  PROVE  SubSeq(Append(s, x), 1, Len(Append(s, x)) - 1) = s
OBVIOUS

LEMMA AppendFront ==
  ASSUME NEW S, NEW s \in Seq(S), s # <<>>
  PROVE  Append(SubSeq(s, 1, Len(s) - 1), s[Len(s)]) = s
OBVIOUS

LEMMA ConsHeadTail ==
  ASSUME NEW S, NEW s \in Seq(S), s # <<>>
  PROVE  <<Head(s)>> \o Tail(s) = s
OBVIOUS

LEMMA HeadTailOfCons ==
  ASSUME NEW S, NEW s \in Seq(S), NEW x \in S
  PROVE  <<x>> \o s # <<>> /\ Head(<<x>> \o s) = x /\ Tail(<<x>> \o s) = s
OBVIOUS

LEMMA InitImplementsFifo == Init => Fifo!FifoInit
BY DEF Init, Fifo!FifoInit, AbsContents, AbsReceived, OwnerAt
\* Steps that move no linearisation point: the abstract queue stutters.
LEMMA QuietSteps ==
  ASSUME IInv, NEW t \in Workers,
         \/ \E p \in Packets \cup {NULL} : packet_queue_add_item(t, p)
         \/ add_item_lock(t)
         \/ packet_queue_get_next_item(t)
         \/ get_next_item_lock(t)
         \/ get_next_item_wait(t)
         \/ get_next_item_wake(t)
         \/ packet_queue_get_next_item_asynch(t)
         \/ asynch_lock(t)
         \/ asynch_empty(t)
         \/ packet_queue_free_packet(t)
         \/ ThreadExit(t)
         \/ SpuriousWakeup(t)
  PROVE  UNCHANGED Fifo!fifoVars
<1> USE ThreadsAssumption
<1>1. /\ queue' = queue /\ queue_count' = queue_count
      /\ delivered' = delivered /\ flushed' = flushed
  BY DEF packet_queue_add_item, add_item_lock, packet_queue_get_next_item,
     get_next_item_lock, get_next_item_wait, get_next_item_wake,
     packet_queue_get_next_item_asynch, asynch_lock, asynch_empty,
     packet_queue_free_packet, ThreadExit, SpuriousWakeup, history, vars
<1>2. \/ /\ OwnerAt \notin {"add_count", "get_count", "flush_free"}
         /\ OwnerAt' \notin {"add_count", "get_count", "flush_free"}
      \/ /\ OwnerAt' = OwnerAt
         /\ OwnerAt # "free"
         /\ item'[queue_mutex'] = item[queue_mutex]
  BY DEF packet_queue_add_item, add_item_lock, packet_queue_get_next_item,
     get_next_item_lock, get_next_item_wait, get_next_item_wake,
     packet_queue_get_next_item_asynch, asynch_lock, asynch_empty,
     packet_queue_free_packet, ThreadExit, SpuriousWakeup, history, vars,
     Lock, Unlock, OwnerAt, IInv, TypeOK, MutexInv, Critical, Threads, Workers
<1> QED
  BY <1>1, <1>2 DEF Fifo!fifoVars, AbsContents, AbsReceived
\* Linking or unlinking a packet is not yet visible in the abstract queue.
LEMMA LinkSteps ==
  ASSUME IInv, NEW t \in Workers, add_item_link(t) \/ get_unlink(t)
  PROVE  UNCHANGED Fifo!fifoVars
<1> USE ThreadsAssumption
<1>1. CASE add_item_link(t)
  <2>1. /\ queue_mutex = t /\ OwnerAt = "add_link"
        /\ queue_mutex' = t /\ OwnerAt' = "add_count"
        /\ item[t] \in Packets
    BY <1>1 DEF add_item_link, OwnerAt, IInv, TypeOK, MutexInv, RoleInv,
       Critical, Threads, Workers
  <2>2. AbsContents = queue /\ AbsReceived = delivered
    BY <2>1 DEF AbsContents, AbsReceived
  <2>3. AbsContents' = SubSeq(queue', 1, Len(queue') - 1) /\ AbsReceived' = delivered'
    BY <2>1 DEF AbsContents, AbsReceived
  <2>4. SubSeq(queue', 1, Len(queue') - 1) = queue
    BY <1>1, <2>1, FrontOfAppend DEF add_item_link, IInv, TypeOK
  <2> QED
    BY <1>1, <2>2, <2>3, <2>4 DEF add_item_link, Fifo!fifoVars
<1>2. CASE get_unlink(t)
  <2>1. /\ queue_mutex = t /\ OwnerAt \in {"get_test", "poll_test"}
        /\ queue_mutex' = t /\ OwnerAt' = "get_count"
    BY <1>2 DEF get_unlink, OwnerAt, IInv, TypeOK, MutexInv, Critical, Threads,
       Workers
  <2>2. AbsContents = queue /\ AbsReceived = delivered
    BY <2>1 DEF AbsContents, AbsReceived
  <2>3. /\ AbsContents' = <<item'[t]>> \o queue'
        /\ AbsReceived' = SubSeq(delivered', 1, Len(delivered') - 1)
    BY <2>1 DEF AbsContents, AbsReceived
  <2>4. <<item'[t]>> \o queue' = queue
    BY <1>2, ConsHeadTail DEF get_unlink, IInv, TypeOK, Threads, Workers
  <2>5. SubSeq(delivered', 1, Len(delivered') - 1) = delivered
    BY <1>2, FrontOfAppend DEF get_unlink, IInv, TypeOK
  <2> QED
    BY <1>2, <2>2, <2>3, <2>4, <2>5 DEF get_unlink, Fifo!fifoVars
<1> QED
  BY <1>1, <1>2

\* queue_count++ is the moment the packet enters the abstract queue.
LEMMA AddImplementsPut ==
  ASSUME IInv, NEW t \in Workers, add_item_unlock(t)
  PROVE  \E p \in Packets : Fifo!Put(p)
<1> USE ThreadsAssumption
<1>1. /\ queue_mutex = t /\ OwnerAt = "add_count" /\ OwnerAt' = "free"
      /\ queue' = queue /\ queue # <<>> /\ delivered' = delivered
      /\ queue_count' = queue_count + 1
  BY DEF add_item_unlock, Unlock, history, OwnerAt, IInv, TypeOK, MutexInv,
     TailInv, Critical, Threads, Workers
<1>2. /\ AbsContents = SubSeq(queue, 1, Len(queue) - 1) /\ AbsContents' = queue
      /\ AbsReceived' = AbsReceived
  BY <1>1 DEF AbsContents, AbsReceived
<1>3. queue[Len(queue)] \in Packets
  BY <1>1 DEF IInv, TypeOK
<1>4. Append(SubSeq(queue, 1, Len(queue) - 1), queue[Len(queue)]) = queue
  BY <1>1, AppendFront DEF IInv, TypeOK
<1>5. Fifo!Put(queue[Len(queue)])
  BY <1>1, <1>2, <1>4 DEF Fifo!Put
<1> QED
  BY <1>3, <1>5

\* queue_count-- is the moment the packet leaves the abstract queue.
LEMMA GetImplementsTake ==
  ASSUME IInv, NEW t \in Workers, get_unlock(t)
  PROVE  Fifo!Take
<1> USE ThreadsAssumption
<1>1. /\ queue_mutex = t /\ OwnerAt = "get_count" /\ OwnerAt' = "free"
      /\ queue' = queue /\ delivered' = delivered
      /\ queue_count' = queue_count - 1
      /\ delivered # <<>> /\ delivered[Len(delivered)] = item[t]
      /\ item[t] \in Packets
  BY DEF get_unlock, Unlock, history, OwnerAt, IInv, TypeOK, MutexInv, RoleInv,
     TailInv, Critical, Threads, Workers
<1>2. /\ AbsContents = <<item[t]>> \o queue /\ AbsContents' = queue
      /\ AbsReceived = SubSeq(delivered, 1, Len(delivered) - 1)
      /\ AbsReceived' = delivered
  BY <1>1 DEF AbsContents, AbsReceived
<1>3. /\ AbsContents # <<>> /\ Tail(AbsContents) = queue
      /\ Head(AbsContents) = item[t]
  BY <1>1, <1>2, HeadTailOfCons DEF IInv, TypeOK
<1>4. Append(AbsReceived, item[t]) = delivered
  BY <1>1, <1>2, AppendFront DEF IInv, TypeOK
<1> QED
  BY <1>1, <1>2, <1>3, <1>4 DEF Fifo!Take

\* The flush: entries are freed one by one, queue_count = 0 discards them.
LEMMA FlushImplementsDiscard ==
  ASSUME IInv, MainStep
  PROVE  Fifo!Discard \/ UNCHANGED Fifo!fifoVars
<1> USE ThreadsAssumption
<1>1. CASE packet_queue_flush
  <2>1. /\ queue_mutex' = queue_mutex /\ OwnerAt' = OwnerAt
        /\ UNCHANGED <<queue, queue_count, item, delivered, flushed>>
    BY <1>1 DEF packet_queue_flush, history, OwnerAt, IInv, TypeOK, MutexInv,
       Critical, Threads, Workers
  <2> QED
    BY <2>1 DEF Fifo!fifoVars, AbsContents, AbsReceived
<1>2. CASE flush_lock
  <2>1. /\ OwnerAt = "free" /\ OwnerAt' = "flush_free" /\ flushed' = <<>>
        /\ UNCHANGED <<queue, queue_count, delivered>>
    BY <1>2 DEF flush_lock, Lock, history, OwnerAt, IInv, TypeOK, FlushInv,
       Threads, Workers
  <2>2. flushed' \o queue' = queue
    BY <2>1, ConcatEmptySeq DEF IInv, TypeOK
  <2> QED
    BY <2>1, <2>2 DEF Fifo!fifoVars, AbsContents, AbsReceived
<1>3. CASE flush_free
  <2>1. /\ OwnerAt = "flush_free" /\ OwnerAt' = "flush_free"
        /\ UNCHANGED <<queue_count, delivered>>
    BY <1>3 DEF flush_free, OwnerAt, IInv, TypeOK, MutexInv, Critical, Threads
  <2>2. flushed' \o queue' = flushed \o queue
    <3>1. flushed \in Seq(Packets) /\ queue \in Seq(Packets) /\ queue # <<>>
      BY <1>3 DEF flush_free, IInv, TypeOK
    <3>2. flushed' = Append(flushed, Head(queue)) /\ queue' = Tail(queue)
      BY <1>3 DEF flush_free
    <3> QED
      BY <3>1, <3>2, ShiftHead
  <2> QED
    BY <2>1, <2>2 DEF Fifo!fifoVars, AbsContents, AbsReceived
<1>4. CASE flush_unlock
  <2>1. /\ OwnerAt = "flush_free" /\ OwnerAt' = "free"
        /\ queue' = <<>> /\ queue_count' = 0 /\ delivered' = delivered
    BY <1>4 DEF flush_unlock, Unlock, history, OwnerAt, IInv, TypeOK, MutexInv,
       Critical, Threads
  <2> QED
    BY <2>1 DEF Fifo!Discard, AbsContents, AbsReceived
<1> QED
  BY <1>1, <1>2, <1>3, <1>4 DEF MainStep

\* packet_queue.c implements an atomic FIFO whose size is queue_count: the
\* unlocked reads of queue_count by extract_streams and decode_thread see the
\* length of that FIFO.
THEOREM QueueImplementsFifo == Spec => ImplementsFifo
<1>1. Init => Fifo!FifoInit
  BY InitImplementsFifo
<1>2. IInv /\ [Next]_vars => [Fifo!FifoNext]_(Fifo!fifoVars)
  <2> SUFFICES ASSUME IInv, [Next]_vars
               PROVE  Fifo!FifoNext \/ UNCHANGED Fifo!fifoVars
    OBVIOUS
  <2>1. ASSUME NEW t \in Workers, ThreadStep(t) \/ SpuriousWakeup(t)
        PROVE  Fifo!FifoNext \/ UNCHANGED Fifo!fifoVars
    BY <2>1, QuietSteps, LinkSteps, AddImplementsPut, GetImplementsTake
       DEF ThreadStep, LinkStep, OtherStep, Fifo!FifoNext
  <2>2. CASE MainStep
    BY <2>2, FlushImplementsDiscard DEF Fifo!FifoNext
  <2>3. CASE UNCHANGED vars
    BY <2>3 DEF vars, Fifo!fifoVars, AbsContents, AbsReceived, OwnerAt
  <2> QED
    BY <2>1, <2>2, <2>3 DEF Next
<1> QED
  BY <1>1, <1>2, InvariantHolds, PTL DEF Spec, ImplementsFifo, Fifo!FifoSpec
-----------------------------------------------------------------------------
(* Custody *)

\* A thread holds a packet only where the code has one, and the packet that has been
\* linked is the last of the list until the caller gives it up.
OwnInv ==
  \A t \in Threads :
    /\ item[t] # NULL => t # Main
    /\ item[t] # NULL /\ t \in Producers => pc[t] \in {"add_lock", "add_link", "add_count"}
    /\ item[t] # NULL /\ t \notin Producers => pc[t] \in {"idle", "get_count"}
    /\ pc[t] = "add_count" => queue # <<>> /\ queue[Len(queue)] = item[t]

LEMMA InitCustody == Init => OwnInv /\ Custody
BY ThreadsAssumption DEF Init, OwnInv, Custody, Holders, Places, Threads, Workers

\* Steps that leave the list, the packets held and the heap alone.
LEMMA Custody_quiet ==
  ASSUME IInv, OwnInv, Custody, UNCHANGED <<queue, item, heap>>,
         pc' \in [Threads -> PcStates],
         \A t \in Threads :
           \/ pc'[t] = pc[t]
           \/ item[t] = NULL /\ pc[t] # "add_count" /\ pc'[t] # "add_count"
           \/ pc[t] = "add_lock" /\ pc'[t] = "add_link"
           \/ pc[t] = "get_count" /\ pc'[t] = "idle",
         pc'[Main] = "exited" => pc[Main] = "exited"
  PROVE  OwnInv' /\ Custody'
<1>1. OwnInv'
  BY DEF OwnInv, Threads, Workers
<1>2. \A p \in Packets : Holders(p)' = Holders(p) /\ Places(p)' = Places(p)
  BY DEF Holders, Places
<1>3. \A t \in Threads : pc[t] = "add_count" => pc'[t] = "add_count"
  BY DEF OwnInv
<1> QED
  BY <1>1, <1>2, <1>3 DEF Custody, Holders

LEMMA Custody_add_item ==
  ASSUME IInv, OwnInv, Custody, NEW t \in Workers, NEW p \in Packets \cup {NULL},
         packet_queue_add_item(t, p)
  PROVE  OwnInv' /\ Custody'
<1>1. CASE p = NULL
  BY <1>1 DEF packet_queue_add_item, vars, OwnInv, Custody, Holders, Places
<1>2. CASE p # NULL
  <2>1. /\ p \in Packets /\ t \in Producers /\ t # Main /\ t \in Threads
        /\ heap[p] = "unallocated" /\ pc[t] = "idle" /\ pc[Main] # "exited"
        /\ heap' = [heap EXCEPT ![p] = "live"] /\ item' = [item EXCEPT ![t] = p]
        /\ pc' = [pc EXCEPT ![t] = "add_lock"] /\ queue' = queue
    BY <1>2, ThreadsAssumption
       DEF packet_queue_add_item, IInv, FlushInv, Threads, Workers
  <2>2. item[t] = NULL
    BY <2>1 DEF OwnInv
  <2>3. Holders(p) = {} /\ Places(p) = {}
    BY <2>1 DEF Custody
  <2>4. \A q \in Packets : Places(q)' = Places(q)
    BY <2>1 DEF Places
  <2>5. \A q \in Packets : Holders(q)' = IF q = p THEN {t} ELSE Holders(q)
    BY <2>1, <2>2, <2>3, ThreadsAssumption DEF Holders, IInv, TypeOK
  <2>6. OwnInv'
    BY <2>1, <2>2 DEF OwnInv, IInv, TypeOK
  <2>7. Custody'
    <3>1. ASSUME NEW q \in Packets, q # p PROVE heap'[q] = heap[q] /\ \A u \in Holders(q) : u # t
      BY <2>1, <2>2, <3>1, ThreadsAssumption DEF IInv, TypeOK, Holders
    <3>2. heap'[p] = "live" /\ pc'[Main] # "exited"
      BY <2>1, ThreadsAssumption DEF IInv, TypeOK, Threads
    <3> QED
      BY <2>1, <2>3, <2>4, <2>5, <3>1, <3>2 DEF Custody, Holders, IInv, TypeOK
  <2> QED
    BY <2>6, <2>7
<1> QED
  BY <1>1, <1>2

LEMMA Custody_add_item_link ==
  ASSUME IInv, OwnInv, Custody, NEW t \in Workers, add_item_link(t)
  PROVE  OwnInv' /\ Custody'
<1>0. PICK x \in Packets : x = item[t]
  BY DEF add_item_link, IInv, TypeOK, RoleInv, Unlock, Threads, Workers
<1>1. /\ t \in Threads /\ t # Main /\ t \in Producers /\ x = item[t]
      /\ pc[t] = "add_link" /\ pc' = [pc EXCEPT ![t] = "add_count"] /\ pc[Main] # "exited"
      /\ queue' = Append(queue, x) /\ item' = item /\ heap' = heap
      /\ queue \in Seq(Packets)
  BY <1>0, ThreadsAssumption DEF add_item_link, IInv, TypeOK, RoleInv, FlushInv, Threads, Workers
<1>2. t \in Holders(x) /\ Places(x) = {}
  BY <1>1 DEF Custody, Holders
<1>3. \A q \in Packets : Holders(q)' = Holders(q)
  BY <1>1 DEF Holders
<1>4. \A q \in Packets : Places(q)' = IF q = x THEN {Len(queue) + 1} ELSE Places(q)
  BY <1>1, <1>2 DEF Places
<1>5. \A u \in Threads : u # t => pc[u] # "add_count"
  BY <1>1 DEF IInv, MutexInv, Critical
<1>6. OwnInv'
  <2>1. queue' # <<>> /\ queue'[Len(queue')] = x
    BY <1>1
  <2>2. \A u \in Threads : pc'[u] = IF u = t THEN "add_count" ELSE pc[u]
    BY <1>1 DEF IInv, TypeOK
  <2>3. item'[t] = x
    BY <1>1
  <2> QED
    BY <1>1, <1>5, <2>1, <2>2, <2>3 DEF OwnInv
<1>7. Custody'
  <2>1. \A u \in Threads : pc'[u] = IF u = t THEN "add_count" ELSE pc[u]
    BY <1>1 DEF IInv, TypeOK
  <2>2. ASSUME NEW q \in Packets, q # x
        PROVE  Holders(q)' = Holders(q) /\ Places(q)' = Places(q) /\ t \notin Holders(q)
    BY <1>1, <1>3, <1>4, <2>2 DEF Holders
  <2>3. Holders(x)' = {t} /\ Places(x)' = {Len(queue) + 1}
    BY <1>1, <1>2, <1>3, <1>4 DEF Custody
  <2>4. heap[x] = "live" /\ pc'[Main] # "exited"
    BY <1>1, <1>2, <2>1 DEF Custody, Threads
  <2> QED
    BY <1>1, <2>1, <2>2, <2>3, <2>4 DEF Custody
<1> QED
  BY <1>6, <1>7

LEMMA Custody_add_item_unlock ==
  ASSUME IInv, OwnInv, Custody, NEW t \in Workers, add_item_unlock(t)
  PROVE  OwnInv' /\ Custody'
<1>0. PICK x \in Packets : x = item[t]
  BY DEF add_item_unlock, IInv, TypeOK, RoleInv, Unlock, Threads, Workers
<1>1. /\ t \in Threads /\ t # Main /\ t \in Producers /\ x = item[t]
      /\ pc[t] = "add_count" /\ pc' = [pc EXCEPT ![t] = "idle"] /\ pc[Main] # "exited"
      /\ queue' = queue /\ item' = [item EXCEPT ![t] = NULL] /\ heap' = heap
      /\ queue \in Seq(Packets) /\ queue # <<>> /\ queue[Len(queue)] = x
  BY <1>0, ThreadsAssumption DEF add_item_unlock, Unlock, history, IInv, TypeOK, RoleInv,
     FlushInv, OwnInv, Threads, Workers
<1>2. t \in Holders(x) /\ Len(queue) \in Places(x)
  BY <1>1 DEF Holders, Places
<1>3. \A q \in Packets : Holders(q)' = IF q = x THEN {} ELSE Holders(q)
  BY <1>1, <1>2, ThreadsAssumption DEF Holders, Custody, IInv, TypeOK
<1>4. \A q \in Packets : Places(q)' = Places(q)
  BY <1>1 DEF Places
<1>5. OwnInv'
  BY <1>1 DEF OwnInv, IInv, TypeOK
<1>6. Custody'
  BY <1>1, <1>2, <1>3, <1>4 DEF Custody, Holders, IInv, TypeOK
<1> QED
  BY <1>5, <1>6

LEMMA Custody_get_unlink ==
  ASSUME IInv, OwnInv, Custody, NEW t \in Workers, get_unlink(t)
  PROVE  OwnInv' /\ Custody'
<1>0. PICK x \in Packets : x = Head(queue)
  BY DEF get_unlink, IInv, TypeOK
<1>1. /\ t \in Threads /\ t # Main /\ t \notin Producers /\ x = Head(queue)
      /\ pc[t] \in {"get_test", "poll_test"} /\ pc' = [pc EXCEPT ![t] = "get_count"]
      /\ pc[Main] # "exited" /\ item[t] = NULL
      /\ queue' = Tail(queue) /\ item' = [item EXCEPT ![t] = x] /\ heap' = heap
      /\ queue \in Seq(Packets) /\ queue # <<>> /\ x = queue[1]
  BY <1>0, ThreadsAssumption DEF get_unlink, IInv, TypeOK, RoleInv, FlushInv, OwnInv, Threads,
     Workers
<1>2. \A u \in Threads : pc[u] # "add_count" /\ pc'[u] # "add_count"
  BY <1>1 DEF IInv, TypeOK, MutexInv, Critical
<1>3. 1 \in Places(x) /\ Holders(x) = {}
  BY <1>1, <1>2 DEF Holders, Places, Custody
<1>4. \A q \in Packets : Holders(q)' = IF q = x THEN {t} ELSE Holders(q)
  BY <1>1, <1>3, ThreadsAssumption DEF Holders, IInv, TypeOK
<1>5. \A q \in Packets : \A i \in Places(q)' : i + 1 \in Places(q) /\ i \in Nat \ {0}
  BY <1>1 DEF Places
<1>6. \A q \in Packets : \A i \in Places(q) : i # 1 => i - 1 \in Places(q)' /\ i \in Nat
  BY <1>1 DEF Places
<1>7. Places(x)' = {}
  BY <1>1, <1>3, <1>5 DEF Custody, Places
<1>8. \A q \in Packets : q # x => (Places(q)' = {} <=> Places(q) = {})
  <2>1. \A q \in Packets : q # x => 1 \notin Places(q)
    BY <1>1 DEF Places
  <2> QED
    BY <1>5, <1>6, <2>1
<1>9. OwnInv'
  BY <1>1, <1>2 DEF OwnInv, IInv, TypeOK
<1>10. Custody'
  <2>1. ASSUME NEW q \in Packets PROVE \A i, j \in Places(q)' : i = j
    BY <1>5, <2>1 DEF Custody
  <2>2. Holders(x)' = {t} /\ Places(x)' = {} /\ heap[x] = "live"
    BY <1>1, <1>3, <1>4, <1>7 DEF Custody
  <2>3. \A q \in Packets : q # x => Holders(q)' = Holders(q)
    BY <1>4
  <2>4. pc'[Main] # "exited"
    BY <1>1 DEF IInv, TypeOK, Threads
  <2>5. \A q \in Packets : q # x => \A u \in Holders(q) : Places(q)' # {} => pc'[u] = "add_count"
    BY <1>2, <1>8 DEF Custody, Holders
  <2>6. ASSUME NEW q \in Packets, q # x
        PROVE  /\ heap'[q] = "live" <=> Holders(q)' # {} \/ Places(q)' # {}
               /\ \A u, v \in Holders(q)' : u = v
               /\ \A u \in Holders(q)' : Places(q)' # {} => pc'[u] = "add_count"
    BY <1>1, <1>8, <2>3, <2>5, <2>6 DEF Custody
  <2> QED
    BY <1>1, <2>1, <2>2, <2>4, <2>6 DEF Custody
<1> QED
  BY <1>9, <1>10

LEMMA Custody_free_packet ==
  ASSUME IInv, OwnInv, Custody, NEW t \in Workers, packet_queue_free_packet(t)
  PROVE  OwnInv' /\ Custody'
<1>0. PICK x \in Packets : x = item[t]
  BY DEF packet_queue_free_packet, IInv, TypeOK, RoleInv, Unlock, Threads, Workers
<1>1. /\ t \in Threads /\ t # Main /\ t \notin Producers /\ x = item[t]
      /\ pc[t] = "idle" /\ pc' = pc /\ queue' = queue
      /\ item' = [item EXCEPT ![t] = NULL] /\ heap' = [heap EXCEPT ![x] = "freed"]
  BY <1>0, ThreadsAssumption DEF packet_queue_free_packet, IInv, TypeOK, Threads, Workers
<1>2. t \in Holders(x) /\ Places(x) = {}
  BY <1>1 DEF Holders, Custody
<1>3. \A q \in Packets : Holders(q)' = IF q = x THEN {} ELSE Holders(q)
  BY <1>1, <1>2, ThreadsAssumption DEF Holders, Custody, IInv, TypeOK
<1>4. \A q \in Packets : Places(q)' = Places(q)
  BY <1>1 DEF Places
<1>5. OwnInv'
  BY <1>1 DEF OwnInv, IInv, TypeOK
<1>6. Custody'
  BY <1>1, <1>2, <1>3, <1>4 DEF Custody, Holders, IInv, TypeOK
<1> QED
  BY <1>5, <1>6

\* In the flush nobody holds a packet.
LEMMA NobodyHolds ==
  ASSUME IInv, OwnInv, pc[Main] # "idle"
  PROVE  \A t \in Threads : item[t] = NULL
BY DEF IInv, FlushInv, OwnInv, Threads, Workers

LEMMA Custody_flush_free ==
  ASSUME IInv, OwnInv, Custody, flush_free
  PROVE  OwnInv' /\ Custody'
<1>0. PICK x \in Packets : x = Head(queue)
  BY DEF flush_free, IInv, TypeOK
<1>1. /\ x = Head(queue) /\ pc[Main] = "flush_free" /\ pc' = pc /\ item' = item
      /\ queue' = Tail(queue) /\ heap' = [heap EXCEPT ![x] = "freed"]
      /\ queue \in Seq(Packets) /\ queue # <<>> /\ x = queue[1]
  BY <1>0 DEF flush_free, IInv, TypeOK
<1>2. \A t \in Threads : item[t] = NULL /\ pc[t] # "add_count"
  BY <1>1, NobodyHolds DEF IInv, RoleInv, ThreadsAssumption, FlushInv, Threads, Workers
<1>3. \A q \in Packets : Holders(q)' = {} /\ Holders(q) = {}
  BY <1>1, <1>2, ThreadsAssumption DEF Holders
<1>4. \A q \in Packets : \A i \in Places(q)' : i + 1 \in Places(q) /\ i \in Nat \ {0}
  BY <1>1 DEF Places
<1>5. \A q \in Packets : \A i \in Places(q) : i # 1 => i - 1 \in Places(q)' /\ i \in Nat
  BY <1>1 DEF Places
<1>6. 1 \in Places(x) /\ Places(x)' = {}
  BY <1>1, <1>4 DEF Custody, Places
<1>7. \A q \in Packets : q # x => (Places(q)' = {} <=> Places(q) = {})
  <2>1. \A q \in Packets : q # x => 1 \notin Places(q)
    BY <1>1 DEF Places
  <2> QED
    BY <1>4, <1>5, <2>1
<1>8. OwnInv'
  BY <1>1, <1>2 DEF OwnInv
<1>9. Custody'
  <2>1. ASSUME NEW q \in Packets PROVE \A i, j \in Places(q)' : i = j
    BY <1>4, <2>1 DEF Custody
  <2>2. heap'[x] = "freed" /\ \A q \in Packets : q # x => heap'[q] = heap[q]
    BY <1>1 DEF IInv, TypeOK
  <2> QED
    BY <1>1, <1>3, <1>6, <1>7, <2>1, <2>2 DEF Custody
<1> QED
  BY <1>8, <1>9

LEMMA Custody_flush_unlock ==
  ASSUME IInv, OwnInv, Custody, flush_unlock
  PROVE  OwnInv' /\ Custody'
<1>1. /\ queue = <<>> /\ queue' = queue /\ item' = item /\ heap' = heap
      /\ pc[Main] = "flush_free" /\ pc' = [pc EXCEPT ![Main] = "exited"]
  BY DEF flush_unlock, Unlock, history
<1>2. \A t \in Threads : item[t] = NULL /\ pc[t] # "add_count"
  BY <1>1, NobodyHolds DEF IInv, FlushInv, Threads, Workers
<1>3. \A q \in Packets : Holders(q)' = {} /\ Holders(q) = {} /\ Places(q)' = {} /\ Places(q) = {}
  BY <1>1, <1>2, ThreadsAssumption DEF Holders, Places
<1>4. OwnInv'
  BY <1>1, <1>2 DEF OwnInv, IInv, TypeOK
<1>5. Custody'
  BY <1>1, <1>3 DEF Custody
<1> QED
  BY <1>4, <1>5

LEMMA NextCustody == IInv /\ OwnInv /\ Custody /\ [Next]_vars => OwnInv' /\ Custody'
<1> SUFFICES ASSUME IInv, OwnInv, Custody, [Next]_vars PROVE OwnInv' /\ Custody'
  OBVIOUS
<1>0. pc' \in [Threads -> PcStates] /\ pc \in [Threads -> PcStates]
  BY NextIInv DEF IInv, TypeOK
<1>1. ASSUME NEW t \in Workers, OtherStep(t) PROVE OwnInv' /\ Custody'
  <2>0. t \in Threads /\ t # Main
    BY ThreadsAssumption DEF Threads, Workers
  <2>1. ASSUME NEW p \in Packets \cup {NULL}, packet_queue_add_item(t, p)
        PROVE  OwnInv' /\ Custody'
    BY <2>1, Custody_add_item
  <2>2. CASE add_item_lock(t)
    BY <1>0, <2>0, <2>2, Custody_quiet DEF add_item_lock, Lock
  <2>3. CASE add_item_unlock(t)
    BY <2>3, Custody_add_item_unlock
  <2>4. CASE packet_queue_get_next_item(t)
    BY <1>0, <2>0, <2>4, Custody_quiet DEF packet_queue_get_next_item
  <2>5. CASE get_next_item_lock(t) \/ get_next_item_wake(t)
    <3>1. item[t] = NULL
      BY <2>0, <2>5, ThreadsAssumption
         DEF get_next_item_lock, get_next_item_wake, Lock, OwnInv
    <3>2. /\ UNCHANGED <<queue, item, heap>> /\ pc' = [pc EXCEPT ![t] = "get_test"]
          /\ pc[t] \in {"get_lock", "get_wait"}
      BY <2>5 DEF get_next_item_lock, get_next_item_wake, Lock
    <3> QED
      BY <1>0, <2>0, <3>1, <3>2, Custody_quiet
  <2>6. CASE get_next_item_wait(t) \/ asynch_empty(t)
    <3>1. item[t] = NULL
      BY <2>0, <2>6, ThreadsAssumption
         DEF get_next_item_wait, asynch_empty, Unlock, OwnInv
    <3>2. PICK x \in {"get_wait", "idle"} :
            /\ UNCHANGED <<queue, item, heap>> /\ pc[t] \in {"get_test", "poll_test"}
            /\ pc' = [pc EXCEPT ![t] = x]
      BY <2>6 DEF get_next_item_wait, asynch_empty, Unlock
    <3> QED
      BY <1>0, <2>0, <3>1, <3>2, Custody_quiet
  <2>7. CASE packet_queue_get_next_item_asynch(t)
    BY <1>0, <2>0, <2>7, Custody_quiet DEF packet_queue_get_next_item_asynch
  <2>8. CASE asynch_lock(t)
    <3>1. item[t] = NULL
      BY <2>0, <2>8, ThreadsAssumption DEF asynch_lock, Lock, OwnInv
    <3> QED
      BY <1>0, <2>0, <2>8, <3>1, Custody_quiet DEF asynch_lock, Lock
  <2>9. CASE get_unlock(t)
    BY <1>0, <2>0, <2>9, Custody_quiet DEF get_unlock, Unlock
  <2>10. CASE packet_queue_free_packet(t)
    BY <2>10, Custody_free_packet
  <2>11. CASE ThreadExit(t)
    BY <1>0, <2>0, <2>11, Custody_quiet DEF ThreadExit
  <2> QED
    BY <1>1, <2>1, <2>2, <2>3, <2>4, <2>5, <2>6, <2>7, <2>8, <2>9, <2>10, <2>11 DEF OtherStep
<1>2. ASSUME NEW t \in Workers, LinkStep(t) PROVE OwnInv' /\ Custody'
  BY <1>2, Custody_add_item_link, Custody_get_unlink DEF LinkStep
<1>3. ASSUME NEW t \in Workers, SpuriousWakeup(t) PROVE OwnInv' /\ Custody'
  BY <1>0, <1>3, Custody_quiet DEF SpuriousWakeup
<1>4. CASE MainStep
  <2>1. CASE packet_queue_flush \/ flush_lock
    <3>1. Main \in Threads /\ item[Main] = NULL
      BY DEF OwnInv, Threads
    <3> QED
      BY <1>0, <2>1, <3>1, Custody_quiet DEF packet_queue_flush, flush_lock, Lock
  <2> QED
    BY <1>4, <2>1, Custody_flush_free, Custody_flush_unlock DEF MainStep
<1>5. CASE UNCHANGED vars
  BY <1>0, <1>5, Custody_quiet DEF vars
<1> QED
  BY <1>1, <1>2, <1>3, <1>4, <1>5 DEF Next, ThreadStep

\* Ownership of packet_t, across packet_queue_add_item, both readers, their frees and
\* packet_queue_flush: every live packet has one owner, the list or one thread, none is
\* freed while somebody can still reach it, and none is left after the flush.
THEOREM CustodyHolds == Spec => []Custody
<1>1. Init => OwnInv /\ Custody
  BY InitCustody
<1>2. IInv /\ OwnInv /\ Custody /\ [Next]_vars => OwnInv' /\ Custody'
  BY NextCustody
<1> QED
  BY <1>1, <1>2, InvariantHolds, PTL DEF Spec
-----------------------------------------------------------------------------
(* The list of list.h is the queue. *)

\* The place k of the ring: the queued packets, and the head before and after them.
At(k) == IF k \in 1..Len(queue) THEN queue[k] ELSE list_head

RingInv ==
  /\ next \in [Nodes -> Pointers] /\ prev \in [Nodes -> Pointers]
  /\ \A k \in 0..Len(queue) : next[At(k)] = At(k + 1) /\ prev[At(k + 1)] = At(k)
  /\ pc[Main] = "flush_free" => pos = At(1) /\ n = next[pos]

\* Everything known of a state of PacketQueueList but the ring itself.
Known == IInv /\ OwnInv /\ Custody

LEMMA RingIsList == TypeOK /\ RingInv => ListIsQueue
<1> SUFFICES ASSUME TypeOK, RingInv PROVE ListIsQueue
  OBVIOUS
<1> DEFINE ring == <<list_head>> \o queue \o <<list_head>>
<1>1. queue \in Seq(Packets) /\ Len(queue) \in Nat
  BY DEF TypeOK
<1>2. \A k \in 1..(Len(queue) + 2) : ring[k] = At(k - 1)
  BY <1>1 DEF At
<1>3. \A k \in 1..(Len(queue) + 1) : next[ring[k]] = ring[k + 1] /\ prev[ring[k + 1]] = ring[k]
  <2> SUFFICES ASSUME NEW k \in 1..(Len(queue) + 1)
               PROVE  next[ring[k]] = ring[k + 1] /\ prev[ring[k + 1]] = ring[k]
    OBVIOUS
  <2>1. PICK j \in 0..Len(queue) : k = j + 1
    BY <1>1
  <2>2. ring[k] = At(j) /\ ring[k + 1] = At(j + 1)
    BY <1>1, <1>2, <2>1
  <2> QED
    BY <2>1, <2>2 DEF RingInv
<1>4. list_empty(list_head) <=> queue = <<>>
  <2>1. next[list_head] = At(1)
    BY <1>1 DEF RingInv, At
  <2>2. queue # <<>> => At(1) \in Packets
    BY <1>1 DEF At
  <2>3. queue = <<>> => At(1) = list_head
    BY DEF At
  <2> QED
    BY <2>1, <2>2, <2>3, NodesAssumption DEF list_empty
<1>5. ring[2] = At(1)
  BY <1>1, <1>2
<1> QED
  BY <1>3, <1>4, <1>5 DEF ListIsQueue, RingInv

LEMMA InitRing == ListInit => RingInv
BY NodesAssumption, ThreadsAssumption
   DEF ListInit, Init, RingInv, At, Nodes, Pointers, Threads, Workers

\* The queued packets are different nodes.
LEMMA QueueIsInjective ==
  ASSUME Known
  PROVE  /\ queue \in Seq(Packets)
         /\ \A i, j \in 1..Len(queue) : queue[i] = queue[j] => i = j
         /\ \A k \in 0..Len(queue) : \A j \in 1..Len(queue) : At(k) = queue[j] => k = j
<1>1. queue \in Seq(Packets)
  BY DEF Known, IInv, TypeOK
<1>2. \A i, j \in 1..Len(queue) : queue[i] = queue[j] => i = j
  BY <1>1 DEF Known, Custody, Places
<1>3. \A j \in 1..Len(queue) : queue[j] # list_head
  BY <1>1, NodesAssumption
<1> QED
  BY <1>1, <1>2, <1>3 DEF At

\* Steps that leave the list and the queue alone, and do not start the flush loop.
LEMMA Ring_quiet ==
  ASSUME RingInv, UNCHANGED <<queue, list, cursor>>,
         pc'[Main] = "flush_free" => pc[Main] = "flush_free"
  PROVE  RingInv'
BY DEF RingInv, At, list, cursor

\* list_add_tail
LEMMA Ring_link ==
  ASSUME Known, RingInv, NEW t \in Workers, link(t)
  PROVE  RingInv'
<1>0. PICK x \in Packets : x = item[t]
  BY DEF link, add_item_link, Known, IInv, TypeOK, RoleInv, Threads, Workers
<1>a. PICK L \in Nat : L = Len(queue)
  BY DEF Known, IInv, TypeOK
<1>1. /\ queue \in Seq(Packets) /\ queue' = Append(queue, x) /\ Len(queue) = L /\ Len(queue') = L + 1
      /\ next' = [next EXCEPT ![x] = list_head, ![prev[list_head]] = x]
      /\ prev' = [prev EXCEPT ![x] = prev[list_head], ![list_head] = x]
      /\ pc[t] = "add_link" /\ pc' = [pc EXCEPT ![t] = "add_count"] /\ t \in Threads
  BY <1>0, <1>a DEF link, add_item_link, list_add_tail, LinkBetween, Known, IInv, TypeOK, Threads,
     Workers
<1>2. \A j \in 1..L : queue[j] # x
  BY <1>0, <1>1 DEF Known, Custody, Holders, Places
<1>3. x # list_head /\ x \in Nodes /\ list_head \in Nodes /\ x \in Pointers /\ list_head \in Pointers
  BY NodesAssumption DEF Nodes, Pointers
<1>4. prev[list_head] = At(L) /\ At(L) \in Nodes /\ At(L) \in Pointers
  BY <1>1 DEF RingInv, At, Nodes, Pointers
<1>5. \A k \in 0..L : At(k)' = At(k) /\ At(k) # x /\ At(k) \in Nodes
  BY <1>1, <1>2, <1>3 DEF At, Nodes
<1>6. At(L + 1)' = x /\ At(L + 2)' = list_head /\ At(L + 1) = list_head
  BY <1>1 DEF At
<1>7. \A k \in 0..(L - 1) : At(k) # At(L) /\ At(k + 1) # list_head
  BY <1>1, NodesAssumption, QueueIsInjective DEF At
<1>8. next' \in [Nodes -> Pointers] /\ prev' \in [Nodes -> Pointers]
  BY <1>1, <1>3, <1>4 DEF RingInv
<1>9. ASSUME NEW k \in 0..(L - 1)
      PROVE  next'[At(k)'] = At(k + 1)' /\ prev'[At(k + 1)'] = At(k)'
  <2>1. next[At(k)] = At(k + 1) /\ prev[At(k + 1)] = At(k)
    BY <1>1 DEF RingInv
  <2>2. At(k)' = At(k) /\ At(k + 1)' = At(k + 1) /\ At(k) # x /\ At(k + 1) # x
        /\ At(k) \in Nodes /\ At(k + 1) \in Nodes
    <3>1. PICK j \in 0..L : j = k + 1
      BY <1>1
    <3>2. k \in 0..L
      BY <1>1
    <3> QED
      BY <1>5, <3>1, <3>2
  <2>3. At(k) # At(L) /\ At(k + 1) # list_head
    BY <1>7
  <2> QED
    BY <1>1, <1>4, <2>1, <2>2, <2>3 DEF RingInv
<1>10. next'[At(L)'] = x /\ prev'[x] = At(L)'
  BY <1>1, <1>3, <1>4, <1>5 DEF RingInv
<1>11. next'[x] = list_head /\ prev'[list_head] = x
  BY <1>1, <1>3, <1>4, <1>5 DEF RingInv
<1>12. \A k \in 0..(L + 1) : next'[At(k)'] = At(k + 1)' /\ prev'[At(k + 1)'] = At(k)'
  <2> SUFFICES ASSUME NEW k \in 0..(L + 1)
               PROVE  next'[At(k)'] = At(k + 1)' /\ prev'[At(k + 1)'] = At(k)'
    OBVIOUS
  <2>1. k \in 0..(L - 1) \/ k = L \/ k = L + 1
    BY <1>1
  <2> QED
    BY <1>6, <1>9, <1>10, <1>11, <2>1
<1>13. pc'[Main] # "flush_free"
  BY <1>1 DEF Known, IInv, TypeOK, MutexInv, Critical, Threads
<1> QED
  BY <1>1, <1>8, <1>12, <1>13 DEF RingInv

\* list_del of the first entry.
LEMMA Ring_del ==
  ASSUME Known, RingInv, queue # <<>>, queue' = Tail(queue), list_del(At(1))
  PROVE  /\ next' \in [Nodes -> Pointers] /\ prev' \in [Nodes -> Pointers]
         /\ \A k \in 0..Len(queue') : next'[At(k)'] = At(k + 1)' /\ prev'[At(k + 1)'] = At(k)'
         /\ At(1)' = next[At(1)]
<1>0. PICK x \in Packets : x = At(1)
  BY DEF At, Known, IInv, TypeOK
<1>1. queue \in Seq(Packets) /\ Len(queue) \in Nat \ {0} /\ x = queue[1] /\ Len(queue') = Len(queue) - 1
  BY <1>0 DEF At, Known, IInv, TypeOK
<1>2. x # list_head /\ x \in Nodes /\ list_head \in Nodes /\ list_head \in Pointers /\ LIST_POISON \in Pointers
  BY NodesAssumption DEF Nodes, Pointers
<1>3. next[x] = At(2) /\ prev[x] = list_head
  BY <1>0, <1>1 DEF RingInv, At
<1>4. /\ next' = [next EXCEPT ![list_head] = At(2), ![x] = LIST_POISON]
      /\ prev' = [prev EXCEPT ![At(2)] = list_head, ![x] = LIST_POISON]
  BY <1>0, <1>3 DEF list_del
<1>5. \A k \in 1..Len(queue) : At(k)' = At(k + 1)
  BY <1>1 DEF At
<1>6. At(0)' = list_head
  BY DEF At
<1>7. \A k \in 2..(Len(queue) + 1) : At(k) # x /\ At(k) \in Nodes
  BY <1>1, <1>2, QueueIsInjective DEF At, Nodes
<1>8. next' \in [Nodes -> Pointers] /\ prev' \in [Nodes -> Pointers]
  <2>1. At(2) \in Nodes /\ At(2) \in Pointers
    BY <1>1, <1>7 DEF Pointers
  <2> QED
    BY <1>2, <1>4, <2>1 DEF RingInv
<1>9. next'[At(0)'] = At(1)' /\ prev'[At(1)'] = At(0)'
  BY <1>1, <1>2, <1>4, <1>5, <1>6, <1>7 DEF RingInv
<1>10. ASSUME NEW k \in 1..(Len(queue) - 1)
       PROVE  next'[At(k)'] = At(k + 1)' /\ prev'[At(k + 1)'] = At(k)'
  <2>1. At(k)' = At(k + 1) /\ At(k + 1)' = At(k + 2)
    BY <1>1, <1>5
  <2>2. next[At(k + 1)] = At(k + 2) /\ prev[At(k + 2)] = At(k + 1)
    BY <1>1 DEF RingInv
  <2>3. At(k + 1) # x /\ At(k + 2) # x /\ At(k + 1) \in Nodes /\ At(k + 2) \in Nodes
    BY <1>1, <1>7
  <2>4. At(k + 1) # list_head /\ At(k + 2) # At(2)
    BY <1>1, NodesAssumption, QueueIsInjective DEF At
  <2> QED
    BY <1>4, <2>1, <2>2, <2>3, <2>4 DEF RingInv
<1>11. \A k \in 0..Len(queue') : next'[At(k)'] = At(k + 1)' /\ prev'[At(k + 1)'] = At(k)'
  BY <1>1, <1>9, <1>10
<1> QED
  BY <1>0, <1>1, <1>3, <1>5, <1>8, <1>11

LEMMA FirstIsAt1 ==
  ASSUME Known, RingInv
  PROVE  next[list_head] = At(1)
<1>1. Len(queue) \in Nat
  BY DEF Known, IInv, TypeOK
<1>2. At(0) = list_head
  BY DEF At
<1> QED
  BY <1>1, <1>2 DEF RingInv

LEMMA NextRing == Known /\ RingInv /\ [ListNext]_lvars => RingInv'
<1> SUFFICES ASSUME Known, RingInv, [ListNext]_lvars PROVE RingInv'
  OBVIOUS
<1>0. pc \in [Threads -> PcStates] /\ Main \in Threads
  BY DEF Known, IInv, TypeOK, Threads
<1>1. ASSUME NEW t \in Workers, link(t) PROVE RingInv'
  BY <1>1, Ring_link
<1>2. ASSUME NEW t \in Workers, unlink(t) PROVE RingInv'
  <2>1. /\ queue # <<>> /\ queue' = Tail(queue) /\ list_del(At(1))
        /\ pc' = [pc EXCEPT ![t] = "get_count"] /\ pc[t] \in {"get_test", "poll_test"}
    BY <1>2, FirstIsAt1 DEF unlink, get_unlink
  <2>2. pc'[Main] # "flush_free"
    BY <1>0, <2>1 DEF Known, IInv, MutexInv, Critical, Threads
  <2> QED
    BY <2>1, <2>2, Ring_del DEF RingInv
<1>3. ASSUME NEW t \in Workers, OtherStep(t), UNCHANGED <<list, cursor>> PROVE RingInv'
  <2>1. UNCHANGED queue /\ pc'[Main] = pc[Main]
    BY <1>0, <1>3, ThreadsAssumption
       DEF OtherStep, packet_queue_add_item, add_item_lock, add_item_unlock,
           packet_queue_get_next_item, get_next_item_lock, get_next_item_wait,
           get_next_item_wake, packet_queue_get_next_item_asynch, asynch_lock,
           asynch_empty, get_unlock, packet_queue_free_packet, ThreadExit,
           Lock, Unlock, vars, Threads, Workers
  <2> QED
    BY <1>3, <2>1, Ring_quiet
<1>4. ASSUME NEW t \in Workers, SpuriousWakeup(t), UNCHANGED <<list, cursor>> PROVE RingInv'
  BY <1>4, Ring_quiet DEF SpuriousWakeup
<1>5. CASE for_each_start
  <2>1. /\ UNCHANGED <<queue, next, prev>> /\ pos' = At(1) /\ n' = next[pos']
    BY <1>5, FirstIsAt1 DEF for_each_start, flush_lock, list
  <2> QED
    BY <2>1 DEF RingInv, At
<1>6. CASE for_each_safe
  <2>1. /\ queue # <<>> /\ queue' = Tail(queue) /\ list_del(At(1)) /\ pos = At(1) /\ n = next[pos]
        /\ pos' = n /\ n' = next'[pos']
    BY <1>6 DEF for_each_safe, flush_free, RingInv
  <2> QED
    BY <2>1, Ring_del DEF RingInv
<1>7. CASE (packet_queue_flush \/ flush_unlock) /\ UNCHANGED <<list, cursor>>
  <2>1. UNCHANGED queue /\ pc'[Main] # "flush_free"
    BY <1>0, <1>7 DEF packet_queue_flush, flush_unlock, Unlock
  <2> QED
    BY <1>7, <2>1, Ring_quiet
<1>8. CASE UNCHANGED lvars
  BY <1>8, Ring_quiet DEF lvars, vars
<1> QED
  BY <1>1, <1>2, <1>3, <1>4, <1>5, <1>6, <1>7, <1>8 DEF ListNext, ListThreadStep, ListMainStep

\* PacketQueue with its list takes the steps of PacketQueue.
LEMMA ListImplementsQueue == ListSpec => Spec
<1>1. ListInit => Init
  BY DEF ListInit
<1>2. [ListNext]_lvars => [Next]_vars
  BY DEF ListNext, ListThreadStep, ListMainStep, link, unlink, for_each_start, for_each_safe,
     Next, ThreadStep, LinkStep, MainStep, lvars
<1> QED
  BY <1>1, <1>2, PTL DEF ListSpec, Spec

\* list_add_tail, list_del and list_for_each_safe as packet_queue.c calls them, from any
\* number of threads: the pointers of list.h form one ring through the head and the queued
\* packets in order, both ways, and the flush loop never follows a deleted entry.
THEOREM ListIsQueueHolds == ListSpec => []ListIsQueue
<1>1. ListInit => RingInv
  BY InitRing
<1>2. Known /\ RingInv /\ [ListNext]_lvars => RingInv'
  BY NextRing
<1>3. Spec => []Known
  <2>1. Init => IInv /\ OwnInv /\ Custody
    BY InitIInv, InitCustody
  <2>2. IInv /\ OwnInv /\ Custody /\ [Next]_vars => IInv' /\ OwnInv' /\ Custody'
    BY NextIInv, NextCustody
  <2>3. IInv /\ OwnInv /\ Custody <=> Known
    BY DEF Known
  <2> QED
    BY <2>1, <2>2, <2>3, PTL DEF Spec
<1>4. Known /\ RingInv => ListIsQueue
  BY RingIsList DEF Known, IInv
<1> QED
  BY <1>1, <1>2, <1>3, <1>4, ListImplementsQueue, PTL DEF ListSpec
=============================================================================
