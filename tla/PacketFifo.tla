----------------------------- MODULE PacketFifo -----------------------------
(***************************************************************************)
(* What packet_queue.c promises to its callers: an atomic FIFO of packets  *)
(* whose advertised length is always the exact number of packets in it.    *)
(* PacketQueue, the mutex-and-condition-variable implementation, is shown  *)
(* to implement this module.                                               *)
(***************************************************************************)
EXTENDS Naturals, Sequences

CONSTANT Packets

VARIABLES contents,  \* the packets in the FIFO, oldest first
          size,      \* the length a reader that takes no lock sees
          received   \* every packet handed out so far, in order

fifoVars == <<contents, size, received>>

FifoInit == contents = <<>> /\ size = 0 /\ received = <<>>

\* A packet enters at the tail.
Put(p) ==
  /\ contents' = Append(contents, p)
  /\ size' = size + 1
  /\ UNCHANGED received

\* The oldest packet leaves and is handed to the caller.
Take ==
  /\ contents # <<>>
  /\ contents' = Tail(contents)
  /\ size' = size - 1
  /\ received' = Append(received, Head(contents))

\* Everything still queued is thrown away at once.
Discard ==
  /\ contents' = <<>>
  /\ size' = 0
  /\ UNCHANGED received

FifoNext == (\E p \in Packets : Put(p)) \/ Take \/ Discard

FifoSpec == FifoInit /\ [][FifoNext]_fifoVars
=============================================================================
