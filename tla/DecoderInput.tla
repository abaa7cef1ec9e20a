---------------------------- MODULE DecoderInput ----------------------------
(***************************************************************************)
(* The inner loop of decode_thread (encode.c): cutting a packet into the   *)
(* input buffers of the video decoder, and the hand-over of those buffers  *)
(* between omx_get_next_input_buffer and omx_empty_buffer_done (omx.c).    *)
(*                                                                         *)
(* The list of input buffers never changes; a buffer is empty when the     *)
(* decoder has reset its nFilledLen.  It does so on a thread of its own    *)
(* that does not hold buf_in_mutex, and omx_empty_buffer_done reads        *)
(* buf_in_notempty before it takes the mutex: each read of shared memory   *)
(* is therefore a step, and buf_in_mutex is modelled.                      *)
(***************************************************************************)
EXTENDS OmxTicks, Sequences

CONSTANTS
  NBuffers,   \* nBufferCountActual of decoder port 130
  AllocLen,   \* nAllocLen of a buffer
  Packets,    \* the packets to feed: a sequence of [length, key, PTS]
  decoder     \* the component's thread, as an owner of buf_in_mutex

ASSUME SizesAssumption ==
  /\ NBuffers \in Nat \ {0} /\ AllocLen \in Nat \ {0}
  /\ Packets \in Seq([length : Nat, key : BOOLEAN, PTS : Int64])

ASSUME OwnersAssumption == decoder \notin {"free", "decode_thread"}

Buffers == 1..NBuffers

VARIABLES
  pc,              \* decode_thread
  scan,            \* omx_get_next_input_buffer: ret, 0 for NULL
  asleep,          \* ... on buf_in_notempty_cv
  current,         \* index of current_packet
  bytes_left,
  first_packet,    \* ctx->first_packet
  nFilledLen,      \* buffer -> nFilledLen
  buf_in_notempty,
  buf_in_mutex,    \* "free", "decode_thread" or the decoder
  with_decoder,    \* buffers handed over with OMX_EmptyThisBuffer, in order
  callback,        \* omx_empty_buffer_done: "none", "test", "set", "unlock"
  fed              \* what was handed over, in order

packet  == <<current, bytes_left, first_packet>>
thread  == <<pc, scan, asleep, packet>>
shared  == <<nFilledLen, buf_in_notempty, buf_in_mutex>>
notBuf  == <<with_decoder, callback, fed>>
vars    == <<thread, shared, notBuf>>

EOS == Len(Packets) + 1  \* the pseudo packet fed after the loop

Init ==
  /\ pc = "next_packet" /\ scan = 0 /\ asleep = FALSE
  /\ current = 0 /\ bytes_left = 0 /\ first_packet = TRUE
  /\ nFilledLen = [b \in Buffers |-> 0]
  /\ buf_in_notempty = 1 /\ buf_in_mutex = "free"
  /\ with_decoder = <<>> /\ callback = "none" /\ fed = <<>>

-----------------------------------------------------------------------------
(* decode_thread *)

\* Take the next packet, or leave the loop to send EOS.
next_packet ==
  /\ pc = "next_packet"
  /\ current < EOS
  /\ current' = current + 1
  /\ bytes_left' = IF current' = EOS THEN 0 ELSE Packets[current'].length
  /\ pc' = IF current' = EOS THEN "lock" ELSE "test_bytes"
  /\ UNCHANGED <<scan, asleep, first_packet, shared, notBuf>>

\* while (bytes_left > 0): a packet of length 0 is never handed over.
test_bytes ==
  /\ pc = "test_bytes"
  /\ pc' = IF bytes_left > 0 THEN "count" ELSE "next_packet"
  /\ UNCHANGED <<scan, asleep, packet, shared, notBuf>>

\* omx_get_free_buffer_count, for the progress line: it needs the mutex and gives it
\* back.
omx_get_free_buffer_count ==
  /\ pc = "count"
  /\ buf_in_mutex = "free"
  /\ pc' = "lock"
  /\ UNCHANGED <<scan, asleep, packet, shared, notBuf>>

\* omx_get_next_input_buffer: lock and start at the head of the list.
get_buffer_lock ==
  /\ pc = "lock"
  /\ buf_in_mutex = "free"
  /\ buf_in_mutex' = "decode_thread"
  /\ scan' = 1
  /\ pc' = "scan"
  /\ UNCHANGED <<asleep, packet, nFilledLen,
                 buf_in_notempty, notBuf>>

\* Look at one buffer.
Scan(is_empty) ==
  /\ pc = "scan"
  /\ \/ is_empty /\ pc' = "unlock" /\ UNCHANGED scan
     \/ ~is_empty /\ scan = NBuffers /\ pc' = "none" /\ scan' = 0
     \/ ~is_empty /\ scan < NBuffers /\ scan' = scan + 1 /\ UNCHANGED pc
  /\ UNCHANGED <<asleep, packet, shared, notBuf>>

\* Mutant: the last buffer is taken unseen.
Mut_get_buffer_scan == Scan(nFilledLen[scan] = 0 \/ scan = NBuffers)

\* A filled one is passed over.
get_buffer_scan == Scan(nFilledLen[scan] = 0)

\* No buffer was empty: clear the flag ...
get_buffer_none ==
  /\ pc = "none"
  /\ buf_in_notempty' = 0
  /\ pc' = "wait"
  /\ UNCHANGED <<scan, asleep, packet, nFilledLen,
                 buf_in_mutex, notBuf>>

\* ... and sleep until it is set, which releases the mutex.
get_buffer_wait ==
  /\ pc = "wait" /\ ~asleep
  /\ buf_in_mutex = "decode_thread"
  /\ buf_in_mutex' = "free"
  /\ IF buf_in_notempty = 0
     THEN asleep' = TRUE /\ UNCHANGED pc
     ELSE pc' = "lock" /\ UNCHANGED asleep
  /\ UNCHANGED <<scan, packet, nFilledLen,
                 buf_in_notempty, notBuf>>

\* A woken thread takes the mutex again and tests the flag.
get_buffer_wake ==
  /\ pc = "wait" /\ ~asleep
  /\ buf_in_mutex = "free"
  /\ buf_in_mutex' = "decode_thread"
  /\ UNCHANGED <<thread, nFilledLen, buf_in_notempty, notBuf>>

SpuriousWakeup ==
  /\ asleep
  /\ asleep' = FALSE
  /\ UNCHANGED <<pc, scan, packet, shared,
                 notBuf>>

\* Mutant: the buffer is returned with the mutex still locked.
Mut_get_buffer_unlock ==
  /\ pc = "unlock"
  /\ pc' = "fill"
  /\ UNCHANGED <<scan, asleep, packet, shared, notBuf>>

get_buffer_unlock ==
  /\ pc = "unlock"
  /\ buf_in_mutex' = "free"
  /\ pc' = "fill"
  /\ UNCHANGED <<scan, asleep, packet, nFilledLen,
                 buf_in_notempty, notBuf>>

Smaller(a, b) == IF a < b THEN a ELSE b

\* Buffer scan, filled with length bytes, goes to the decoder with OMX_EmptyThisBuffer.
HandOver(length, chunk) ==
  /\ pc = "fill"
  /\ nFilledLen' = [nFilledLen EXCEPT ![scan] = length]
  /\ fed' = Append(fed, chunk)
  /\ with_decoder' = Append(with_decoder, scan)
  /\ UNCHANGED <<scan, asleep, current, buf_in_notempty, buf_in_mutex, callback>>

\* copy_length bytes of the packet, its time stamp and the flags.
Fill(copy_length, endofframe) ==
  /\ current # EOS
  /\ HandOver(copy_length,
       [packet |-> current, length |-> copy_length,
        nTimeStamp |-> pts_to_omx(ToUnsigned(Packets[current].PTS)),
        nFlags |-> {IF first_packet THEN "STARTTIME" ELSE "TIME_UNKNOWN"}
                     \cup (IF Packets[current].key THEN {"SYNCFRAME"} ELSE {})
                     \cup (IF endofframe THEN {"ENDOFFRAME"} ELSE {})])
  /\ bytes_left' = bytes_left - copy_length
  /\ first_packet' = FALSE
  /\ pc' = "test_bytes"

\* Mutants: ENDOFFRAME is decided before bytes_left is reduced; the buffer's
\* capacity is ignored.
Mut_fill_early_eof == Fill(Smaller(bytes_left, AllocLen), bytes_left = 0)

Mut_fill_whole == Fill(bytes_left, TRUE)

\* At most a bufferful; ENDOFFRAME if nothing is left.
fill_buffer ==
  LET copy_length == Smaller(bytes_left, AllocLen)
  IN  Fill(copy_length, bytes_left - copy_length = 0)

\* After the loop: an empty buffer with the EOS flag and a time stamp of before.
fill_eos ==
  /\ current = EOS
  /\ HandOver(0, [packet |-> EOS, length |-> 0, nFlags |-> {"TIME_UNKNOWN", "EOS"}])
  /\ pc' = "done"
  /\ UNCHANGED <<bytes_left, first_packet>>

-----------------------------------------------------------------------------
(* The decoder and omx_empty_buffer_done *)

\* The decoder has consumed the oldest buffer and calls EmptyBufferDone.
decoder_empties ==
  /\ callback = "none"
  /\ with_decoder # <<>>
  /\ nFilledLen' = [nFilledLen EXCEPT ![Head(with_decoder)] = 0]
  /\ with_decoder' = Tail(with_decoder)
  /\ callback' = "test"
  /\ UNCHANGED <<thread, buf_in_notempty, buf_in_mutex, fed>>

\* The flag is read without the mutex.
empty_buffer_done_test ==
  /\ callback = "test"
  /\ callback' = IF buf_in_notempty = 0 THEN "set" ELSE "none"
  /\ UNCHANGED <<thread, shared, with_decoder, fed>>

SetNotEmpty(still_asleep) ==
  /\ callback = "set"
  /\ buf_in_mutex = "free"
  /\ buf_in_mutex' = decoder
  /\ buf_in_notempty' = 1
  /\ asleep' = still_asleep
  /\ callback' = "unlock"
  /\ UNCHANGED <<pc, scan, packet, nFilledLen, with_decoder, fed>>

\* Mutant: set, but nobody signalled.
Mut_empty_buffer_done_set == SetNotEmpty(asleep)

\* Under the mutex it is set and the waiter signalled.
empty_buffer_done_set == SetNotEmpty(FALSE)

empty_buffer_done_unlock ==
  /\ callback = "unlock"
  /\ buf_in_mutex' = "free"
  /\ callback' = "none"
  /\ UNCHANGED <<thread, nFilledLen, buf_in_notempty, with_decoder, fed>>

DecodeStep ==
  \/ next_packet
  \/ test_bytes
  \/ omx_get_free_buffer_count
  \/ get_buffer_lock
  \/ get_buffer_scan
  \/ get_buffer_none
  \/ get_buffer_wait
  \/ get_buffer_wake
  \/ get_buffer_unlock
  \/ fill_buffer
  \/ fill_eos

DecoderStep ==
  \/ decoder_empties
  \/ empty_buffer_done_test
  \/ empty_buffer_done_set
  \/ empty_buffer_done_unlock

Next == DecodeStep \/ DecoderStep \/ SpuriousWakeup

Spec == Init /\ [][Next]_vars

\* Both threads run; and the callback gets the mutex if it is released again and
\* again, which only spurious wakeups can bring about.
FairSpec ==
  /\ Spec
  /\ WF_vars(DecodeStep)
  /\ WF_vars(DecoderStep)
  /\ SF_vars(empty_buffer_done_set)

-----------------------------------------------------------------------------
(* Properties *)

TypeOK ==
  /\ pc \in {"next_packet", "test_bytes", "count", "lock", "scan", "none", "wait",
             "unlock", "fill", "done"}
  /\ scan \in 0..NBuffers
  /\ asleep \in BOOLEAN
  /\ current \in 0..EOS
  /\ bytes_left \in Nat
  /\ first_packet \in BOOLEAN
  /\ nFilledLen \in [Buffers -> 0..AllocLen]
  /\ buf_in_notempty \in {0, 1}
  /\ buf_in_mutex \in {"free", "decode_thread", decoder}
  /\ with_decoder \in Seq(Buffers)
  /\ callback \in {"none", "test", "set", "unlock"}

\* A buffer that omx_get_next_input_buffer chooses is not with the decoder: the
\* unlocked read of nFilledLen never makes the thread overwrite data in flight.
ChosenIsNotInFlight ==
  pc \in {"unlock", "fill"} =>
    \A i \in 1..Len(with_decoder) : with_decoder[i] # scan

\* Bytes of packet p handed over so far.
BytesOf(p) ==
  LET sum[n \in 0..Len(fed)] ==
        IF n = 0 THEN 0
        ELSE sum[n - 1] + (IF fed[n].packet = p THEN fed[n].length ELSE 0)
  IN  sum[Len(fed)]

\* Cutting is lossless: a packet that has been left behind was handed over byte for
\* byte and with a time stamp from which omx_to_pts gives back its PTS, a negative one
\* too; ENDOFFRAME marks its last chunk and no other, STARTTIME the first buffer of the
\* stream, EOS the last.
CutIsLossless ==
  /\ \A p \in 1..Len(Packets) :
       p < current => BytesOf(p) = Packets[p].length
  /\ \A k \in 1..Len(fed) :
       LET chunk == fed[k]
           last  == k = Len(fed) \/ fed[k + 1].packet # chunk.packet
       IN  /\ "STARTTIME" \in chunk.nFlags => k = 1
           /\ "EOS" \in chunk.nFlags <=> chunk.packet = EOS
           /\ chunk.packet = EOS => k = Len(fed)
           /\ chunk.packet # EOS =>
                /\ ToSigned(omx_to_pts(chunk.nTimeStamp)) = Packets[chunk.packet].PTS
                /\ k = 1 => "STARTTIME" \in chunk.nFlags
                /\ "ENDOFFRAME" \in chunk.nFlags <=>
                     last /\ BytesOf(chunk.packet) = Packets[chunk.packet].length

\* The decoder holds nothing and is in no callback: nobody is left to signal.
NothingInFlight == with_decoder = <<>> /\ callback = "none"

\* The thread hands over everything and EOS, or it sleeps with buf_in_notempty
\* cleared after the last EmptyBufferDone had read it: no other wait is for ever.
DoneOrFlagClearedLate ==
  <>(pc = "done" \/ (asleep /\ buf_in_notempty = 0 /\ NothingInFlight))

\* Neither thread can go on: decode_thread has ended, waits for buf_in_mutex or
\* sleeps; the decoder has nothing to empty or waits for buf_in_mutex.
DecodeBlocked ==
  \/ pc = "done"
  \/ pc \in {"count", "lock"} /\ buf_in_mutex # "free"
  \/ pc = "wait" /\ (asleep \/ buf_in_mutex = decoder)

DecoderBlocked ==
  \/ NothingInFlight
  \/ callback = "set" /\ buf_in_mutex # "free"

\* The two threads never block each other on buf_in_mutex, and no sleep is for ever
\* while the decoder has a buffer or is in its callback: they come to a stop only with
\* everything handed over and given back, or in the sleep that begins after the last
\* EmptyBufferDone has read the flag, every buffer being empty by then.
StuckForAReason ==
  DecodeBlocked /\ DecoderBlocked =>
    /\ NothingInFlight
    /\ \/ pc = "done"
       \/ asleep /\ buf_in_notempty = 0 /\ \A b \in Buffers : nFilledLen[b] = 0

\* omx.c: omx_get_next_input_buffer "Returns an empty buffer from the component,
\* blocks if there is none".  It never sleeps with every buffer empty and nobody
\* left to wake it.
BlocksOnlyIfNone == ~(asleep /\ NothingInFlight)
=============================================================================
