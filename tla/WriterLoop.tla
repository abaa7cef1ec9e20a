----------------------------- MODULE WriterLoop -----------------------------
(***************************************************************************)
(* The far end of the pipeline: writer_thread's main loop (mux.c), the     *)
(* output buffers of the video_encode component and the callbacks that     *)
(* return them (omx.c), the two queues the writer drains, and what feeds   *)
(* them: demux_thread, and decode_thread with the hardware up to the       *)
(* encoder, which may go to sleep for ever (Transcoder shows how).         *)
(*                                                                         *)
(* The list of output buffers and buf_out_notempty are only touched under  *)
(* buf_out_mutex, so each critical section is one action.  The queues are  *)
(* atomic FIFOs, which is what PacketQueue is shown to implement.  The     *)
(* encoder itself is hardware: it fills the buffers it was given in order, *)
(* calls FillBufferDone for each, and announces the end of the stream with *)
(* an event; its callbacks run one at a time on its own thread.  It has    *)
(* nothing to fill a buffer with when no frame reaches it.                 *)
(***************************************************************************)
EXTENDS Naturals, Sequences

CONSTANTS NBuffers,  \* nBufferCountActual of encoder port 201
          Frames,    \* video packets in the input, at most: one frame each
          Audio,     \* audio packets in the input, at most
          MaxQueue,  \* the queue length above which extract_streams waits (100)
          NULL       \* no buffer

ASSUME SizesAssumption ==
  /\ NBuffers \in Nat \ {0}
  /\ Frames \in Nat \ {0}
  /\ Audio \in Nat
  /\ MaxQueue \in Nat
  /\ NULL \notin 1..NBuffers

Buffers == 1..NBuffers

VARIABLES
  wpc,              \* writer_thread: where it is in its loop
  held,             \* writer_thread: the buffer omx_get_next_output_buffer gave it
  asleep,           \* writer_thread sleeps on buf_out_notempty_cv
  out_buffers,      \* component->out_buffers, from the head of the list
  buf_out_notempty, \* component->buf_out_notempty
  filling,          \* buffers the encoder was given, in order
  returning,        \* the buffer omx_encoder_fill_buffer_done still has to link
  produced,         \* number of encoded packets emitted so far
  encoded_video_queue,
  written,          \* encoded packets taken by write_video_frame, in order
  eos,              \* component->eos
  dpc,              \* demux_thread: where it is in extract_streams
  videos,           \* video packets added to input_video_queue
  demuxed,          \* audio packets added to processed_audio_queue
  processed_audio_queue,
  audio_written,    \* audio packets taken by write_audio_frame, in order
  fed,              \* frames that have reached the encoder
  feeding           \* decode_thread: "open", "eos" (sent) or "stopped"

writer  == <<wpc, held, asleep>>
buffers == <<out_buffers, buf_out_notempty>>
encoder == <<filling, returning, produced>>
output  == <<encoded_video_queue, written, eos>>
demux   == <<dpc, videos, demuxed>>
audio   == <<processed_audio_queue, audio_written>>
supply  == <<fed, feeding>>
input   == <<demux, audio, supply>>
vars    == <<writer, buffers, encoder, output, input>>

\* processed_audio_queue->queue_finished, set after input_video_queue's.
queue_finished == dpc = "done"

\* The state in which the loop is entered: omx_alloc_buffers has linked every
\* buffer, and nothing has been encoded yet.
Init ==
  /\ wpc = "test_eos" /\ held = NULL /\ asleep = FALSE
  /\ out_buffers = [i \in Buffers |-> i] /\ buf_out_notempty = 1
  /\ filling = <<>> /\ returning = NULL /\ produced = 0
  /\ encoded_video_queue = <<>> /\ written = <<>> /\ eos = FALSE
  /\ dpc = "reading" /\ videos = 0 /\ demuxed = 0
  /\ processed_audio_queue = <<>> /\ audio_written = <<>>
  /\ fed = 0 /\ feeding = "open"

-----------------------------------------------------------------------------
(* writer_thread *)

\* The loop condition reads eos first and queue_finished second.
test_eos ==
  /\ wpc = "test_eos"
  /\ wpc' = IF eos THEN "test_finished" ELSE "get_buffer"
  /\ UNCHANGED <<held, asleep, buffers, encoder, output, input>>

test_finished ==
  /\ wpc = "test_finished"
  /\ wpc' = IF queue_finished THEN "exited" ELSE "get_buffer"
  /\ UNCHANGED <<held, asleep, buffers, encoder, output, input>>

\* omx_get_next_output_buffer: buf_out_notempty is 0, pthread_cond_wait.
get_next_output_buffer_sleep ==
  /\ wpc = "get_buffer" /\ ~asleep
  /\ buf_out_notempty = 0
  /\ asleep' = TRUE
  /\ UNCHANGED <<wpc, held, buffers, encoder, output, input>>

\* Mutant: the buffer is returned but stays in the list.
Mut_take_no_unlink ==
  /\ wpc = "get_buffer" /\ ~asleep
  /\ buf_out_notempty = 1
  /\ out_buffers # <<>>
  /\ held' = out_buffers[Len(out_buffers)]
  /\ wpc' = "fill"
  /\ UNCHANGED <<asleep, buffers, encoder, output, input>>

\* The last buffer of the list is unlinked and returned; buf_out_notempty keeps
\* its value even if the list is now empty.
get_next_output_buffer_take ==
  /\ wpc = "get_buffer" /\ ~asleep
  /\ buf_out_notempty = 1
  /\ out_buffers # <<>>
  /\ held' = out_buffers[Len(out_buffers)]
  /\ out_buffers' = SubSeq(out_buffers, 1, Len(out_buffers) - 1)
  /\ wpc' = "fill"
  /\ UNCHANGED <<asleep, buf_out_notempty, encoder, output, input>>

\* The list turns out to be empty: clear buf_out_notempty and try again.
get_next_output_buffer_empty ==
  /\ wpc = "get_buffer" /\ ~asleep
  /\ buf_out_notempty = 1
  /\ out_buffers = <<>>
  /\ buf_out_notempty' = 0
  /\ UNCHANGED <<writer, out_buffers, encoder, output, input>>

\* OMX_FillThisBuffer hands the buffer to the encoder.
OMX_FillThisBuffer ==
  /\ wpc = "fill"
  /\ filling' = Append(filling, held)
  /\ held' = NULL
  /\ wpc' = "audio"
  /\ UNCHANGED <<asleep, buffers, returning, produced, output, input>>

\* At most one audio packet per turn, none if the queue is empty.
write_audio_frame ==
  /\ wpc = "audio"
  /\ wpc' = "video"
  /\ IF processed_audio_queue = <<>>
     THEN UNCHANGED <<processed_audio_queue, audio_written>>
     ELSE /\ processed_audio_queue' = Tail(processed_audio_queue)
          /\ audio_written' = Append(audio_written, Head(processed_audio_queue))
  /\ UNCHANGED <<held, asleep, buffers, encoder, output, demux, supply>>

\* Mutant: the turn ends without polling the queue while eos is not set.
Mut_write_video_at_eos ==
  /\ wpc = "video"
  /\ wpc' = "test_eos"
  /\ IF encoded_video_queue = <<>> \/ ~eos
     THEN UNCHANGED <<encoded_video_queue, written>>
     ELSE /\ encoded_video_queue' = Tail(encoded_video_queue)
          /\ written' = Append(written, Head(encoded_video_queue))
  /\ UNCHANGED <<held, asleep, buffers, encoder, eos, input>>

\* At most one encoded packet per turn, none if the queue is empty.
write_video_frame ==
  /\ wpc = "video"
  /\ wpc' = "test_eos"
  /\ IF encoded_video_queue = <<>>
     THEN UNCHANGED <<encoded_video_queue, written>>
     ELSE /\ encoded_video_queue' = Tail(encoded_video_queue)
          /\ written' = Append(written, Head(encoded_video_queue))
  /\ UNCHANGED <<held, asleep, buffers, encoder, eos, input>>

\* pthread_cond_wait may return although nobody signalled.
SpuriousWakeup ==
  /\ asleep
  /\ asleep' = FALSE
  /\ UNCHANGED <<wpc, held, buffers, encoder, output, input>>

-----------------------------------------------------------------------------
(* The encoder and its callbacks *)

\* The encoder fills the oldest buffer it was given and calls FillBufferDone,
\* which first queues a copy of the data.  It needs a frame that has reached it.
omx_encoder_fill_buffer_done_queue ==
  /\ returning = NULL
  /\ filling # <<>>
  /\ produced < fed
  /\ produced' = produced + 1
  /\ encoded_video_queue' = Append(encoded_video_queue, produced + 1)
  /\ returning' = Head(filling)
  /\ filling' = Tail(filling)
  /\ UNCHANGED <<writer, buffers, written, eos, input>>

\* Mutant: signal without setting buf_out_notempty.
Mut_return_no_flag ==
  /\ returning # NULL
  /\ out_buffers' = Append(out_buffers, returning)
  /\ returning' = NULL
  /\ UNCHANGED <<wpc, held, asleep, buf_out_notempty, filling, produced, output,
                 input>>

\* ... and then links the buffer at the end of the list, under buf_out_mutex.
omx_encoder_fill_buffer_done_return ==
  /\ returning # NULL
  /\ out_buffers' = Append(out_buffers, returning)
  /\ returning' = NULL
  /\ IF buf_out_notempty = 0
     THEN buf_out_notempty' = 1 /\ asleep' = FALSE
     ELSE UNCHANGED <<buf_out_notempty, asleep>>
  /\ UNCHANGED <<wpc, held, filling, produced, output, input>>

\* omx_event_handler, OMX_EventBufferFlag: sets eos and signals eos_cv, on which
\* nobody waits.  The event may come just before or after the FillBufferDone of
\* the packet that ends the stream.
omx_event_handler_eos ==
  /\ ~eos
  /\ returning = NULL
  /\ feeding = "eos"
  /\ \/ produced = fed
     \/ produced + 1 = fed /\ filling # <<>>
  /\ eos' = TRUE
  /\ UNCHANGED <<writer, buffers, encoder, encoded_video_queue, written, input>>

-----------------------------------------------------------------------------
(* demux_thread: extract_streams *)

DemuxMoves(from, to) ==
  /\ dpc = from
  /\ dpc' = to
  /\ UNCHANGED <<writer, buffers, encoder, output, videos, demuxed, audio, supply>>

\* av_read_frame returns a packet of one of the two streams ...
av_read_frame ==
  \/ videos < Frames /\ DemuxMoves("reading", "video")
  \/ demuxed < Audio /\ DemuxMoves("reading", "audio")

\* ... for which the demuxer waits while queue_count is above the limit ...
wait_video == ~(videos - fed > MaxQueue) /\ DemuxMoves("video", "add_video")

wait_audio ==
  ~(Len(processed_audio_queue) > MaxQueue) /\ DemuxMoves("audio", "add_audio")

\* ... before it adds the packet to its queue.
add_video ==
  /\ dpc = "add_video"
  /\ videos' = videos + 1
  /\ dpc' = "reading"
  /\ UNCHANGED <<writer, buffers, encoder, output, demuxed, audio, supply>>

add_audio ==
  /\ dpc = "add_audio"
  /\ demuxed' = demuxed + 1
  /\ processed_audio_queue' = Append(processed_audio_queue, demuxed + 1)
  /\ dpc' = "reading"
  /\ UNCHANGED <<writer, buffers, encoder, output, videos, audio_written, supply>>

\* At end of file, or an error, input_video_queue is finished first ...
video_finished == DemuxMoves("reading", "video_finished")

\* ... and processed_audio_queue second.
audio_finished == DemuxMoves("video_finished", "done")

-----------------------------------------------------------------------------
(* decode_thread and the components in front of the encoder *)

\* A packet is taken off input_video_queue and goes through to the encoder.
decode_thread_feeds ==
  /\ feeding = "open"
  /\ fed < videos
  /\ fed' = fed + 1
  /\ UNCHANGED <<writer, buffers, encoder, output, demux, audio, feeding>>

DecodeEnds(how) ==
  /\ feeding = "open"
  /\ feeding' = how
  /\ UNCHANGED <<writer, buffers, encoder, output, demux, audio, fed>>

\* EOS follows the packets once the queue is finished; those added between the two
\* reads of the loop condition are left behind.
decode_thread_sends_eos == dpc \in {"video_finished", "done"} /\ DecodeEnds("eos")

\* It may fall asleep for ever: on the queue that was finished too late, or for an
\* empty input buffer.
decode_thread_stops == DecodeEnds("stopped")

-----------------------------------------------------------------------------
WriterStep ==
  \/ test_eos
  \/ test_finished
  \/ get_next_output_buffer_sleep
  \/ get_next_output_buffer_take
  \/ get_next_output_buffer_empty
  \/ OMX_FillThisBuffer
  \/ write_audio_frame
  \/ write_video_frame

EncoderStep ==
  \/ omx_encoder_fill_buffer_done_queue
  \/ omx_encoder_fill_buffer_done_return

DemuxStep ==
  \/ av_read_frame
  \/ wait_video
  \/ add_video
  \/ wait_audio
  \/ add_audio
  \/ video_finished
  \/ audio_finished

DecodeStep ==
  \/ decode_thread_feeds
  \/ decode_thread_sends_eos
  \/ decode_thread_stops

Next ==
  \/ WriterStep
  \/ SpuriousWakeup
  \/ EncoderStep
  \/ omx_event_handler_eos
  \/ DemuxStep
  \/ DecodeStep

Spec == Init /\ [][Next]_vars

\* Threads are scheduled, the encoder works off what it was given and announces
\* the end of the stream if it is sent.  A decode_thread that has stopped does nothing.
FairSpec ==
  /\ Spec
  /\ WF_vars(WriterStep)
  /\ WF_vars(EncoderStep)
  /\ WF_vars(omx_event_handler_eos)
  /\ WF_vars(DemuxStep)
  /\ WF_vars(DecodeStep)

-----------------------------------------------------------------------------
(* Properties *)

In(b, s) == \E i \in 1..Len(s) : s[i] = b

One(b) == IF b = NULL THEN 0 ELSE 1

\* The writer is between OMX_FillThisBuffer and the poll of encoded_video_queue.
AboutToPoll == IF wpc \in {"audio", "video"} THEN 1 ELSE 0

TypeOK ==
  /\ wpc \in {"test_eos", "test_finished", "get_buffer", "fill", "audio",
             "video", "exited"}
  /\ held \in Buffers \cup {NULL}
  /\ asleep \in BOOLEAN
  /\ out_buffers \in Seq(Buffers)
  /\ buf_out_notempty \in {0, 1}
  /\ filling \in Seq(Buffers)
  /\ returning \in Buffers \cup {NULL}
  /\ produced \in 0..Frames
  /\ encoded_video_queue \in Seq(1..Frames)
  /\ written \in Seq(1..Frames)
  /\ eos \in BOOLEAN
  /\ dpc \in {"reading", "video", "add_video", "audio", "add_audio", "video_finished",
             "done"}
  /\ videos \in 0..Frames /\ demuxed \in 0..Audio
  /\ processed_audio_queue \in Seq(1..Audio)
  /\ audio_written \in Seq(1..Audio)
  /\ fed \in 0..Frames
  /\ feeding \in {"open", "eos", "stopped"}

\* Every output buffer is in exactly one place: the list, the writer's hand, the
\* encoder, or the callback that is about to link it (pigeonhole: there are
\* NBuffers occupied places and each buffer occupies one).  omx_get_next_output_
\* buffer and omx_encoder_fill_buffer_done neither lose nor duplicate a header.
BuffersAccounted ==
  /\ Len(out_buffers) + Len(filling) + One(held) + One(returning) = NBuffers
  /\ \A b \in Buffers :
       \/ held = b
       \/ returning = b
       \/ In(b, out_buffers)
       \/ In(b, filling)

\* The writer is never asleep on buf_out_notempty_cv while a buffer is in the
\* list: the flag is only 0 while the list is empty, so the callback that makes
\* the list non-empty also signals.
NoLostBufferWakeup ==
  /\ asleep => buf_out_notempty = 0
  /\ buf_out_notempty = 0 => out_buffers = <<>>

\* encoded_video_queue has no limit of its own, but a packet only gets in through
\* a buffer the writer handed out, and the writer polls the queue once per
\* buffer: at most one packet more than there are buffers waits.
BacklogBound == Len(encoded_video_queue) <= NBuffers + 1

\* Whenever the writer finds no free buffer, and none is on its way back, every
\* encoded packet has been taken off the queue: the writer only ever blocks for
\* lack of encoder output, never with output left to write.
BlockedOnlyWhenDrained ==
  wpc = "get_buffer" /\ out_buffers = <<>> /\ returning = NULL
    => encoded_video_queue = <<>>

\* Every packet the encoder emits is eventually taken by write_video_frame, unless
\* the writer has left its loop.
EncodedIsWritten ==
  \A n \in 1..Frames : produced >= n ~> Len(written) >= n \/ wpc = "exited"

\* The demuxer waits for room in the audio queue, which only the writer drains.
AudioFull == dpc = "audio" /\ Len(processed_audio_queue) > MaxQueue

\* In the end the writer has left its loop, or it stays in omx_get_next_output_buffer for
\* good, all frames encoded and all packets written, for one of three reasons: EOS and
\* the end of the file came after it had tested for them, decode_thread has stopped, or
\* the demuxer waits for room in the audio queue.  There is no other way for main's
\* pthread_join of the writer to block.
ExitsOrStarves ==
  <>[](\/ wpc = "exited"
       \/ /\ wpc = "get_buffer" /\ out_buffers = <<>> /\ returning = NULL
          /\ produced = fed /\ encoded_video_queue = <<>>
          /\ \/ eos /\ queue_finished
             \/ feeding = "stopped"
             \/ AudioFull)

\* The encoder has no callback to make, decode_thread nothing to feed or to end, and the
\* demuxer no step to take.
EncoderIdle ==
  /\ returning = NULL
  /\ filling = <<>> \/ produced = fed
  /\ \/ eos
     \/ feeding # "eos"
     \/ produced + 1 < fed
     \/ produced + 1 = fed /\ filling = <<>>

DecodeIdle ==
  feeding = "open" => fed = videos /\ dpc \notin {"video_finished", "done"}

DemuxIdle ==
  \/ dpc = "done"
  \/ dpc = "video" /\ videos - fed > MaxQueue
  \/ AudioFull

\* A writer that sleeps while nothing that could lead to a signal has a step left has
\* written every packet, the encoder has encoded every frame it got, and one of the three
\* reasons holds.
StarvesForAReason ==
  asleep /\ EncoderIdle /\ DecodeIdle /\ DemuxIdle =>
    /\ Len(written) = produced /\ produced = fed
    /\ \/ eos /\ queue_finished
       \/ feeding = "stopped"
       \/ feeding = "open" /\ fed = videos /\ AudioFull

\* How far the writer is from going to sleep without another buffer.
WriterTurn ==
  IF wpc = "get_buffer"
  THEN IF asleep THEN 0 ELSE 1 + buf_out_notempty
  ELSE [exited |-> 0, test_finished |-> 3, test_eos |-> 4,
        video |-> 5, audio |-> 6, fill |-> 7][wpc]

\* What the threads have left to do: each packet still to come brings a buffer
\* back, and each buffer back in the list is one more turn of the loop.
EncoderWork == 12 * (Frames - produced) + (IF eos THEN 0 ELSE 1)
BufferWork == 11 * One(returning) + 8 * Len(out_buffers)
DemuxTurn ==
  [reading |-> 3, video |-> 2, audio |-> 2, add_video |-> 1, add_audio |-> 1,
   video_finished |-> 1, done |-> 0]
InputWork ==
  3 * ((Frames - videos) + (Audio - demuxed)) + DemuxTurn[dpc]
    + (Frames - fed) + (IF feeding = "open" THEN 1 ELSE 0)
Work == WriterTurn + EncoderWork + BufferWork + InputWork

UsesUpWork ==
  /\ Work \in Nat
  /\ \/ Work' < Work
     \/ SpuriousWakeup /\ Work' = Work + 1

\* Every step but a spurious wake-up uses up work that nothing restores: the
\* retry of omx_get_next_output_buffer on an empty list and the polls of empty
\* queues cannot go round for ever, so the loop ends in an exit or in a sleep.
WorkRunsOut == [][UsesUpWork]_vars
=============================================================================
