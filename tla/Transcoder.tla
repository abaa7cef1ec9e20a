----------------------------- MODULE Transcoder -----------------------------
(***************************************************************************)
(* The three threads main starts, composed: demux_thread (demux.c),        *)
(* decode_thread (encode.c) and writer_thread (mux.c), the queues between  *)
(* them and the OpenMAX pipeline decoder -> deinterlacer -> encoder.       *)
(*                                                                         *)
(* A packet queue is a FIFO whose operations are atomic (PacketQueue is    *)
(* shown to be one); a call that would sleep is a step that is not         *)
(* enabled.  queue_count, queue_finished, is_running and buf_in_notempty   *)
(* are also read outside any critical section, so every such read is a     *)
(* step of its own.  Packets are numbered as they are read; each fits into *)
(* one buffer of the decoder, and the wait for that buffer keeps what      *)
(* DecoderInput shows of it: the flag and its unlocked test.  The hardware *)
(* is modelled from how the code uses it: it needs room downstream, and    *)
(* announces each port's settings once.                                    *)
(***************************************************************************)
EXTENDS Naturals, Sequences

CONSTANTS
  Videos, Audios,  \* packets in the input file, at most, in any interleaving
  MaxQueue,        \* the length above which extract_streams waits (100)
  NInBuffers,      \* input buffers of the decoder
  PipeRoom,        \* frames the tunnelled components hold between them
  NOutBuffers      \* output buffers of the encoder

ASSUME SizesAssumption ==
  /\ Videos \in Nat /\ Audios \in Nat /\ MaxQueue \in Nat
  /\ NInBuffers \in Nat \ {0} /\ PipeRoom \in Nat \ {0}
  /\ NOutBuffers \in Nat \ {0}

VARIABLES
  demux_pc, videos_read, audios_read,
  input_video_queue, video_finished,     \* the queue and its queue_finished
  processed_audio_queue, audio_finished,
  decode_pc,
  current_packet,       \* the packet decode_thread has taken, as a sequence
  fed,                  \* packets given to the decoder, in order
  port_settings_changed,\* component -> flag set by omx_event_handler
  announced,            \* components whose event has been delivered
  configured,           \* components decode_thread has configured
  is_running,           \* video_encode.is_running
  in_decoder, in_pipe,  \* filled input buffers, frames further down
  buf_in_notempty,      \* video_decode.buf_in_notempty
  callback,             \* omx_empty_buffer_done: "none", "test" or "set"
  eos_sent, eos,        \* the EOS buffer was fed, video_encode.eos
  writer_pc,
  out_free, out_given,  \* encoder buffers in the list, in the encoder
  encoded_video_queue, emitted, written,
  main_pc

demux    == <<demux_pc, videos_read, audios_read>>
queues   == <<input_video_queue, video_finished, processed_audio_queue,
              audio_finished>>
decode   == <<decode_pc, current_packet, fed>>
ports    == <<port_settings_changed, announced, configured>>
flag     == <<buf_in_notempty, callback>>
pipe     == <<in_decoder, in_pipe, flag, eos_sent, eos>>
outputs  == <<out_free, out_given, encoded_video_queue, emitted>>
writer   == <<writer_pc, written>>
notDemux == <<decode, ports, is_running, pipe, outputs, writer, main_pc>>
vars     == <<demux, queues, notDemux>>

Components == {"video_decode", "image_fx", "video_encode"}

Init ==
  /\ demux_pc = "read" /\ videos_read = 0 /\ audios_read = 0
  /\ input_video_queue = <<>> /\ video_finished = FALSE
  /\ processed_audio_queue = <<>> /\ audio_finished = FALSE
  /\ decode_pc = "test_count" /\ current_packet = <<>> /\ fed = <<>>
  /\ port_settings_changed = [c \in Components |-> FALSE]
  /\ announced = {} /\ configured = {"video_decode"}
  /\ is_running = FALSE
  /\ in_decoder = 0 /\ in_pipe = 0 /\ eos_sent = FALSE /\ eos = FALSE
  /\ buf_in_notempty = 1 /\ callback = "none"
  /\ writer_pc = "test_running" /\ written = <<>>
  /\ out_free = 0 /\ out_given = 0
  /\ encoded_video_queue = <<>> /\ emitted = 0
  /\ main_pc = "join"

-----------------------------------------------------------------------------
(* demux_thread: extract_streams *)

\* av_read_frame returns a packet of one of the two streams.
av_read_frame ==
  /\ demux_pc = "read"
  /\ \/ /\ videos_read < Videos
        /\ videos_read' = videos_read + 1
        /\ demux_pc' = "video"
        /\ UNCHANGED audios_read
     \/ /\ audios_read < Audios
        /\ audios_read' = audios_read + 1
        /\ demux_pc' = "audio"
        /\ UNCHANGED videos_read
  /\ UNCHANGED <<queues, notDemux>>

\* A step that only decides where to go on.
DemuxMoves(from, to) ==
  /\ demux_pc = from
  /\ demux_pc' = to
  /\ UNCHANGED <<videos_read, audios_read, queues, notDemux>>

\* Mutant: the packet is queued without waiting for room.
Mut_wait_video == DemuxMoves("video", "add_video")

\* queue_count is read without the mutex; while it is above the limit the thread
\* sleeps and reads it again.
wait_video ==
  ~(Len(input_video_queue) > MaxQueue) /\ DemuxMoves("video", "add_video")

\* packet_queue_add_item, some time after the test.
add_video ==
  /\ demux_pc = "add_video"
  /\ input_video_queue' = Append(input_video_queue, videos_read)
  /\ demux_pc' = "read"
  /\ UNCHANGED <<videos_read, audios_read, video_finished, processed_audio_queue,
                 audio_finished, notDemux>>

wait_audio ==
  ~(Len(processed_audio_queue) > MaxQueue) /\ DemuxMoves("audio", "add_audio")

add_audio ==
  /\ demux_pc = "add_audio"
  /\ processed_audio_queue' = Append(processed_audio_queue, audios_read)
  /\ demux_pc' = "read"
  /\ UNCHANGED <<videos_read, audios_read, input_video_queue, video_finished,
                 audio_finished, notDemux>>

FinishVideo(mark) ==
  /\ demux_pc = "read"
  /\ video_finished' = mark
  /\ demux_pc' = "finish_audio"
  /\ UNCHANGED <<videos_read, audios_read, input_video_queue, processed_audio_queue,
                 audio_finished, notDemux>>

\* Mutant: the end of the file leaves the video queue open.
Mut_finish_video == FinishVideo(FALSE)

\* End of file, or an error of av_read_frame, after any number of packets: the queues
\* are marked finished, one after the other.  Neither assignment signals anybody.
finish_video == FinishVideo(TRUE)

finish_audio ==
  /\ demux_pc = "finish_audio"
  /\ audio_finished' = TRUE
  /\ demux_pc' = "exited"
  /\ UNCHANGED <<videos_read, audios_read, input_video_queue, video_finished,
                 processed_audio_queue, notDemux>>

-----------------------------------------------------------------------------
(* decode_thread *)

\* A step that only decides where to go on.
DecodeMoves(from, to) ==
  /\ decode_pc = from
  /\ decode_pc' = to
  /\ UNCHANGED <<demux, queues, current_packet, fed, ports, is_running, pipe, outputs,
                 writer, main_pc>>

\* The loop condition reads queue_count first ...
test_count ==
  DecodeMoves("test_count", IF input_video_queue # <<>> THEN "get" ELSE "test_finished")

\* Mutant: the two tests are joined by && instead of ||.
Mut_test_finished == DecodeMoves("test_finished", "get_buffer")

\* ... and queue_finished only if the queue was empty.  After the loop a last buffer
\* is asked for, with no packet in hand.
test_finished ==
  DecodeMoves("test_finished", IF video_finished THEN "get_buffer" ELSE "get")

\* Mutant: the asynchronous read is called, and its NULL leads back to the test.
Mut_get_next_item ==
  /\ decode_pc = "get"
  /\ current_packet' = IF input_video_queue = <<>> THEN <<>> ELSE <<Head(input_video_queue)>>
  /\ input_video_queue' = IF input_video_queue = <<>> THEN <<>> ELSE Tail(input_video_queue)
  /\ decode_pc' = IF input_video_queue = <<>> THEN "test_count" ELSE "get_buffer"
  /\ UNCHANGED <<demux, video_finished, processed_audio_queue, audio_finished,
                 fed, ports, is_running, pipe, outputs, writer, main_pc>>

\* packet_queue_get_next_item: sleeps while the queue is empty.
get_next_item ==
  /\ decode_pc = "get"
  /\ input_video_queue # <<>>
  /\ current_packet' = <<Head(input_video_queue)>>
  /\ input_video_queue' = Tail(input_video_queue)
  /\ decode_pc' = "get_buffer"
  /\ UNCHANGED <<demux, video_finished, processed_audio_queue, audio_finished,
                 fed, ports, is_running, pipe, outputs, writer, main_pc>>

\* omx_get_next_input_buffer scans the list, under buf_in_mutex: if every buffer is
\* filled when the scan begins it may end without one.  (The decoder only empties
\* buffers meanwhile; a buffer it empties in front of the scan is found.)
get_next_input_buffer ==
  DecodeMoves("get_buffer", IF in_decoder = NInBuffers THEN "none"
                            ELSE IF current_packet = <<>> THEN "eos_buffer"
                            ELSE "deinterlacer")

\* No buffer was empty: the flag is cleared and the mutex released by the wait.
get_buffer_none ==
  /\ decode_pc = "none"
  /\ buf_in_notempty' = 0
  /\ decode_pc' = "input_wait"
  /\ UNCHANGED <<demux, queues, current_packet, fed, ports, is_running, in_decoder,
                 in_pipe, callback, eos_sent, eos, outputs, writer, main_pc>>

\* The wait ends only with the flag set, and the list is scanned again.
get_buffer_wait == buf_in_notempty = 1 /\ DecodeMoves("input_wait", "get_buffer")

\* The decoder has announced its output: connect and start the deinterlacer.
configure_deinterlacer ==
  /\ decode_pc = "deinterlacer"
  /\ decode_pc' = "encoder"
  /\ IF port_settings_changed["video_decode"]
     THEN /\ port_settings_changed' =
               [port_settings_changed EXCEPT !["video_decode"] = FALSE]
          /\ configured' = configured \cup {"image_fx"}
     ELSE UNCHANGED <<port_settings_changed, configured>>
  /\ UNCHANGED <<demux, queues, current_packet, fed, announced, is_running, pipe,
                 outputs, writer, main_pc>>

\* The deinterlacer has announced its output: set up the encoder and allocate
\* its output buffers.
configure_encoder ==
  /\ decode_pc = "encoder"
  /\ decode_pc' = "running"
  /\ IF port_settings_changed["image_fx"]
     THEN /\ port_settings_changed' =
               [port_settings_changed EXCEPT !["image_fx"] = FALSE]
          /\ configured' = configured \cup {"video_encode"}
          /\ out_free' = NOutBuffers
     ELSE UNCHANGED <<port_settings_changed, configured, out_free>>
  /\ UNCHANGED <<demux, queues, current_packet, fed, announced, is_running, pipe,
                 out_given, encoded_video_queue, emitted, writer, main_pc>>

StartWriter(announced_now, to, packet) ==
  /\ decode_pc = "running"
  /\ IF announced_now
     THEN /\ port_settings_changed' =
               [port_settings_changed EXCEPT !["video_encode"] = FALSE]
          /\ is_running' = TRUE
          /\ writer_pc' = IF writer_pc = "waiting" THEN "test_running" ELSE writer_pc
          /\ decode_pc' = to /\ current_packet' = packet
     ELSE /\ decode_pc' = "empty_buffer"
          /\ UNCHANGED <<port_settings_changed, is_running, writer_pc, current_packet>>
  /\ UNCHANGED <<demux, queues, fed, announced, configured, pipe, outputs, written,
                 main_pc>>

\* Mutants: the writer is started without waiting for the encoder; the loop goes on
\* with the next packet once the writer is started.
Mut_start_writer == StartWriter(TRUE, "empty_buffer", current_packet)

Mut_start_writer_continue ==
  StartWriter(port_settings_changed["video_encode"], "test_count", <<>>)

\* The encoder has announced its output: is_running is set and is_running_cv
\* signalled, without is_running_mutex.
start_writer ==
  StartWriter(port_settings_changed["video_encode"], "empty_buffer", current_packet)

\* Mutant: the packet is freed but the buffer never handed over.
Mut_EmptyThisBuffer ==
  /\ decode_pc = "empty_buffer"
  /\ current_packet' = <<>>
  /\ decode_pc' = "test_count"
  /\ UNCHANGED <<demux, queues, fed, ports, is_running, pipe, outputs, writer,
                 main_pc>>

\* OMX_EmptyThisBuffer, then packet_queue_free_packet.
OMX_EmptyThisBuffer ==
  /\ decode_pc = "empty_buffer"
  /\ fed' = fed \o current_packet
  /\ current_packet' = <<>>
  /\ in_decoder' = in_decoder + 1
  /\ decode_pc' = "test_count"
  /\ UNCHANGED <<demux, queues, ports, is_running, in_pipe, flag, eos_sent, eos,
                 outputs, writer, main_pc>>

\* After the loop: the buffer is sent empty with the EOS flag.  No port is looked at
\* any more.
send_eos ==
  /\ decode_pc = "eos_buffer"
  /\ eos_sent' = TRUE
  /\ decode_pc' = "exited"
  /\ UNCHANGED <<demux, queues, current_packet, fed, ports, is_running,
                 in_decoder, in_pipe, flag, eos, outputs, writer, main_pc>>

-----------------------------------------------------------------------------
(* The OpenMAX components *)

\* omx_event_handler, OMX_EventPortSettingsChanged: a component that has been
\* configured and has got its first frame announces its output port.
omx_event_handler_port(c) ==
  /\ c \notin announced
  /\ c \in configured
  /\ IF c = "video_decode" THEN fed # <<>> ELSE in_pipe > 0
  /\ announced' = announced \cup {c}
  /\ port_settings_changed' = [port_settings_changed EXCEPT ![c] = TRUE]
  /\ UNCHANGED <<demux, queues, decode, configured, is_running, pipe, outputs,
                 writer, main_pc>>

\* The decoder empties an input buffer if it can keep the frame, and calls
\* EmptyBufferDone: one call at a time.
decoder_consume ==
  /\ callback = "none"
  /\ in_decoder > 0
  /\ in_pipe < PipeRoom
  /\ in_decoder' = in_decoder - 1
  /\ in_pipe' = in_pipe + 1
  /\ callback' = "test"
  /\ UNCHANGED <<demux, queues, decode, ports, is_running, buf_in_notempty, eos_sent,
                 eos, outputs, writer, main_pc>>

Callback(from, to, notempty) ==
  /\ callback = from
  /\ callback' = to
  /\ buf_in_notempty' = notempty
  /\ UNCHANGED <<demux, queues, decode, ports, is_running, in_decoder, in_pipe,
                 eos_sent, eos, outputs, writer, main_pc>>

\* omx_empty_buffer_done reads the flag without the mutex ...
empty_buffer_done_test ==
  Callback("test", IF buf_in_notempty = 0 THEN "set" ELSE "none", buf_in_notempty)

\* ... and sets it under the mutex, which decode_thread holds from the scan to the
\* wait.
empty_buffer_done_set == decode_pc # "none" /\ Callback("set", "none", 1)

\* The encoder encodes a frame into a buffer it was given: omx_encoder_fill_
\* buffer_done queues the packet and returns the buffer to the list.
omx_encoder_fill_buffer_done ==
  /\ "video_encode" \in configured
  /\ in_pipe > 0
  /\ out_given > 0
  /\ in_pipe' = in_pipe - 1
  /\ out_given' = out_given - 1
  /\ out_free' = out_free + 1
  /\ emitted' = emitted + 1
  /\ encoded_video_queue' = Append(encoded_video_queue, emitted + 1)
  /\ UNCHANGED <<demux, queues, decode, ports, is_running, in_decoder, flag, eos_sent,
                 eos, writer, main_pc>>

\* The EOS flag arrives at the encoder's output behind the last frame.
omx_event_handler_eos ==
  /\ ~eos
  /\ eos_sent
  /\ in_decoder = 0 /\ in_pipe = 0
  /\ "video_encode" \in configured
  /\ eos' = TRUE
  /\ UNCHANGED <<demux, queues, decode, ports, is_running, in_decoder, in_pipe, flag,
                 eos_sent, outputs, writer, main_pc>>

-----------------------------------------------------------------------------
(* writer_thread *)

WriterMoves(from, to) ==
  /\ writer_pc = from
  /\ writer_pc' = to
  /\ UNCHANGED <<demux, queues, decode, ports, is_running, pipe, outputs, written, main_pc>>

\* Under is_running_mutex is_running is tested ...
test_running == WriterMoves("test_running", IF is_running THEN "test_eos" ELSE "to_wait")

\* ... and pthread_cond_wait called.  decode_thread does not take the mutex, so it
\* may signal between the two.
cond_wait == WriterMoves("to_wait", "waiting")

\* The wait may end without a signal.
SpuriousWakeup == WriterMoves("waiting", "test_running")

\* The loop condition: eos first, the audio queue's queue_finished second.
test_eos == WriterMoves("test_eos", IF eos THEN "test_audio_finished" ELSE "fill")

test_audio_finished ==
  WriterMoves("test_audio_finished", IF audio_finished THEN "exited" ELSE "fill")

\* omx_get_next_output_buffer sleeps while the list is empty; the buffer goes to
\* the encoder with OMX_FillThisBuffer.
OMX_FillThisBuffer ==
  /\ writer_pc = "fill"
  /\ out_free > 0
  /\ out_free' = out_free - 1
  /\ out_given' = out_given + 1
  /\ writer_pc' = "audio"
  /\ UNCHANGED <<demux, queues, decode, ports, is_running, pipe,
                 encoded_video_queue, emitted, written, main_pc>>

write_audio_frame ==
  /\ writer_pc = "audio"
  /\ processed_audio_queue' = IF processed_audio_queue = <<>> THEN <<>>
                              ELSE Tail(processed_audio_queue)
  /\ writer_pc' = "video"
  /\ UNCHANGED <<demux, input_video_queue, video_finished, audio_finished, decode,
                 ports, is_running, pipe, outputs, written, main_pc>>

write_video_frame ==
  /\ writer_pc = "video"
  /\ writer_pc' = "test_eos"
  /\ IF encoded_video_queue = <<>>
     THEN UNCHANGED <<encoded_video_queue, written>>
     ELSE /\ encoded_video_queue' = Tail(encoded_video_queue)
          /\ written' = Append(written, Head(encoded_video_queue))
  /\ UNCHANGED <<demux, queues, decode, ports, is_running, pipe, out_free,
                 out_given, emitted, main_pc>>

-----------------------------------------------------------------------------
(* main *)

\* The three threads are joined, then what is left in the two queues is freed.
main_cleanup ==
  /\ main_pc = "join"
  /\ demux_pc = "exited" /\ decode_pc = "exited" /\ writer_pc = "exited"
  /\ input_video_queue' = <<>>
  /\ processed_audio_queue' = <<>>
  /\ main_pc' = "exited"
  /\ UNCHANGED <<demux, video_finished, audio_finished, decode, ports, is_running,
                 pipe, outputs, writer>>

-----------------------------------------------------------------------------
DemuxStep ==
  \/ av_read_frame
  \/ wait_video
  \/ add_video
  \/ wait_audio
  \/ add_audio
  \/ finish_video
  \/ finish_audio

DecodeStep ==
  \/ test_count
  \/ test_finished
  \/ get_next_item
  \/ get_next_input_buffer
  \/ get_buffer_none
  \/ get_buffer_wait
  \/ configure_deinterlacer
  \/ configure_encoder
  \/ start_writer
  \/ OMX_EmptyThisBuffer
  \/ send_eos

HardwareStep ==
  \/ \E c \in Components : omx_event_handler_port(c)
  \/ decoder_consume
  \/ empty_buffer_done_test
  \/ empty_buffer_done_set
  \/ omx_encoder_fill_buffer_done
  \/ omx_event_handler_eos

WriterStep ==
  \/ test_running
  \/ cond_wait
  \/ test_eos
  \/ test_audio_finished
  \/ OMX_FillThisBuffer
  \/ write_audio_frame
  \/ write_video_frame

ProgramStep == DemuxStep \/ DecodeStep \/ HardwareStep \/ WriterStep \/ main_cleanup

Next == ProgramStep \/ SpuriousWakeup

Spec == Init /\ [][Next]_vars

\* Every thread is scheduled, and each component does what it can.
FairSpec ==
  /\ Spec
  /\ WF_vars(DemuxStep)
  /\ WF_vars(DecodeStep)
  /\ \A c \in Components : WF_vars(omx_event_handler_port(c))
  /\ WF_vars(decoder_consume)
  /\ WF_vars(empty_buffer_done_test)
  /\ WF_vars(empty_buffer_done_set)
  /\ WF_vars(omx_encoder_fill_buffer_done)
  /\ WF_vars(omx_event_handler_eos)
  /\ WF_vars(WriterStep)
  /\ WF_vars(main_cleanup)

-----------------------------------------------------------------------------
(* Properties *)

\* The writer has passed its wait for is_running.
Started == writer_pc \notin {"test_running", "to_wait", "waiting"}

TypeOK ==
  /\ demux_pc \in {"read", "video", "add_video", "audio", "add_audio", "finish_audio",
                  "exited"}
  /\ videos_read \in 0..Videos /\ audios_read \in 0..Audios
  /\ input_video_queue \in Seq(1..Videos) /\ video_finished \in BOOLEAN
  /\ processed_audio_queue \in Seq(1..Audios) /\ audio_finished \in BOOLEAN
  /\ decode_pc \in {"test_count", "test_finished", "get", "get_buffer", "none",
                   "input_wait", "deinterlacer", "encoder", "running", "empty_buffer",
                   "eos_buffer", "exited"}
  /\ current_packet \in {<<>>} \cup {<<p>> : p \in 1..Videos}
  /\ fed \in Seq(1..Videos)
  /\ port_settings_changed \in [Components -> BOOLEAN]
  /\ announced \subseteq Components /\ configured \subseteq Components
  /\ is_running \in BOOLEAN
  /\ in_decoder \in 0..NInBuffers /\ in_pipe \in 0..PipeRoom
  /\ buf_in_notempty \in {0, 1} /\ callback \in {"none", "test", "set"}
  /\ eos_sent \in BOOLEAN /\ eos \in BOOLEAN
  /\ writer_pc \in {"test_running", "to_wait", "waiting", "test_eos",
                   "test_audio_finished", "fill", "audio", "video", "exited"}
  /\ out_free \in 0..NOutBuffers /\ out_given \in 0..NOutBuffers
  /\ emitted \in 0..Videos
  /\ encoded_video_queue \in Seq(1..Videos) /\ written \in Seq(1..Videos)
  /\ main_pc \in {"join", "exited"}

\* The wait in extract_streams reads queue_count without the mutex and appends later;
\* whatever the readers do in between, both queues stay at one more than the limit.
QueueBound ==
  /\ Len(input_video_queue) <= MaxQueue + 1
  /\ Len(processed_audio_queue) <= MaxQueue + 1

\* Number of packets add_video has queued.
Queued == IF demux_pc \in {"video", "add_video"} THEN videos_read - 1 ELSE videos_read

\* Until main flushes what is left, every packet handed to input_video_queue is
\* with the decoder, in decode_thread's hand or still queued, in the order in
\* which it was read.
FedInOrder ==
  main_pc = "join" =>
    fed \o (current_packet \o input_video_queue) = [i \in 1..Queued |-> i]

\* The end of the stream is only announced to the decoder after the demuxer has
\* closed the queue, although the loop reads queue_count and queue_finished
\* without synchronisation; after it nothing more is fed.
EosOnlyAtEnd == eos_sent => video_finished /\ current_packet = <<>>

\* The writer enters its loop only when the encoder has been set up and its
\* buffers allocated: it never asks an unconfigured component for a buffer.
StartedOnlyConfigured ==
  Started => /\ configured = Components
             /\ out_free + out_given = NOutBuffers

\* Where a thread has ended or waits for another one, and where the hardware has nothing
\* to do: the guards of all steps, spelled out.
DemuxBlocked ==
  \/ demux_pc = "exited"
  \/ demux_pc = "video" /\ Len(input_video_queue) > MaxQueue
  \/ demux_pc = "audio" /\ Len(processed_audio_queue) > MaxQueue

DecodeBlocked ==
  \/ decode_pc = "exited"
  \/ decode_pc = "get" /\ input_video_queue = <<>>
  \/ decode_pc = "input_wait" /\ buf_in_notempty = 0

WriterBlocked ==
  \/ writer_pc \in {"waiting", "exited"}
  \/ writer_pc = "fill" /\ out_free = 0

HardwareIdle ==
  /\ callback = "none"
  /\ \A c \in configured \ announced : IF c = "video_decode" THEN fed = <<>> ELSE in_pipe = 0
  /\ in_decoder = 0 \/ in_pipe = PipeRoom
  /\ "video_encode" \in configured =>
       /\ in_pipe = 0 \/ out_given = 0
       /\ eos \/ ~eos_sent \/ in_decoder > 0 \/ in_pipe > 0

Stalled ==
  /\ DemuxBlocked /\ DecodeBlocked /\ WriterBlocked /\ HardwareIdle
  /\ main_pc = "join"
  /\ ~(demux_pc = "exited" /\ decode_pc = "exited" /\ writer_pc = "exited")

\* The reasons for which the program can stop before main has finished; no other
\* combination of waits is reachable.
\*  - decode_thread sleeps on an empty queue that has been finished since,
\*  - the writer sleeps on is_running_cv although is_running is set,
\*  - no frame reached the encoder before the end: is_running is never set,
\*  - the demuxer waits for room in the audio queue, which only a returned buffer
\*    of the encoder would make the writer drain,
\*  - the decoder is full and decode_thread, asleep, cannot look at the ports,
\*  - decode_thread sleeps with a buffer empty: it cleared the flag after the decoder's
\*    last call had read it, or
\*  - the writer waits for a buffer although the encoder has nothing to return.
KnownStalls ==
  Stalled =>
    \/ decode_pc = "get" /\ video_finished
    \/ writer_pc = "waiting" /\ is_running
    \/ writer_pc = "waiting" /\ decode_pc = "exited"
    \/ demux_pc = "audio" /\ decode_pc = "get" /\ writer_pc \in {"waiting", "fill"}
    \/ decode_pc = "input_wait" /\ in_decoder = NInBuffers /\ ~is_running
    \/ decode_pc = "input_wait" /\ in_decoder < NInBuffers
    \/ writer_pc = "fill" /\ eos /\ out_free = 0

\* The steps that are left, at most: of each thread to the end of its current turn, for
\* each packet and frame on its way, for each buffer the writer may still hand out, and
\* for each event.
Bit(condition) == IF condition THEN 1 ELSE 0

DemuxTurn ==
  [video |-> 4, audio |-> 4, add_video |-> 3, add_audio |-> 3, read |-> 2, finish_audio |-> 1,
   exited |-> 0]

DecodeTurn ==
  [input_wait |-> 10, get_buffer |-> 9, none |-> 8, deinterlacer |-> 8, encoder |-> 7,
   running |-> 6, empty_buffer |-> 5, test_count |-> 4, test_finished |-> 3, get |-> 2,
   eos_buffer |-> 1, exited |-> 0]

CallbackTurn == [test |-> 5, set |-> 4, none |-> 0]

WriterTurn ==
  [test_running |-> 6, to_wait |-> 5, waiting |-> 4, audio |-> 5, video |-> 4, test_eos |-> 3,
   test_audio_finished |-> 2, fill |-> 1, exited |-> 0]

DemuxWork == 3 * ((Videos - videos_read) + (Audios - audios_read)) + DemuxTurn[demux_pc]

\* decode_thread is in its loop; the end of the stream counts as one packet more.
Looping == decode_pc \in {"test_count", "test_finished", "get"} \/ current_packet # <<>>

DecodeWork ==
  8 * ((Videos - (Len(fed) + Len(current_packet))) + Bit(Looping)) + DecodeTurn[decode_pc]

CallbackWork == CallbackTurn[callback] + 3 * buf_in_notempty

HardwareWork ==
  13 * ((Videos - Len(fed)) + in_decoder) + 7 * in_pipe
    + CallbackWork + Bit(~eos)
    + Bit("video_decode" \notin announced) + Bit("image_fx" \notin announced)
    + Bit("video_encode" \notin announced)

WriterWork ==
  6 * (IF "video_encode" \in configured THEN out_free ELSE NOutBuffers) + 2 * Bit(~is_running)
    + WriterTurn[writer_pc]

MainWork == Bit(main_pc = "join")

Work == DemuxWork + DecodeWork + HardwareWork + WriterWork + MainWork

UsesUpWork ==
  /\ Work \in Nat
  /\ \/ Work' < Work
     \/ SpuriousWakeup /\ Work' = Work + 2

\* Every step uses up work, and only a wake-up without a signal makes some: no loop of a
\* thread turns for ever, with or without the others, so the program gets to its end or
\* to one of the KnownStalls.
WorkRunsOut == [][UsesUpWork]_vars

\* decode_thread sleeps for an empty buffer although all are empty, and no call of the
\* decoder is to come that would wake it.
LostWakeup ==
  /\ decode_pc = "input_wait" /\ buf_in_notempty = 0
  /\ in_decoder = 0 /\ callback = "none"

\* Once the writer runs, every packet read from the file is fed to the decoder or
\* decode_thread leaves its loop, whatever happens to the audio, unless the wake-up for
\* the last buffer the decoder emptied was lost.
QueuedVideoIsFed ==
  \A n \in 1..Videos :
    Started /\ Queued >= n ~> Len(fed) >= n \/ decode_pc = "exited" \/ LostWakeup

\* README.md: decode_thread "continually dequeus demuxed video packets and feeds
\* them to a pipeline".  When it has exited no packet is left in the queue.
AllVideoFed ==
  decode_pc = "exited" /\ main_pc = "join" => input_video_queue = <<>>

\* encode.c: "signal the consumer thread it can start polling for data".  Once
\* is_running is set the writer starts.
WriterStarts == is_running ~> Started

\* main.c: "block until the demux and decoder are finished".  Once all threads are
\* at work the demuxer gets to the end of the file.
DemuxFinishes == Started ~> demux_pc = "exited"
=============================================================================
