-------------------------- MODULE TranscoderProofs --------------------------
(***************************************************************************)
(* Proofs about the composed program for every file, every limit of the    *)
(* queues and every number of buffers.                                     *)
(***************************************************************************)
EXTENDS Transcoder, SequenceTheorems, TLAPS

\* A packet that has been read is waiting for its queue, and the video queue is
\* marked finished once the file has been read.
DemuxInv ==
  /\ demux_pc \in {"video", "add_video"} => videos_read > 0
  /\ demux_pc \in {"audio", "add_audio"} => audios_read > 0
  /\ video_finished <=> demux_pc \in {"finish_audio", "exited"}

\* Nobody but the demuxer adds: the room it has found is still there when it appends.
RoomInv ==
  /\ demux_pc = "add_video" => Len(input_video_queue) <= MaxQueue
  /\ demux_pc = "add_audio" => Len(processed_audio_queue) <= MaxQueue

\* decode_thread holds a packet from get_next_item until it has been handed over, and
\* an empty buffer once omx_get_next_input_buffer has returned; it leaves its loop
\* only after the demuxer has closed the queue.  The flag is 0 only while it waits.
DecodeInv ==
  /\ current_packet # <<>> =>
       decode_pc \in {"get_buffer", "none", "input_wait", "deinterlacer", "encoder",
                      "running", "empty_buffer"}
  /\ decode_pc \in {"deinterlacer", "encoder", "running", "empty_buffer"} =>
       current_packet # <<>> /\ in_decoder < NInBuffers
  /\ decode_pc \in {"get_buffer", "none", "input_wait"} /\ current_packet = <<>> =>
       video_finished
  /\ decode_pc \in {"eos_buffer", "exited"} => video_finished
  /\ eos_sent <=> decode_pc = "exited"
  /\ buf_in_notempty = 0 => decode_pc = "input_wait"
  /\ callback = "set" => buf_in_notempty = 0

\* A component announces its port when it has been configured; the components are
\* configured from the decoder down, the encoder when image_fx has announced and once.
PortsInv ==
  /\ \A c \in Components : port_settings_changed[c] => c \in announced
  /\ announced \subseteq configured
  /\ "video_decode" \in configured
  /\ "video_encode" \in configured =>
       /\ "image_fx" \in announced
       /\ ~port_settings_changed["image_fx"]

\* The encoder's buffers are allocated when it is configured, and then none is lost.
BuffersInv ==
  out_free + out_given = IF "video_encode" \in configured THEN NOutBuffers ELSE 0

\* A frame fed is in the decoder, in the pipeline or encoded.
FramesInv ==
  /\ emitted + in_pipe + in_decoder = Len(fed)
  /\ Len(fed) <= Videos

\* The writer passes its wait only when is_running is set, and that only when the
\* encoder has announced its port.
StartInv ==
  /\ Started => is_running
  /\ is_running => "video_encode" \in announced

\* main goes on when every thread has returned.
EndInv ==
  main_pc = "exited" =>
    demux_pc = "exited" /\ decode_pc = "exited" /\ writer_pc = "exited"

IInv ==
  /\ TypeOK /\ DemuxInv /\ DecodeInv /\ PortsInv /\ BuffersInv /\ FramesInv
  /\ StartInv /\ EndInv /\ QueueBound /\ RoomInv /\ FedInOrder

-----------------------------------------------------------------------------
(* Sequences *)

LEMMA LenNat ==
  ASSUME NEW S, NEW s \in Seq(S)
  PROVE  Len(s) \in Nat
OBVIOUS

LEMMA AppendFacts ==
  ASSUME NEW S, NEW s \in Seq(S), NEW e \in S
  PROVE  Append(s, e) \in Seq(S) /\ Len(Append(s, e)) = Len(s) + 1
OBVIOUS

LEMMA TailFacts ==
  ASSUME NEW S, NEW s \in Seq(S), s # <<>>
  PROVE  /\ Tail(s) \in Seq(S) /\ Len(Tail(s)) = Len(s) - 1
         /\ Head(s) \in S
OBVIOUS

\* Linking at the tail of the last of three sequences extends the whole.
LEMMA AppendToConcat ==
  ASSUME NEW S, NEW s \in Seq(S), NEW u \in Seq(S), NEW x \in S
  PROVE  s \o Append(u, x) = Append(s \o u, x)
OBVIOUS

LEMMA CountUp ==
  ASSUME NEW k \in Nat
  PROVE  Append([i \in 1..k |-> i], k + 1) = [i \in 1..(k + 1) |-> i]
OBVIOUS

LEMMA ConsHeadTail ==
  ASSUME NEW S, NEW s \in Seq(S), s # <<>>
  PROVE  <<Head(s)>> \o Tail(s) = s
OBVIOUS

LEMMA ConcatType ==
  ASSUME NEW S, NEW s \in Seq(S), NEW u \in Seq(S)
  PROVE  s \o u \in Seq(S) /\ Len(s \o u) = Len(s) + Len(u)
OBVIOUS

LEMMA CountLen ==
  ASSUME NEW k \in Nat
  PROVE  Len([i \in 1..k |-> i]) = k
OBVIOUS

\* What decode_thread holds is a sequence of at most one packet.
LEMMA CurrentFacts ==
  ASSUME TypeOK
  PROVE  current_packet \in Seq(1..Videos) /\ Len(current_packet) \in {0, 1}
         /\ (current_packet # <<>> => Len(current_packet) = 1)
<1>1. CASE current_packet = <<>>
  BY <1>1
<1>2. ASSUME NEW p \in 1..Videos, current_packet = <<p>>
      PROVE  current_packet \in Seq(1..Videos) /\ Len(current_packet) = 1
  BY <1>2
<1> QED
  BY <1>1, <1>2 DEF TypeOK

\* The lengths and counters are numbers.
LEMMA Numbers ==
  ASSUME TypeOK
  PROVE  /\ Len(input_video_queue) \in Nat /\ Len(processed_audio_queue) \in Nat
         /\ Len(fed) \in Nat /\ Len(encoded_video_queue) \in Nat
         /\ videos_read \in Nat /\ audios_read \in Nat /\ emitted \in Nat
         /\ in_decoder \in Nat /\ in_pipe \in Nat /\ out_free \in Nat /\ out_given \in Nat
BY SizesAssumption, LenNat DEF TypeOK

LEMMA FramesMove ==
  ASSUME TypeOK, FramesInv, fed' = fed,
         \/ emitted' = emitted /\ in_pipe' = in_pipe + 1 /\ in_decoder' = in_decoder - 1
         \/ emitted' = emitted + 1 /\ in_pipe' = in_pipe - 1 /\ in_decoder' = in_decoder
  PROVE  FramesInv'
BY Numbers DEF FramesInv

LEMMA BuffersMove ==
  ASSUME TypeOK, BuffersInv, configured' = configured,
         \/ out_free' = out_free - 1 /\ out_given' = out_given + 1
         \/ out_free' = out_free + 1 /\ out_given' = out_given - 1
  PROVE  BuffersInv'
BY Numbers DEF BuffersInv

-----------------------------------------------------------------------------
(* The inductive invariant *)

LEMMA InitIInv == Init => IInv
<1> SUFFICES ASSUME Init PROVE IInv
  OBVIOUS
<1>1. <<>> \o (<<>> \o <<>>) = [i \in 1..0 |-> i]
  OBVIOUS
<1>2. TypeOK
  <2>1. <<>> \in Seq(1..Videos) /\ <<>> \in Seq(1..Audios)
    OBVIOUS
  <2>2. 0 \in 0..Videos /\ 0 \in 0..Audios /\ 0 \in 0..NInBuffers /\ 0 \in 0..PipeRoom
        /\ 0 \in 0..NOutBuffers
    BY SizesAssumption
  <2> QED
    BY <2>1, <2>2 DEF Init, TypeOK, Components
<1>3. DemuxInv /\ DecodeInv /\ PortsInv /\ BuffersInv /\ StartInv /\ EndInv
  BY DEF Init, DemuxInv, DecodeInv, PortsInv, BuffersInv, StartInv, EndInv,
     Started, Components
<1>4. FramesInv /\ QueueBound /\ RoomInv
  BY SizesAssumption DEF Init, FramesInv, QueueBound, RoomInv
<1>5. FedInOrder
  BY <1>1 DEF Init, FedInOrder, Queued
<1> QED
  BY <1>2, <1>3, <1>4, <1>5 DEF IInv

\* The groups of variables in the UNCHANGED conjuncts of the actions.
USE SizesAssumption DEF demux, queues, decode, ports, pipe, flag, outputs, writer, notDemux

LEMMA Keep_av_read_frame ==
  ASSUME IInv, av_read_frame
  PROVE  IInv'
<1> USE DEF IInv
<1>1. /\ demux_pc = "read" /\ UNCHANGED <<queues, notDemux>>
      /\ \/ videos_read' = videos_read + 1 /\ audios_read' = audios_read /\ demux_pc' = "video"
         \/ audios_read' = audios_read + 1 /\ videos_read' = videos_read /\ demux_pc' = "audio"
  BY DEF av_read_frame
<1>2. videos_read' \in 0..Videos /\ audios_read' \in 0..Audios
  BY DEF av_read_frame, TypeOK
<1>3. TypeOK'
  BY <1>1, <1>2 DEF TypeOK
<1>4. FedInOrder'
  BY <1>1, Numbers DEF TypeOK, FedInOrder, Queued
<1>5. DemuxInv' /\ RoomInv'
  BY <1>1, Numbers DEF DemuxInv, RoomInv
<1>6. DecodeInv' /\ PortsInv' /\ BuffersInv' /\ FramesInv' /\ StartInv' /\ EndInv' /\ QueueBound'
  BY <1>1 DEF DecodeInv, PortsInv, BuffersInv, FramesInv, StartInv, EndInv, QueueBound, Started
<1> QED
  BY <1>3, <1>4, <1>5, <1>6

LEMMA Keep_wait_video ==
  ASSUME IInv, wait_video
  PROVE  IInv'
<1> USE DEF IInv, wait_video, DemuxMoves
<1>1. TypeOK'
  BY AppendFacts, TailFacts DEF TypeOK, DemuxInv, Components
<1>2. DemuxInv' /\ DecodeInv' /\ PortsInv' /\ BuffersInv' /\ FramesInv'
      /\ StartInv' /\ EndInv' /\ QueueBound' /\ RoomInv' /\ FedInOrder'
  BY Numbers DEF TypeOK, DemuxInv, DecodeInv, PortsInv, BuffersInv, FramesInv,
     StartInv, EndInv, QueueBound, RoomInv, FedInOrder, Started, Queued, Components
<1> QED
  BY <1>1, <1>2

LEMMA Keep_wait_audio ==
  ASSUME IInv, wait_audio
  PROVE  IInv'
<1> USE DEF IInv, wait_audio, DemuxMoves
<1>1. TypeOK'
  BY AppendFacts, TailFacts DEF TypeOK, DemuxInv, Components
<1>2. DemuxInv' /\ DecodeInv' /\ PortsInv' /\ BuffersInv' /\ FramesInv'
      /\ StartInv' /\ EndInv' /\ QueueBound' /\ RoomInv' /\ FedInOrder'
  BY Numbers DEF TypeOK, DemuxInv, DecodeInv, PortsInv, BuffersInv, FramesInv,
     StartInv, EndInv, QueueBound, RoomInv, FedInOrder, Started, Queued, Components
<1> QED
  BY <1>1, <1>2

LEMMA Keep_add_video ==
  ASSUME IInv, add_video
  PROVE  IInv'
<1> USE DEF IInv, add_video
<1>1. TypeOK'
  BY AppendFacts, TailFacts DEF TypeOK, DemuxInv, Components
<1>2. QueueBound' /\ RoomInv'
  BY AppendFacts, Numbers DEF TypeOK, DemuxInv, QueueBound, RoomInv
<1>3. FedInOrder'
  <2>1. main_pc = "join" /\ main_pc' = "join" /\ videos_read \in 1..Videos
    BY DEF TypeOK, DemuxInv, EndInv
  <2>2. fed \o (current_packet \o input_video_queue) = [i \in 1..(videos_read - 1) |-> i]
    BY <2>1 DEF FedInOrder, Queued
  <2>3. fed' \o (current_packet' \o input_video_queue')
          = Append(fed \o (current_packet \o input_video_queue), videos_read)
    <3>1. fed \in Seq(1..Videos) /\ input_video_queue \in Seq(1..Videos)
      BY DEF TypeOK
    <3>2. fed' = fed /\ current_packet' = current_packet
          /\ input_video_queue' = Append(input_video_queue, videos_read)
      OBVIOUS
    <3>3. current_packet \in Seq(1..Videos)
      BY CurrentFacts
    <3>4. videos_read \in 1..Videos
      BY <2>1
    <3> HIDE DEF IInv, add_video
    <3>5. current_packet \o Append(input_video_queue, videos_read)
            = Append(current_packet \o input_video_queue, videos_read)
      BY <3>1, <3>3, <3>4, AppendToConcat
    <3>6. current_packet \o input_video_queue \in Seq(1..Videos)
      BY <3>1, <3>3
    <3>7. fed \o Append(current_packet \o input_video_queue, videos_read)
            = Append(fed \o (current_packet \o input_video_queue), videos_read)
      BY <3>1, <3>4, <3>6, AppendToConcat
    <3> QED
      BY <3>2, <3>5, <3>7
  <2>4. Append([i \in 1..(videos_read - 1) |-> i], videos_read) = [i \in 1..videos_read |-> i]
    <3>1. videos_read - 1 \in Nat /\ (videos_read - 1) + 1 = videos_read
      BY <2>1
    <3> QED
      BY <3>1, CountUp
  <2> QED
    BY <2>2, <2>3, <2>4 DEF FedInOrder, Queued
<1>4. DemuxInv' /\ DecodeInv' /\ PortsInv' /\ BuffersInv' /\ FramesInv'
      /\ StartInv' /\ EndInv'
  BY Numbers DEF TypeOK, DemuxInv, DecodeInv, PortsInv, BuffersInv, FramesInv,
     StartInv, EndInv, Started, Queued, Components
<1> QED
  BY <1>1, <1>2, <1>3, <1>4

LEMMA Keep_add_audio ==
  ASSUME IInv, add_audio
  PROVE  IInv'
<1> USE DEF IInv, add_audio
<1>1. TypeOK'
  BY AppendFacts, TailFacts DEF TypeOK, DemuxInv, Components
<1>2. QueueBound' /\ RoomInv'
  BY AppendFacts, Numbers DEF TypeOK, DemuxInv, QueueBound, RoomInv
<1>3. DemuxInv' /\ DecodeInv' /\ PortsInv' /\ BuffersInv' /\ FramesInv'
      /\ StartInv' /\ EndInv' /\ FedInOrder'
  BY Numbers DEF TypeOK, DemuxInv, DecodeInv, PortsInv, BuffersInv, FramesInv,
     StartInv, EndInv, FedInOrder, Started, Queued, Components
<1> QED
  BY <1>1, <1>2, <1>3

LEMMA Keep_finish_video ==
  ASSUME IInv, finish_video
  PROVE  IInv'
<1> USE DEF IInv, finish_video, FinishVideo
<1>1. TypeOK'
  BY AppendFacts, TailFacts DEF TypeOK, DemuxInv, Components
<1>2. DemuxInv' /\ DecodeInv' /\ PortsInv' /\ BuffersInv' /\ FramesInv'
      /\ StartInv' /\ EndInv' /\ QueueBound' /\ RoomInv' /\ FedInOrder'
  BY Numbers DEF TypeOK, DemuxInv, DecodeInv, PortsInv, BuffersInv, FramesInv,
     StartInv, EndInv, QueueBound, RoomInv, FedInOrder, Started, Queued, Components
<1> QED
  BY <1>1, <1>2

LEMMA Keep_finish_audio ==
  ASSUME IInv, finish_audio
  PROVE  IInv'
<1> USE DEF IInv, finish_audio
<1>1. TypeOK'
  BY AppendFacts, TailFacts DEF TypeOK, DemuxInv, Components
<1>2. DemuxInv' /\ DecodeInv' /\ PortsInv' /\ BuffersInv' /\ FramesInv'
      /\ StartInv' /\ EndInv' /\ QueueBound' /\ RoomInv' /\ FedInOrder'
  BY Numbers DEF TypeOK, DemuxInv, DecodeInv, PortsInv, BuffersInv, FramesInv,
     StartInv, EndInv, QueueBound, RoomInv, FedInOrder, Started, Queued, Components
<1> QED
  BY <1>1, <1>2

LEMMA Keep_test_count ==
  ASSUME IInv, test_count
  PROVE  IInv'
<1> USE DEF IInv, test_count, DecodeMoves
<1>1. TypeOK'
  BY AppendFacts, TailFacts DEF TypeOK, DemuxInv, Components
<1>2. DemuxInv' /\ DecodeInv' /\ PortsInv' /\ BuffersInv' /\ FramesInv'
      /\ StartInv' /\ EndInv' /\ QueueBound' /\ RoomInv' /\ FedInOrder'
  BY Numbers DEF TypeOK, DemuxInv, DecodeInv, PortsInv, BuffersInv, FramesInv,
     StartInv, EndInv, QueueBound, RoomInv, FedInOrder, Started, Queued, Components
<1> QED
  BY <1>1, <1>2

LEMMA Keep_test_finished ==
  ASSUME IInv, test_finished
  PROVE  IInv'
<1> USE DEF IInv, test_finished, DecodeMoves
<1>1. TypeOK'
  BY AppendFacts, TailFacts DEF TypeOK, DemuxInv, Components
<1>2. DemuxInv' /\ DecodeInv' /\ PortsInv' /\ BuffersInv' /\ FramesInv'
      /\ StartInv' /\ EndInv' /\ QueueBound' /\ RoomInv' /\ FedInOrder'
  BY Numbers DEF TypeOK, DemuxInv, DecodeInv, PortsInv, BuffersInv, FramesInv,
     StartInv, EndInv, QueueBound, RoomInv, FedInOrder, Started, Queued, Components
<1> QED
  BY <1>1, <1>2

LEMMA Keep_get_next_item ==
  ASSUME IInv, get_next_item
  PROVE  IInv'
<1> USE DEF IInv, get_next_item
<1>1. TypeOK'
  <2>1. Head(input_video_queue) \in 1..Videos /\ Tail(input_video_queue) \in Seq(1..Videos)
    BY TailFacts DEF TypeOK
  <2>2. current_packet' \in {<<p>> : p \in 1..Videos}
    BY <2>1
  <2> QED
    BY <2>1, <2>2 DEF TypeOK
<1>2. QueueBound' /\ RoomInv'
  BY TailFacts, Numbers DEF TypeOK, QueueBound, RoomInv
<1>3. FedInOrder'
  <2>1. current_packet = <<>>
    BY DEF DecodeInv
  <2>2. input_video_queue \in Seq(1..Videos) /\ input_video_queue # <<>>
    BY DEF TypeOK
  <2>3. current_packet' \o input_video_queue' = input_video_queue
    <3>1. current_packet' = <<Head(input_video_queue)>> /\ input_video_queue' = Tail(input_video_queue)
      OBVIOUS
    <3> HIDE DEF get_next_item
    <3> QED
      BY <2>2, <3>1, ConsHeadTail
  <2>4. current_packet \o input_video_queue = input_video_queue
    BY <2>1, <2>2, ConcatEmptySeq
  <2> QED
    BY <2>3, <2>4 DEF FedInOrder, Queued
<1>4. DemuxInv' /\ DecodeInv' /\ PortsInv' /\ BuffersInv' /\ FramesInv'
      /\ StartInv' /\ EndInv'
  BY Numbers DEF TypeOK, DemuxInv, DecodeInv, PortsInv, BuffersInv, FramesInv,
     StartInv, EndInv, Started, Queued, Components
<1> QED
  BY <1>1, <1>2, <1>3, <1>4

LEMMA Keep_get_next_input_buffer ==
  ASSUME IInv, get_next_input_buffer
  PROVE  IInv'
<1> USE DEF IInv, get_next_input_buffer, DecodeMoves
<1>1. TypeOK'
  BY AppendFacts, TailFacts DEF TypeOK, DemuxInv, Components
<1>2. DemuxInv' /\ DecodeInv' /\ PortsInv' /\ BuffersInv' /\ FramesInv'
      /\ StartInv' /\ EndInv' /\ QueueBound' /\ RoomInv' /\ FedInOrder'
  BY Numbers DEF TypeOK, DemuxInv, DecodeInv, PortsInv, BuffersInv, FramesInv,
     StartInv, EndInv, QueueBound, RoomInv, FedInOrder, Started, Queued, Components
<1> QED
  BY <1>1, <1>2

LEMMA Keep_get_buffer_none ==
  ASSUME IInv, get_buffer_none
  PROVE  IInv'
<1> USE DEF IInv, get_buffer_none
<1>1. TypeOK'
  BY AppendFacts, TailFacts DEF TypeOK, DemuxInv, Components
<1>2. DemuxInv' /\ DecodeInv' /\ PortsInv' /\ BuffersInv' /\ FramesInv'
      /\ StartInv' /\ EndInv' /\ QueueBound' /\ RoomInv' /\ FedInOrder'
  BY Numbers DEF TypeOK, DemuxInv, DecodeInv, PortsInv, BuffersInv, FramesInv,
     StartInv, EndInv, QueueBound, RoomInv, FedInOrder, Started, Queued, Components
<1> QED
  BY <1>1, <1>2

LEMMA Keep_get_buffer_wait ==
  ASSUME IInv, get_buffer_wait
  PROVE  IInv'
<1> USE DEF IInv, get_buffer_wait, DecodeMoves
<1>1. TypeOK'
  BY AppendFacts, TailFacts DEF TypeOK, DemuxInv, Components
<1>2. DemuxInv' /\ DecodeInv' /\ PortsInv' /\ BuffersInv' /\ FramesInv'
      /\ StartInv' /\ EndInv' /\ QueueBound' /\ RoomInv' /\ FedInOrder'
  BY Numbers DEF TypeOK, DemuxInv, DecodeInv, PortsInv, BuffersInv, FramesInv,
     StartInv, EndInv, QueueBound, RoomInv, FedInOrder, Started, Queued, Components
<1> QED
  BY <1>1, <1>2

LEMMA Keep_configure_deinterlacer ==
  ASSUME IInv, configure_deinterlacer
  PROVE  IInv'
<1> USE DEF IInv, configure_deinterlacer
<1>1. TypeOK'
  <2>1. port_settings_changed' \in [Components -> BOOLEAN] /\ configured' \subseteq Components
    BY DEF TypeOK, Components
  <2> QED
    BY <2>1 DEF TypeOK
<1>2. DemuxInv' /\ DecodeInv' /\ PortsInv' /\ BuffersInv' /\ FramesInv'
      /\ StartInv' /\ EndInv' /\ QueueBound' /\ RoomInv' /\ FedInOrder'
  BY Numbers DEF TypeOK, DemuxInv, DecodeInv, PortsInv, BuffersInv, FramesInv,
     StartInv, EndInv, QueueBound, RoomInv, FedInOrder, Started, Queued, Components
<1> QED
  BY <1>1, <1>2

LEMMA Keep_configure_encoder ==
  ASSUME IInv, configure_encoder
  PROVE  IInv'
<1> USE DEF IInv, configure_encoder
<1>1. TypeOK'
  <2>1. port_settings_changed' \in [Components -> BOOLEAN] /\ configured' \subseteq Components
    BY DEF TypeOK, Components
  <2>2. out_free' \in 0..NOutBuffers
    BY DEF TypeOK
  <2> QED
    BY <2>1, <2>2 DEF TypeOK
<1>2. BuffersInv'
  <2>1. CASE port_settings_changed["image_fx"]
    <3>1. "video_encode" \notin configured
      BY <2>1 DEF PortsInv
    <3>2. out_given = 0 /\ out_given' = 0
      BY <3>1, Numbers DEF BuffersInv
    <3> QED
      BY <2>1, <3>2 DEF BuffersInv
  <2>2. CASE ~port_settings_changed["image_fx"]
    BY <2>2 DEF BuffersInv
  <2> QED
    BY <2>1, <2>2
<1>3. DemuxInv' /\ DecodeInv' /\ PortsInv' /\ FramesInv' /\ StartInv'
      /\ EndInv' /\ QueueBound' /\ RoomInv' /\ FedInOrder'
  BY Numbers DEF TypeOK, DemuxInv, DecodeInv, PortsInv, FramesInv, StartInv,
     EndInv, QueueBound, RoomInv, FedInOrder, Started, Queued, Components
<1> QED
  BY <1>1, <1>2, <1>3

LEMMA Keep_start_writer ==
  ASSUME IInv, start_writer
  PROVE  IInv'
<1> USE DEF IInv, start_writer, StartWriter
<1>1. TypeOK'
  <2>1. port_settings_changed' \in [Components -> BOOLEAN]
    BY DEF TypeOK, Components
  <2>2. CASE port_settings_changed["video_encode"]
    BY <2>1, <2>2 DEF TypeOK
  <2>3. CASE ~port_settings_changed["video_encode"]
    BY <2>1, <2>3 DEF TypeOK
  <2> QED
    BY <2>2, <2>3
<1>2. DemuxInv' /\ DecodeInv' /\ PortsInv' /\ BuffersInv' /\ FramesInv'
      /\ StartInv' /\ EndInv' /\ QueueBound' /\ RoomInv' /\ FedInOrder'
  BY Numbers DEF TypeOK, DemuxInv, DecodeInv, PortsInv, BuffersInv, FramesInv,
     StartInv, EndInv, QueueBound, RoomInv, FedInOrder, Started, Queued, Components
<1> QED
  BY <1>1, <1>2

LEMMA Keep_OMX_EmptyThisBuffer ==
  ASSUME IInv, OMX_EmptyThisBuffer
  PROVE  IInv'
<1> USE DEF IInv, OMX_EmptyThisBuffer
<1>1. TypeOK'
  <2>1. fed' \in Seq(1..Videos)
    BY CurrentFacts, ConcatType DEF TypeOK
  <2>2. in_decoder' \in 0..NInBuffers
    BY Numbers DEF TypeOK, DecodeInv
  <2> QED
    BY <2>1, <2>2 DEF TypeOK
<1>2. FramesInv'
  <2>1. main_pc = "join"
    BY DEF TypeOK, EndInv
  <2>2. Len(current_packet) = 1
    BY CurrentFacts DEF DecodeInv
  <2>3. Len(fed') = Len(fed) + 1
    <3>1. fed \in Seq(1..Videos) /\ current_packet \in Seq(1..Videos) /\ fed' = fed \o current_packet
      BY CurrentFacts DEF TypeOK
    <3> HIDE DEF IInv, OMX_EmptyThisBuffer
    <3> QED
      BY <2>2, <3>1, ConcatType
  <2>4. Len(fed) + (Len(current_packet) + Len(input_video_queue)) = Queued
    <3>1. current_packet \o input_video_queue \in Seq(1..Videos)
          /\ Len(current_packet \o input_video_queue) = Len(current_packet) + Len(input_video_queue)
      BY CurrentFacts, ConcatType DEF TypeOK
    <3>2. Len(fed \o (current_packet \o input_video_queue))
            = Len(fed) + (Len(current_packet) + Len(input_video_queue))
      BY <3>1, ConcatType DEF TypeOK
    <3>3. Queued \in Nat
      BY DEF TypeOK, DemuxInv, Queued
    <3> QED
      BY <2>1, <3>2, <3>3, CountLen DEF FedInOrder
  <2>5. Queued <= Videos
    BY DEF TypeOK, Queued
  <2>6. Len(input_video_queue) \in Nat /\ Len(fed) \in Nat
    BY Numbers
  <2>7. Len(fed) + 1 <= Videos
    <3>1. Queued \in Int
      BY DEF TypeOK, Queued
    <3> QED
      BY <2>2, <2>4, <2>5, <2>6, <3>1
  <2>8. FramesInv /\ TypeOK /\ in_decoder' = in_decoder + 1 /\ emitted' = emitted /\ in_pipe' = in_pipe
    OBVIOUS
  <2> HIDE DEF IInv, OMX_EmptyThisBuffer
  <2> QED
    BY <2>3, <2>7, <2>8, Numbers DEF FramesInv
<1>3. FedInOrder'
  <2>1. <<>> \o input_video_queue = input_video_queue
    BY ConcatEmptySeq DEF TypeOK
  <2>2. (fed \o current_packet) \o input_video_queue = fed \o (current_packet \o input_video_queue)
    <3>1. fed \in Seq(1..Videos) /\ current_packet \in Seq(1..Videos)
          /\ input_video_queue \in Seq(1..Videos)
      BY CurrentFacts DEF TypeOK
    <3> HIDE DEF IInv, OMX_EmptyThisBuffer
    <3> QED
      BY <3>1
  <2> QED
    BY <2>1, <2>2 DEF FedInOrder, Queued
<1>4. DemuxInv' /\ DecodeInv' /\ PortsInv' /\ BuffersInv' /\ StartInv'
      /\ EndInv' /\ QueueBound' /\ RoomInv'
  BY Numbers DEF TypeOK, DemuxInv, DecodeInv, PortsInv, BuffersInv, StartInv,
     EndInv, QueueBound, RoomInv, Started, Queued, Components
<1> QED
  BY <1>1, <1>2, <1>3, <1>4

LEMMA Keep_send_eos ==
  ASSUME IInv, send_eos
  PROVE  IInv'
<1> USE DEF IInv, send_eos
<1>1. TypeOK'
  BY AppendFacts, TailFacts DEF TypeOK, DemuxInv, Components
<1>2. DemuxInv' /\ DecodeInv' /\ PortsInv' /\ BuffersInv' /\ FramesInv'
      /\ StartInv' /\ EndInv' /\ QueueBound' /\ RoomInv' /\ FedInOrder'
  BY Numbers DEF TypeOK, DemuxInv, DecodeInv, PortsInv, BuffersInv, FramesInv,
     StartInv, EndInv, QueueBound, RoomInv, FedInOrder, Started, Queued, Components
<1> QED
  BY <1>1, <1>2

LEMMA Keep_omx_event_handler_port ==
  ASSUME IInv, NEW c \in Components, omx_event_handler_port(c)
  PROVE  IInv'
<1> USE DEF IInv, omx_event_handler_port
<1>1. TypeOK'
  BY DEF TypeOK
<1>2. PortsInv' /\ StartInv' /\ BuffersInv'
  <2>1. \A d \in Components : port_settings_changed'[d] <=> d = c \/ port_settings_changed[d]
    BY DEF TypeOK
  <2>2. "image_fx" \in announced => c # "image_fx"
    OBVIOUS
  <2> QED
    BY <2>1, <2>2 DEF TypeOK, PortsInv, StartInv, BuffersInv, Started, Components
<1>3. DemuxInv' /\ DecodeInv' /\ FramesInv' /\ EndInv' /\ QueueBound' /\ RoomInv' /\ FedInOrder'
  BY DEF DemuxInv, DecodeInv, FramesInv, EndInv, QueueBound, RoomInv, FedInOrder, Queued
<1> QED
  BY <1>1, <1>2, <1>3

LEMMA Keep_decoder_consume ==
  ASSUME IInv, decoder_consume
  PROVE  IInv'
<1> USE DEF IInv, decoder_consume
<1>1. TypeOK'
  BY Numbers DEF TypeOK
<1>2. FramesInv'
  BY FramesMove
<1>3. DemuxInv' /\ DecodeInv' /\ PortsInv' /\ BuffersInv' /\ StartInv'
      /\ EndInv' /\ QueueBound' /\ RoomInv' /\ FedInOrder'
  BY Numbers DEF TypeOK, DemuxInv, DecodeInv, PortsInv, BuffersInv, StartInv,
     EndInv, QueueBound, RoomInv, FedInOrder, Started, Queued, Components
<1> QED
  BY <1>1, <1>2, <1>3

LEMMA Keep_empty_buffer_done_test ==
  ASSUME IInv, empty_buffer_done_test
  PROVE  IInv'
<1> USE DEF IInv, empty_buffer_done_test, Callback
<1>1. TypeOK'
  BY AppendFacts, TailFacts DEF TypeOK, DemuxInv, Components
<1>2. DemuxInv' /\ DecodeInv' /\ PortsInv' /\ BuffersInv' /\ FramesInv'
      /\ StartInv' /\ EndInv' /\ QueueBound' /\ RoomInv' /\ FedInOrder'
  BY Numbers DEF TypeOK, DemuxInv, DecodeInv, PortsInv, BuffersInv, FramesInv,
     StartInv, EndInv, QueueBound, RoomInv, FedInOrder, Started, Queued, Components
<1> QED
  BY <1>1, <1>2

LEMMA Keep_empty_buffer_done_set ==
  ASSUME IInv, empty_buffer_done_set
  PROVE  IInv'
<1> USE DEF IInv, empty_buffer_done_set, Callback
<1>1. TypeOK'
  BY AppendFacts, TailFacts DEF TypeOK, DemuxInv, Components
<1>2. DemuxInv' /\ DecodeInv' /\ PortsInv' /\ BuffersInv' /\ FramesInv'
      /\ StartInv' /\ EndInv' /\ QueueBound' /\ RoomInv' /\ FedInOrder'
  BY Numbers DEF TypeOK, DemuxInv, DecodeInv, PortsInv, BuffersInv, FramesInv,
     StartInv, EndInv, QueueBound, RoomInv, FedInOrder, Started, Queued, Components
<1> QED
  BY <1>1, <1>2

LEMMA Keep_omx_encoder_fill_buffer_done ==
  ASSUME IInv, omx_encoder_fill_buffer_done
  PROVE  IInv'
<1> USE DEF IInv, omx_encoder_fill_buffer_done
<1>1. TypeOK'
  <2>1. emitted + 1 \in 1..Videos
    <3>1. in_pipe > 0 /\ emitted + in_pipe + in_decoder = Len(fed) /\ Len(fed) <= Videos
      BY DEF FramesInv
    <3>2. TypeOK
      OBVIOUS
    <3> HIDE DEF IInv, omx_encoder_fill_buffer_done
    <3> QED
      BY <3>1, <3>2, Numbers
  <2>6. out_given > 0 /\ out_free + out_given <= NOutBuffers
    BY Numbers DEF BuffersInv
  <2>2. encoded_video_queue' \in Seq(1..Videos)
    BY <2>1, AppendFacts DEF TypeOK
  <2>3. in_pipe' \in 0..PipeRoom /\ out_given' \in 0..NOutBuffers
    BY Numbers DEF TypeOK
  <2>4. out_free' \in 0..NOutBuffers
    BY <2>6, Numbers DEF TypeOK
  <2>5. emitted' \in 0..Videos
    BY <2>1
  <2> QED
    BY <2>2, <2>3, <2>4, <2>5 DEF TypeOK
<1>2. BuffersInv'
  BY BuffersMove
<1>3. FramesInv'
  BY FramesMove
<1>4. DemuxInv' /\ DecodeInv' /\ PortsInv' /\ StartInv' /\ EndInv'
      /\ QueueBound' /\ RoomInv' /\ FedInOrder'
  BY Numbers DEF TypeOK, DemuxInv, DecodeInv, PortsInv, StartInv, EndInv,
     QueueBound, RoomInv, FedInOrder, Started, Queued, Components
<1> QED
  BY <1>1, <1>2, <1>3, <1>4

LEMMA Keep_omx_event_handler_eos ==
  ASSUME IInv, omx_event_handler_eos
  PROVE  IInv'
<1> USE DEF IInv, omx_event_handler_eos
<1>1. TypeOK'
  BY AppendFacts, TailFacts DEF TypeOK, DemuxInv, Components
<1>2. DemuxInv' /\ DecodeInv' /\ PortsInv' /\ BuffersInv' /\ FramesInv'
      /\ StartInv' /\ EndInv' /\ QueueBound' /\ RoomInv' /\ FedInOrder'
  BY Numbers DEF TypeOK, DemuxInv, DecodeInv, PortsInv, BuffersInv, FramesInv,
     StartInv, EndInv, QueueBound, RoomInv, FedInOrder, Started, Queued, Components
<1> QED
  BY <1>1, <1>2

LEMMA Keep_test_running ==
  ASSUME IInv, test_running
  PROVE  IInv'
<1> USE DEF IInv, test_running, WriterMoves
<1>1. TypeOK'
  BY AppendFacts, TailFacts DEF TypeOK, DemuxInv, Components
<1>2. DemuxInv' /\ DecodeInv' /\ PortsInv' /\ BuffersInv' /\ FramesInv'
      /\ StartInv' /\ EndInv' /\ QueueBound' /\ RoomInv' /\ FedInOrder'
  BY Numbers DEF TypeOK, DemuxInv, DecodeInv, PortsInv, BuffersInv, FramesInv,
     StartInv, EndInv, QueueBound, RoomInv, FedInOrder, Started, Queued, Components
<1> QED
  BY <1>1, <1>2

LEMMA Keep_cond_wait ==
  ASSUME IInv, cond_wait
  PROVE  IInv'
<1> USE DEF IInv, cond_wait, WriterMoves
<1>1. TypeOK'
  BY AppendFacts, TailFacts DEF TypeOK, DemuxInv, Components
<1>2. DemuxInv' /\ DecodeInv' /\ PortsInv' /\ BuffersInv' /\ FramesInv'
      /\ StartInv' /\ EndInv' /\ QueueBound' /\ RoomInv' /\ FedInOrder'
  BY Numbers DEF TypeOK, DemuxInv, DecodeInv, PortsInv, BuffersInv, FramesInv,
     StartInv, EndInv, QueueBound, RoomInv, FedInOrder, Started, Queued, Components
<1> QED
  BY <1>1, <1>2

LEMMA Keep_SpuriousWakeup ==
  ASSUME IInv, SpuriousWakeup
  PROVE  IInv'
<1> USE DEF IInv, SpuriousWakeup, WriterMoves
<1>1. TypeOK'
  BY AppendFacts, TailFacts DEF TypeOK, DemuxInv, Components
<1>2. DemuxInv' /\ DecodeInv' /\ PortsInv' /\ BuffersInv' /\ FramesInv'
      /\ StartInv' /\ EndInv' /\ QueueBound' /\ RoomInv' /\ FedInOrder'
  BY Numbers DEF TypeOK, DemuxInv, DecodeInv, PortsInv, BuffersInv, FramesInv,
     StartInv, EndInv, QueueBound, RoomInv, FedInOrder, Started, Queued, Components
<1> QED
  BY <1>1, <1>2

LEMMA Keep_test_eos ==
  ASSUME IInv, test_eos
  PROVE  IInv'
<1> USE DEF IInv, test_eos, WriterMoves
<1>1. TypeOK'
  BY AppendFacts, TailFacts DEF TypeOK, DemuxInv, Components
<1>2. DemuxInv' /\ DecodeInv' /\ PortsInv' /\ BuffersInv' /\ FramesInv'
      /\ StartInv' /\ EndInv' /\ QueueBound' /\ RoomInv' /\ FedInOrder'
  BY Numbers DEF TypeOK, DemuxInv, DecodeInv, PortsInv, BuffersInv, FramesInv,
     StartInv, EndInv, QueueBound, RoomInv, FedInOrder, Started, Queued, Components
<1> QED
  BY <1>1, <1>2

LEMMA Keep_test_audio_finished ==
  ASSUME IInv, test_audio_finished
  PROVE  IInv'
<1> USE DEF IInv, test_audio_finished, WriterMoves
<1>1. TypeOK'
  BY AppendFacts, TailFacts DEF TypeOK, DemuxInv, Components
<1>2. DemuxInv' /\ DecodeInv' /\ PortsInv' /\ BuffersInv' /\ FramesInv'
      /\ StartInv' /\ EndInv' /\ QueueBound' /\ RoomInv' /\ FedInOrder'
  BY Numbers DEF TypeOK, DemuxInv, DecodeInv, PortsInv, BuffersInv, FramesInv,
     StartInv, EndInv, QueueBound, RoomInv, FedInOrder, Started, Queued, Components
<1> QED
  BY <1>1, <1>2

LEMMA Keep_OMX_FillThisBuffer ==
  ASSUME IInv, OMX_FillThisBuffer
  PROVE  IInv'
<1> USE DEF IInv, OMX_FillThisBuffer
<1>1. TypeOK'
  <2>1. out_free' \in 0..NOutBuffers
    BY Numbers DEF TypeOK
  <2>2. out_given' \in 0..NOutBuffers
    BY Numbers DEF BuffersInv
  <2> QED
    BY <2>1, <2>2 DEF TypeOK
<1>2. BuffersInv'
  BY BuffersMove
<1>3. DemuxInv' /\ DecodeInv' /\ PortsInv' /\ FramesInv' /\ StartInv'
      /\ EndInv' /\ QueueBound' /\ RoomInv' /\ FedInOrder'
  BY Numbers DEF TypeOK, DemuxInv, DecodeInv, PortsInv, FramesInv, StartInv,
     EndInv, QueueBound, RoomInv, FedInOrder, Started, Queued, Components
<1> QED
  BY <1>1, <1>2, <1>3

LEMMA Keep_write_audio_frame ==
  ASSUME IInv, write_audio_frame
  PROVE  IInv'
<1> USE DEF IInv, write_audio_frame
<1>1. TypeOK'
  <2>1. processed_audio_queue' \in Seq(1..Audios)
    BY TailFacts DEF TypeOK
  <2> QED
    BY <2>1 DEF TypeOK
<1>2. QueueBound' /\ RoomInv'
  BY TailFacts, Numbers DEF TypeOK, QueueBound, RoomInv
<1>3. DemuxInv' /\ DecodeInv' /\ PortsInv' /\ BuffersInv' /\ FramesInv'
      /\ StartInv' /\ EndInv' /\ FedInOrder'
  BY Numbers DEF TypeOK, DemuxInv, DecodeInv, PortsInv, BuffersInv, FramesInv,
     StartInv, EndInv, FedInOrder, Started, Queued, Components
<1> QED
  BY <1>1, <1>2, <1>3

LEMMA Keep_write_video_frame ==
  ASSUME IInv, write_video_frame
  PROVE  IInv'
<1> USE DEF IInv, write_video_frame
<1>1. TypeOK'
  <2>1. CASE encoded_video_queue = <<>>
    BY <2>1 DEF TypeOK
  <2>2. CASE encoded_video_queue # <<>>
    <3>1. encoded_video_queue \in Seq(1..Videos) /\ written \in Seq(1..Videos)
      BY DEF TypeOK
    <3>2. /\ encoded_video_queue' = Tail(encoded_video_queue)
          /\ written' = Append(written, Head(encoded_video_queue))
      BY <2>2
    <3>3. /\ Tail(encoded_video_queue) \in Seq(1..Videos)
          /\ Head(encoded_video_queue) \in 1..Videos
      BY <2>2, <3>1, TailFacts
    <3>4. encoded_video_queue' \in Seq(1..Videos) /\ written' \in Seq(1..Videos)
      BY <3>1, <3>2, <3>3, AppendFacts
    <3> QED
      BY <3>4 DEF TypeOK
  <2> QED
    BY <2>1, <2>2
<1>2. DemuxInv' /\ DecodeInv' /\ PortsInv' /\ BuffersInv' /\ FramesInv'
      /\ StartInv' /\ EndInv' /\ QueueBound' /\ RoomInv' /\ FedInOrder'
  BY Numbers DEF TypeOK, DemuxInv, DecodeInv, PortsInv, BuffersInv, FramesInv,
     StartInv, EndInv, QueueBound, RoomInv, FedInOrder, Started, Queued, Components
<1> QED
  BY <1>1, <1>2

LEMMA Keep_main_cleanup ==
  ASSUME IInv, main_cleanup
  PROVE  IInv'
<1> USE DEF IInv, main_cleanup
<1>1. TypeOK'
  BY AppendFacts, TailFacts DEF TypeOK, DemuxInv, Components
<1>2. DemuxInv' /\ DecodeInv' /\ PortsInv' /\ BuffersInv' /\ FramesInv'
      /\ StartInv' /\ EndInv' /\ QueueBound' /\ RoomInv' /\ FedInOrder'
  BY Numbers DEF TypeOK, DemuxInv, DecodeInv, PortsInv, BuffersInv, FramesInv,
     StartInv, EndInv, QueueBound, RoomInv, FedInOrder, Started, Queued, Components
<1> QED
  BY <1>1, <1>2

LEMMA Keep_stutter == IInv /\ UNCHANGED vars => IInv'
<1> SUFFICES ASSUME IInv, UNCHANGED vars PROVE IInv'
  OBVIOUS
<1> USE DEF vars, IInv
<1>1. TypeOK'
  BY DEF TypeOK
<1>2. DemuxInv' /\ DecodeInv' /\ PortsInv' /\ BuffersInv' /\ FramesInv'
      /\ StartInv' /\ EndInv' /\ QueueBound' /\ RoomInv' /\ FedInOrder'
  BY DEF DemuxInv, DecodeInv, PortsInv, BuffersInv, FramesInv, StartInv, EndInv,
     QueueBound, RoomInv, FedInOrder, Started, Queued
<1> QED
  BY <1>1, <1>2

LEMMA NextIInv == IInv /\ [Next]_vars => IInv'
<1> SUFFICES ASSUME IInv, [Next]_vars PROVE IInv'
  OBVIOUS
<1>1. CASE DemuxStep
  BY <1>1, Keep_av_read_frame, Keep_wait_video, Keep_add_video, Keep_wait_audio,
     Keep_add_audio, Keep_finish_video,
     Keep_finish_audio DEF DemuxStep
<1>2. CASE DecodeStep
  BY <1>2, Keep_test_count, Keep_test_finished, Keep_get_next_item,
     Keep_get_next_input_buffer, Keep_get_buffer_none, Keep_get_buffer_wait,
     Keep_configure_deinterlacer, Keep_configure_encoder,
     Keep_start_writer, Keep_OMX_EmptyThisBuffer, Keep_send_eos DEF DecodeStep
<1>3. CASE HardwareStep
  BY <1>3, Keep_omx_event_handler_port, Keep_decoder_consume,
     Keep_empty_buffer_done_test, Keep_empty_buffer_done_set,
     Keep_omx_encoder_fill_buffer_done, Keep_omx_event_handler_eos DEF HardwareStep
<1>4. CASE WriterStep
  BY <1>4, Keep_test_running, Keep_cond_wait, Keep_test_eos,
     Keep_test_audio_finished,
     Keep_OMX_FillThisBuffer, Keep_write_audio_frame, Keep_write_video_frame DEF WriterStep
<1>5. CASE main_cleanup \/ SpuriousWakeup \/ UNCHANGED vars
  BY <1>5, Keep_main_cleanup, Keep_SpuriousWakeup, Keep_stutter
<1> QED
  BY <1>1, <1>2, <1>3, <1>4, <1>5 DEF Next, ProgramStep

\* The inductive invariant holds throughout.
THEOREM InvariantHolds == Spec => []IInv
<1>1. Init => IInv
  BY InitIInv
<1>2. IInv /\ [Next]_vars => IInv'
  BY NextIInv
<1> QED
  BY <1>1, <1>2, PTL DEF Spec

-----------------------------------------------------------------------------
(* The theorems *)

\* The types of the composed state; in particular no buffer of the decoder or the
\* encoder is counted twice.
THEOREM TypeCorrect == Spec => []TypeOK
<1>1. IInv => TypeOK
  BY DEF IInv
<1> QED
  BY <1>1, InvariantHolds, PTL

\* extract_streams tests queue_count without the mutex and adds a packet later: a
\* queue never grows beyond the limit by more than that packet.
THEOREM QueueBoundHolds == Spec => []QueueBound
<1>1. IInv => QueueBound
  BY DEF IInv
<1> QED
  BY <1>1, InvariantHolds, PTL

\* From av_read_frame to OMX_EmptyThisBuffer no video packet is lost, doubled or
\* overtaken, whatever the other threads do.
THEOREM FedInOrderHolds == Spec => []FedInOrder
<1>1. IInv => FedInOrder
  BY DEF IInv
<1> QED
  BY <1>1, InvariantHolds, PTL

\* decode_thread sends EOS only after the demuxer has closed the queue, and holds no
\* packet then.
THEOREM EosOnlyAtEndHolds == Spec => []EosOnlyAtEnd
<1>1. IInv => EosOnlyAtEnd
  BY DEF IInv, DecodeInv, EosOnlyAtEnd
<1> QED
  BY <1>1, InvariantHolds, PTL

\* is_running is set only after all components have been configured and the encoder's
\* buffers allocated, so that the writer finds them.
THEOREM StartedOnlyConfiguredHolds == Spec => []StartedOnlyConfigured
<1>1. IInv => StartedOnlyConfigured
  BY DEF IInv, TypeOK, PortsInv, BuffersInv, StartInv, StartedOnlyConfigured,
     Components
<1> QED
  BY <1>1, InvariantHolds, PTL

-----------------------------------------------------------------------------
(* Why the program stops *)

\* The last steps come in their order: EOS behind what was fed, the end of the writer
\* behind EOS and the end of the demuxer; and the encoder announces its port once.
FinishInv ==
  /\ audio_finished <=> demux_pc = "exited"
  /\ eos => eos_sent
  /\ writer_pc \in {"test_audio_finished", "exited"} => eos
  /\ writer_pc = "exited" => audio_finished
  /\ is_running => ~port_settings_changed["video_encode"]

LEMMA InitFinishInv == Init => FinishInv
BY DEF Init, FinishInv

LEMMA NextFinishInv == IInv /\ FinishInv /\ [Next]_vars => FinishInv'
<1> SUFFICES ASSUME IInv, FinishInv, [Next]_vars PROVE FinishInv'
  OBVIOUS
<1>1. CASE DemuxStep
  BY <1>1 DEF DemuxStep, av_read_frame, wait_video, add_video, wait_audio, DemuxMoves, add_audio, finish_video,
     FinishVideo, finish_audio, FinishInv, notDemux, queues, ports, pipe, writer, IInv, TypeOK
<1>2. CASE DecodeStep
  <2>1. CASE \/ test_count \/ test_finished \/ get_next_item \/ get_next_input_buffer
             \/ get_buffer_none \/ get_buffer_wait \/ send_eos \/ OMX_EmptyThisBuffer
    BY <2>1 DEF test_count, test_finished, get_next_item, get_next_input_buffer,
       get_buffer_none, get_buffer_wait, send_eos, OMX_EmptyThisBuffer, DecodeMoves, FinishInv, demux, queues, ports, pipe, writer
  <2>2. CASE configure_deinterlacer \/ configure_encoder
    BY <2>2 DEF configure_deinterlacer, configure_encoder, FinishInv, demux, queues, pipe, writer,
       IInv, TypeOK, Components
  <2>3. CASE start_writer
    BY <2>3 DEF start_writer, StartWriter, FinishInv, demux, queues, pipe, IInv, TypeOK, Components
  <2> QED
    BY <1>2, <2>1, <2>2, <2>3 DEF DecodeStep
<1>3. CASE HardwareStep
  <2>1. ASSUME NEW c \in Components, omx_event_handler_port(c)
        PROVE  FinishInv'
    BY <2>1 DEF omx_event_handler_port, FinishInv, demux, queues, pipe, writer, IInv, TypeOK,
       Components, StartInv
  <2>2. CASE \/ decoder_consume \/ empty_buffer_done_test \/ empty_buffer_done_set
             \/ omx_encoder_fill_buffer_done \/ omx_event_handler_eos
    BY <2>2 DEF decoder_consume, empty_buffer_done_test, empty_buffer_done_set, Callback,
       omx_encoder_fill_buffer_done, omx_event_handler_eos, FinishInv, demux, queues, ports,
       writer
  <2> QED
    BY <1>3, <2>1, <2>2 DEF HardwareStep
<1>4. CASE WriterStep \/ SpuriousWakeup
  BY <1>4 DEF WriterStep, test_running, cond_wait, SpuriousWakeup, test_eos, test_audio_finished,
     WriterMoves, OMX_FillThisBuffer, write_audio_frame, write_video_frame, FinishInv, demux,
     queues, ports, pipe
<1>5. CASE main_cleanup \/ UNCHANGED vars
  BY <1>5 DEF main_cleanup, vars, notDemux, FinishInv, demux, queues, ports, pipe, writer
<1> QED
  BY <1>1, <1>2, <1>3, <1>4, <1>5 DEF Next, ProgramStep

LEMMA FinishInvHolds == Spec => []FinishInv
BY InitFinishInv, NextFinishInv, InvariantHolds, PTL DEF Spec

\* The list of stalls is complete, for every file and every number of buffers.
THEOREM KnownStallsHolds == Spec => []KnownStalls
<1>1. ASSUME IInv, FinishInv PROVE KnownStalls
  <2> SUFFICES ASSUME Stalled, ~(decode_pc = "get" /\ video_finished),
                      ~(writer_pc = "waiting" /\ is_running),
                      ~(writer_pc = "waiting" /\ decode_pc = "exited"),
                      ~(demux_pc = "audio" /\ decode_pc = "get"
                          /\ writer_pc \in {"waiting", "fill"}),
                      ~(decode_pc = "input_wait" /\ in_decoder = NInBuffers /\ ~is_running),
                      ~(decode_pc = "input_wait" /\ in_decoder < NInBuffers)
               PROVE  writer_pc = "fill" /\ eos /\ out_free = 0
    BY DEF KnownStalls
  <2>1. decode_pc = "get" => demux_pc # "video"
    <3>1. input_video_queue = <<>> => ~(Len(input_video_queue) > MaxQueue)
      BY SizesAssumption
    <3> QED
      BY <3>1 DEF Stalled, DemuxBlocked, DecodeBlocked
  <2>2. writer_pc # "exited"
    BY <1>1 DEF Stalled, FinishInv, IInv, DecodeInv
  <2>3. demux_pc = "exited" => video_finished
    BY <1>1 DEF IInv, DemuxInv
  <2>0. decode_pc = "input_wait" => in_decoder = NInBuffers /\ is_running
    BY <1>1, SizesAssumption DEF IInv, TypeOK
  <2>4. writer_pc # "waiting"
    BY <2>0, <2>1, <2>3 DEF Stalled, DemuxBlocked, DecodeBlocked
  <2>5. writer_pc = "fill" /\ out_free = 0
    BY <2>2, <2>4 DEF Stalled, WriterBlocked
  <2>6. "video_encode" \in configured /\ out_given > 0
    <3>1. StartedOnlyConfigured
      BY <1>1 DEF IInv, TypeOK, PortsInv, BuffersInv, StartInv, StartedOnlyConfigured, Components
    <3>2. "video_encode" \in configured /\ out_free + out_given = NOutBuffers
      BY <2>5, <3>1 DEF StartedOnlyConfigured, Started, Components
    <3> QED
      BY <1>1, <2>5, <3>2, SizesAssumption, Numbers DEF IInv
  <2>7. in_pipe = 0 /\ in_decoder = 0
    BY <1>1, <2>6, SizesAssumption, Numbers DEF Stalled, HardwareIdle, IInv
  <2>8. decode_pc = "exited"
    BY <2>0, <2>1, <2>3, <2>5, <2>7, SizesAssumption DEF Stalled, DemuxBlocked, DecodeBlocked
  <2>9. eos
    BY <1>1, <2>6, <2>7, <2>8 DEF Stalled, HardwareIdle, IInv, DecodeInv
  <2> QED
    BY <2>5, <2>9
<1> QED
  BY <1>1, InvariantHolds, FinishInvHolds, PTL

-----------------------------------------------------------------------------
(* That it stops *)

LEMMA BitType == \A b : Bit(b) \in {0, 1}
BY DEF Bit

\* No more packets are taken than there are.
LEMMA TakenBound ==
  ASSUME IInv
  PROVE  /\ Len(fed) \in Nat /\ Len(current_packet) \in {0, 1}
         /\ Len(fed) + Len(current_packet) <= Videos
<1>1. Len(fed) \in Nat /\ Len(current_packet) \in {0, 1} /\ Len(fed) <= Videos
  BY Numbers, CurrentFacts DEF IInv, FramesInv
<1>2. CASE current_packet = <<>>
  BY <1>1, <1>2
<1>3. CASE current_packet # <<>>
  <2>1. main_pc = "join"
    BY <1>3 DEF IInv, EndInv, DecodeInv, TypeOK
  <2>2. fed \o (current_packet \o input_video_queue) = [k \in 1..Queued |-> k]
    BY <2>1 DEF IInv, FedInOrder
  <2>3. Queued \in Nat /\ Queued <= Videos
    BY SizesAssumption DEF Queued, IInv, TypeOK, DemuxInv
  <2>4. fed \in Seq(1..Videos) /\ current_packet \in Seq(1..Videos)
        /\ input_video_queue \in Seq(1..Videos)
    BY CurrentFacts DEF IInv, TypeOK
  <2>5. Len(fed) + (Len(current_packet) + Len(input_video_queue)) = Queued
    BY <2>2, <2>3, <2>4, ConcatType, CountLen
  <2>6. Len(input_video_queue) \in Nat
    BY <2>4, LenNat
  <2> QED
    BY <1>1, <2>3, <2>5, <2>6, SizesAssumption
<1> QED
  BY <1>2, <1>3

LEMMA DemuxTurns ==
  /\ DemuxTurn["read"] = 2 /\ DemuxTurn["video"] = 4 /\ DemuxTurn["audio"] = 4
  /\ DemuxTurn["add_video"] = 3 /\ DemuxTurn["add_audio"] = 3
  /\ DemuxTurn["finish_audio"] = 1 /\ DemuxTurn["exited"] = 0
BY DEF DemuxTurn

LEMMA DecodeTurns ==
  /\ DecodeTurn["input_wait"] = 10 /\ DecodeTurn["get_buffer"] = 9
  /\ DecodeTurn["none"] = 8 /\ DecodeTurn["deinterlacer"] = 8
  /\ DecodeTurn["encoder"] = 7 /\ DecodeTurn["running"] = 6
  /\ DecodeTurn["empty_buffer"] = 5 /\ DecodeTurn["test_count"] = 4
  /\ DecodeTurn["test_finished"] = 3 /\ DecodeTurn["get"] = 2
  /\ DecodeTurn["eos_buffer"] = 1 /\ DecodeTurn["exited"] = 0
BY DEF DecodeTurn

LEMMA WriterTurns ==
  /\ WriterTurn["test_running"] = 6 /\ WriterTurn["to_wait"] = 5
  /\ WriterTurn["waiting"] = 4 /\ WriterTurn["audio"] = 5 /\ WriterTurn["video"] = 4
  /\ WriterTurn["test_eos"] = 3 /\ WriterTurn["test_audio_finished"] = 2
  /\ WriterTurn["fill"] = 1 /\ WriterTurn["exited"] = 0
BY DEF WriterTurn

LEMMA DemuxWorkType == IInv => DemuxWork \in Nat
<1> SUFFICES ASSUME IInv PROVE DemuxWork \in Nat
  OBVIOUS
<1>1. DemuxTurn[demux_pc] \in Nat
  <2>1. demux_pc \in {"read", "video", "add_video", "audio", "add_audio", "finish_audio",
                    "exited"}
    BY DEF IInv, TypeOK
  <2> QED
    BY <2>1, DemuxTurns
<1>2. Videos - videos_read \in Nat /\ Audios - audios_read \in Nat
  BY DEF IInv, TypeOK
<1> QED
  BY <1>1, <1>2 DEF DemuxWork

LEMMA DecodeWorkType == IInv => DecodeWork \in Nat
<1> SUFFICES ASSUME IInv PROVE DecodeWork \in Nat
  OBVIOUS
<1>1. DecodeTurn[decode_pc] \in Nat
  <2>1. decode_pc \in {"test_count", "test_finished", "get", "get_buffer", "none",
                     "input_wait", "deinterlacer", "encoder", "running", "empty_buffer",
                     "eos_buffer", "exited"}
    BY DEF IInv, TypeOK
  <2> QED
    BY <2>1, DecodeTurns
<1>2. Videos - (Len(fed) + Len(current_packet)) \in Nat
  BY TakenBound
<1>3. Bit(Looping) \in Nat
  BY DEF Bit
<1> QED
  BY <1>1, <1>2, <1>3 DEF DecodeWork

LEMMA CallbackTurns ==
  CallbackTurn["test"] = 5 /\ CallbackTurn["set"] = 4 /\ CallbackTurn["none"] = 0
BY DEF CallbackTurn

LEMMA CallbackWorkType == IInv => CallbackWork \in Nat
<1> SUFFICES ASSUME IInv PROVE CallbackWork \in Nat
  OBVIOUS
<1>1. callback \in {"none", "test", "set"} /\ buf_in_notempty \in {0, 1}
  BY DEF IInv, TypeOK
<1> QED
  BY <1>1, CallbackTurns DEF CallbackWork

LEMMA HardwareWorkType == IInv => HardwareWork \in Nat
<1> SUFFICES ASSUME IInv PROVE HardwareWork \in Nat
  OBVIOUS
<1>1. (Videos - Len(fed)) + in_decoder \in Nat /\ in_pipe \in Nat
  BY TakenBound, Numbers DEF IInv
<1>2. Bit(~eos) \in Nat /\ Bit("video_decode" \notin announced) \in Nat
      /\ Bit("image_fx" \notin announced) \in Nat /\ Bit("video_encode" \notin announced) \in Nat
  BY DEF Bit
<1>3. CallbackWork \in Nat
  BY CallbackWorkType
<1> DEFINE filled  == 13 * ((Videos - Len(fed)) + in_decoder)
           further == 7 * in_pipe
<1>4. filled \in Nat /\ further \in Nat
  BY <1>1
<1>5. HardwareWork = filled + further + CallbackWork + Bit(~eos)
                       + Bit("video_decode" \notin announced) + Bit("image_fx" \notin announced)
                       + Bit("video_encode" \notin announced)
  BY Zenon DEF HardwareWork
<1> HIDE DEF filled, further
<1> QED
  BY <1>2, <1>3, <1>4, <1>5

LEMMA WriterTurnType == IInv => WriterTurn[writer_pc] \in Nat
<1>1. IInv => writer_pc \in {"test_running", "to_wait", "waiting", "test_eos",
                            "test_audio_finished", "fill", "audio", "video", "exited"}
  BY DEF IInv, TypeOK
<1> QED
  BY <1>1, WriterTurns

LEMMA WriterWorkType == IInv => WriterWork \in Nat
<1> SUFFICES ASSUME IInv PROVE WriterWork \in Nat
  OBVIOUS
<1>1. WriterTurn[writer_pc] \in Nat
  BY WriterTurnType
<1>2. (IF "video_encode" \in configured THEN out_free ELSE NOutBuffers) \in Nat
  BY Numbers DEF IInv
<1>3. Bit(~is_running) \in Nat
  BY DEF Bit
<1> QED
  BY <1>1, <1>2, <1>3 DEF WriterWork

PartsType ==
  DemuxWork \in Nat /\ DecodeWork \in Nat /\ HardwareWork \in Nat /\ WriterWork \in Nat

LEMMA PartsTypeHolds == IInv => PartsType
BY DemuxWorkType, DecodeWorkType, HardwareWorkType, WriterWorkType DEF PartsType

LEMMA WorkType == IInv => Work \in Nat
<1>1. MainWork \in Nat
  BY DEF MainWork, Bit
<1> QED
  BY <1>1, PartsTypeHolds DEF Work, PartsType

\* A part of the work is as it was if nothing it counts has changed.
LEMMA DemuxWorkKept ==
  ASSUME UNCHANGED demux
  PROVE  DemuxWork' = DemuxWork
BY DEF DemuxWork

LEMMA DecodeWorkKept ==
  ASSUME UNCHANGED decode
  PROVE  DecodeWork' = DecodeWork
BY DEF DecodeWork, Looping

LEMMA HardwareWorkKept ==
  ASSUME UNCHANGED <<fed, announced, pipe>>
  PROVE  HardwareWork' = HardwareWork
BY DEF HardwareWork, CallbackWork

LEMMA WriterWorkKept ==
  ASSUME UNCHANGED <<configured, is_running, out_free, writer_pc>>
  PROVE  WriterWork' = WriterWork
BY DEF WriterWork

LEMMA AddsUp ==
  ASSUME NEW a \in Nat, NEW b \in Nat, NEW c \in Nat, NEW d \in Nat, NEW m \in Nat,
         NEW a1 \in Nat, NEW b1 \in Nat, NEW c1 \in Nat, NEW d1 \in Nat,
         a1 + b1 + c1 + d1 < a + b + c + d
  PROVE  a1 + b1 + c1 + d1 + m < a + b + c + d + m
OBVIOUS

\* Work is used up where the parts together are.
LEMMA WorkSums ==
  ASSUME IInv, IInv', UNCHANGED main_pc,
         DemuxWork' + DecodeWork' + HardwareWork' + WriterWork'
           < DemuxWork + DecodeWork + HardwareWork + WriterWork
  PROVE  Work' < Work
<1>1. MainWork \in Nat /\ MainWork' = MainWork
  BY DEF MainWork, Bit
<1>2. PartsType /\ PartsType'
  BY PartsTypeHolds, PTL
<1>3. DemuxWork \in Nat /\ DecodeWork \in Nat /\ HardwareWork \in Nat /\ WriterWork \in Nat
  BY <1>2 DEF PartsType
<1>4. DemuxWork' \in Nat /\ DecodeWork' \in Nat /\ HardwareWork' \in Nat /\ WriterWork' \in Nat
  BY <1>2 DEF PartsType
<1> QED
  BY <1>1, <1>3, <1>4, AddsUp DEF Work

LEMMA OneIsLess ==
  ASSUME NEW a \in Nat, NEW b \in Nat, NEW c \in Nat, NEW d \in Nat,
         NEW a1 \in Nat, NEW b1 \in Nat, NEW c1 \in Nat, NEW d1 \in Nat,
         a1 <= a, b1 <= b, c1 <= c, d1 <= d, a1 < a \/ b1 < b \/ c1 < c \/ d1 < d
  PROVE  a1 + b1 + c1 + d1 < a + b + c + d
OBVIOUS

\* Or where one part is and no other grows.
LEMMA WorkFalls ==
  ASSUME IInv, IInv', UNCHANGED main_pc,
         DemuxWork' = DemuxWork \/ DemuxWork' < DemuxWork,
         DecodeWork' = DecodeWork \/ DecodeWork' < DecodeWork,
         HardwareWork' = HardwareWork \/ HardwareWork' < HardwareWork,
         WriterWork' = WriterWork \/ WriterWork' < WriterWork,
         \/ DemuxWork' < DemuxWork \/ DecodeWork' < DecodeWork
         \/ HardwareWork' < HardwareWork \/ WriterWork' < WriterWork
  PROVE  Work' < Work
<1>1. PartsType /\ PartsType'
  BY PartsTypeHolds, PTL
<1>2. DemuxWork \in Nat /\ DecodeWork \in Nat /\ HardwareWork \in Nat /\ WriterWork \in Nat
  BY <1>1 DEF PartsType
<1>3. DemuxWork' \in Nat /\ DecodeWork' \in Nat /\ HardwareWork' \in Nat /\ WriterWork' \in Nat
  BY <1>1 DEF PartsType
<1>4. DemuxWork' <= DemuxWork /\ DecodeWork' <= DecodeWork /\ HardwareWork' <= HardwareWork
      /\ WriterWork' <= WriterWork
  BY <1>2, <1>3
<1>5. DemuxWork' + DecodeWork' + HardwareWork' + WriterWork'
        < DemuxWork + DecodeWork + HardwareWork + WriterWork
  BY <1>2, <1>3, <1>4, OneIsLess
<1> QED
  BY <1>5, WorkSums

LEMMA DemuxUsesUp ==
  ASSUME IInv, IInv', DemuxStep
  PROVE  Work' < Work
<1>1. UNCHANGED main_pc /\ DecodeWork' = DecodeWork /\ HardwareWork' = HardwareWork
      /\ WriterWork' = WriterWork
  <2>1. UNCHANGED notDemux
    BY DEF DemuxStep, av_read_frame, wait_video, add_video, wait_audio, add_audio, DemuxMoves,
       finish_video, FinishVideo,
       finish_audio
  <2> QED
    BY <2>1, DecodeWorkKept, HardwareWorkKept, WriterWorkKept
<1>2. DemuxWork' < DemuxWork
  <2> USE DemuxTurns DEF DemuxWork
  <2>1. videos_read \in Nat /\ audios_read \in Nat
    BY Numbers DEF IInv
  <2>2. CASE av_read_frame
    BY <2>1, <2>2 DEF av_read_frame
  <2>3. CASE add_video
    BY <2>1, <2>3 DEF add_video
  <2>7. CASE wait_video \/ wait_audio
    BY <2>1, <2>7 DEF wait_video, wait_audio, DemuxMoves
  <2>4. CASE add_audio
    BY <2>1, <2>4 DEF add_audio
  <2>5. CASE finish_video
    BY <2>1, <2>5 DEF finish_video, FinishVideo
  <2>6. CASE finish_audio
    BY <2>1, <2>6 DEF finish_audio
  <2> QED
    BY <2>2, <2>3, <2>4, <2>5, <2>6, <2>7 DEF DemuxStep
<1> QED
  BY <1>1, <1>2, WorkFalls

\* The steps of decode_thread that only decide where to go on.
LEMMA DecodeMovesUseUp ==
  ASSUME IInv, IInv', NEW from, NEW to, DecodeMoves(from, to),
         {from, to} \subseteq {"test_count", "test_finished", "get"}
           \/ {from, to} \cap {"test_count", "test_finished", "get"} = {},
         DecodeTurn[from] \in Nat, DecodeTurn[to] \in Nat, DecodeTurn[to] < DecodeTurn[from]
  PROVE  Work' < Work
<1>1. UNCHANGED main_pc /\ DemuxWork' = DemuxWork /\ HardwareWork' = HardwareWork
      /\ WriterWork' = WriterWork
  BY DemuxWorkKept, HardwareWorkKept, WriterWorkKept DEF DecodeMoves
<1>2. DecodeWork' < DecodeWork
  <2>1. Looping' = Looping
    BY DEF DecodeMoves, Looping
  <2>2. Bit(Looping') = Bit(Looping) /\ Bit(Looping) \in Nat
    BY <2>1 DEF Bit
  <2> QED
    BY <2>2, TakenBound DEF DecodeMoves, DecodeWork
<1> QED
  BY <1>1, <1>2, WorkFalls

LEMMA DecodeUsesUp ==
  ASSUME IInv, IInv', FinishInv, DecodeStep
  PROVE  Work' < Work
<1> USE DecodeTurns
<1>1. CASE test_count
  BY <1>1, DecodeMovesUseUp DEF test_count
<1>2. CASE test_finished
  <2>1. CASE video_finished
    <3>1. UNCHANGED main_pc /\ DemuxWork' = DemuxWork /\ HardwareWork' = HardwareWork
          /\ WriterWork' = WriterWork
      BY <1>2, DemuxWorkKept, HardwareWorkKept, WriterWorkKept DEF test_finished, DecodeMoves
    <3>2. DecodeWork' < DecodeWork
      <4>1. decode_pc = "test_finished" /\ decode_pc' = "get_buffer" /\ current_packet = <<>>
            /\ UNCHANGED <<fed, current_packet>>
        BY <1>2, <2>1 DEF test_finished, DecodeMoves, IInv, DecodeInv
      <4>2. Bit(Looping) = 1 /\ Bit(Looping') = 0
        BY <4>1 DEF Looping, Bit
      <4> QED
        BY <4>1, <4>2, TakenBound DEF DecodeWork
    <3> QED
      BY <3>1, <3>2, WorkFalls
  <2>2. CASE ~video_finished
    BY <1>2, <2>2, DecodeMovesUseUp DEF test_finished
  <2> QED
    BY <2>1, <2>2
<1>3. CASE get_next_input_buffer
  <2>1. CASE in_decoder = NInBuffers
    BY <1>3, <2>1, DecodeMovesUseUp DEF get_next_input_buffer
  <2>2. CASE in_decoder # NInBuffers /\ current_packet = <<>>
    BY <1>3, <2>2, DecodeMovesUseUp DEF get_next_input_buffer
  <2>3. CASE in_decoder # NInBuffers /\ current_packet # <<>>
    <3>1. DecodeMoves("get_buffer", "deinterlacer")
      BY <1>3, <2>3 DEF get_next_input_buffer
    <3> QED
      BY <3>1, DecodeMovesUseUp
  <2> QED
    BY <2>1, <2>2, <2>3
<1>10. CASE get_buffer_wait
  BY <1>10, DecodeMovesUseUp DEF get_buffer_wait
<1>11. CASE get_buffer_none
  <2>1. UNCHANGED main_pc /\ DemuxWork' = DemuxWork /\ WriterWork' = WriterWork
    BY <1>11, DemuxWorkKept, WriterWorkKept DEF get_buffer_none
  <2>2. DecodeWork' = DecodeWork + 2
    <3>1. Looping' = Looping
      BY <1>11 DEF get_buffer_none, Looping
    <3>2. Bit(Looping') = Bit(Looping) /\ Bit(Looping) \in Nat
      BY <3>1 DEF Bit
    <3> QED
      BY <1>11, <3>2, TakenBound DEF get_buffer_none, DecodeWork
  <2>3. HardwareWork = HardwareWork' + 3
    <3>1. buf_in_notempty = 1 /\ buf_in_notempty' = 0 /\ callback' = callback
      BY <1>11 DEF get_buffer_none, IInv, TypeOK, DecodeInv
    <3>0. callback \in {"none", "test", "set"}
      BY DEF IInv, TypeOK
    <3>2. CallbackTurn[callback] \in Nat
      BY <3>0, CallbackTurns
    <3>3. CallbackWork = CallbackWork' + 3 /\ CallbackWork' \in Nat
      BY <3>1, <3>2 DEF CallbackWork
    <3>4. UNCHANGED <<fed, in_decoder, in_pipe, eos, announced>>
      BY <1>11 DEF get_buffer_none
    <3>5. in_decoder \in Nat /\ in_pipe \in Nat /\ Len(fed) \in Nat
      BY Numbers DEF IInv
    <3>6. Bit(~eos) \in Nat /\ Bit("video_decode" \notin announced) \in Nat
          /\ Bit("image_fx" \notin announced) \in Nat
          /\ Bit("video_encode" \notin announced) \in Nat
      BY DEF Bit
    <3> DEFINE filled  == 13 * ((Videos - Len(fed)) + in_decoder)
               further == 7 * in_pipe
    <3>7. filled \in Nat /\ further \in Nat
      BY <3>5, TakenBound
    <3>8. HardwareWork = filled + further + CallbackWork + Bit(~eos)
                           + Bit("video_decode" \notin announced)
                           + Bit("image_fx" \notin announced)
                           + Bit("video_encode" \notin announced)
      BY Zenon DEF HardwareWork
    <3>10. HardwareWork' = filled + further + CallbackWork' + Bit(~eos)
                            + Bit("video_decode" \notin announced)
                            + Bit("image_fx" \notin announced)
                            + Bit("video_encode" \notin announced)
      BY <3>4 DEF HardwareWork
    <3> HIDE DEF filled, further
    <3>9. \A x, y, w, e, b1, b2, b3 \in Nat :
            x + y + (w + 3) + e + b1 + b2 + b3 = (x + y + w + e + b1 + b2 + b3) + 3
      OBVIOUS
    <3> QED
      BY <3>3, <3>6, <3>7, <3>8, <3>9, <3>10
  <2>4. PartsType /\ PartsType'
    BY PartsTypeHolds, PTL
  <2>5. \A a, b, c, d \in Nat : a + (b + 2) + c + d < a + b + (c + 3) + d
    OBVIOUS
  <2>6. DemuxWork' + DecodeWork' + HardwareWork' + WriterWork'
          < DemuxWork + DecodeWork + HardwareWork + WriterWork
    BY <2>1, <2>2, <2>3, <2>4, <2>5 DEF PartsType
  <2> QED
    BY <2>1, <2>6, WorkSums
<1>4. CASE get_next_item
  <2>1. UNCHANGED main_pc /\ DemuxWork' = DemuxWork /\ HardwareWork' = HardwareWork
        /\ WriterWork' = WriterWork
    BY <1>4, DemuxWorkKept, HardwareWorkKept, WriterWorkKept DEF get_next_item
  <2>2. DecodeWork' < DecodeWork
    <3>1. current_packet = <<>> /\ Len(current_packet') = 1 /\ fed' = fed
          /\ decode_pc = "get" /\ decode_pc' = "get_buffer" /\ current_packet' # <<>>
      BY <1>4 DEF get_next_item, IInv, DecodeInv
    <3>2. Bit(Looping) = 1 /\ Bit(Looping') = 1
      BY <3>1 DEF Looping, Bit
    <3> QED
      BY <3>1, <3>2, TakenBound DEF DecodeWork
  <2> QED
    BY <2>1, <2>2, WorkFalls
<1>5. CASE configure_deinterlacer
  <2>1. UNCHANGED main_pc /\ DemuxWork' = DemuxWork /\ HardwareWork' = HardwareWork
    BY <1>5, DemuxWorkKept, HardwareWorkKept DEF configure_deinterlacer
  <2>2. WriterWork' = WriterWork
    BY <1>5 DEF configure_deinterlacer, WriterWork
  <2>3. DecodeWork' < DecodeWork
    <3>1. Looping' = Looping
      BY <1>5 DEF configure_deinterlacer, Looping
    <3>2. Bit(Looping') = Bit(Looping) /\ Bit(Looping) \in Nat
      BY <3>1 DEF Bit
    <3> QED
      BY <1>5, <3>2, TakenBound DEF configure_deinterlacer, DecodeWork
  <2> QED
    BY <2>1, <2>2, <2>3, WorkFalls
<1>6. CASE configure_encoder
  <2>1. UNCHANGED main_pc /\ DemuxWork' = DemuxWork /\ HardwareWork' = HardwareWork
    BY <1>6, DemuxWorkKept, HardwareWorkKept DEF configure_encoder
  <2>2. WriterWork' = WriterWork
    BY <1>6 DEF configure_encoder, WriterWork, IInv, PortsInv
  <2>3. DecodeWork' < DecodeWork
    <3>1. Looping' = Looping
      BY <1>6 DEF configure_encoder, Looping
    <3>2. Bit(Looping') = Bit(Looping) /\ Bit(Looping) \in Nat
      BY <3>1 DEF Bit
    <3> QED
      BY <1>6, <3>2, TakenBound DEF configure_encoder, DecodeWork
  <2> QED
    BY <2>1, <2>2, <2>3, WorkFalls
<1>7. CASE start_writer
  <2>1. UNCHANGED main_pc /\ DemuxWork' = DemuxWork /\ HardwareWork' = HardwareWork
    BY <1>7, DemuxWorkKept, HardwareWorkKept DEF start_writer, StartWriter
  <2>2. WriterWork' = WriterWork \/ WriterWork' < WriterWork
    <3>1. CASE port_settings_changed["video_encode"]
      <4>1. is_running = FALSE /\ is_running' = TRUE /\ UNCHANGED <<configured, out_free>>
        BY <1>7, <3>1 DEF start_writer, StartWriter, FinishInv, IInv, TypeOK
      <4>2. (IF "video_encode" \in configured THEN out_free ELSE NOutBuffers) \in Nat
        BY Numbers DEF IInv
      <4>3. CASE writer_pc = "waiting"
        <5>1. writer_pc' = "test_running"
          BY <1>7, <3>1, <4>3 DEF start_writer, StartWriter
        <5> QED
          BY <4>1, <4>2, <4>3, <5>1, WriterTurns DEF WriterWork, Bit
      <4>4. CASE writer_pc # "waiting"
        <5>1. writer_pc' = writer_pc
          BY <1>7, <3>1, <4>4 DEF start_writer, StartWriter
        <5>2. WriterTurn[writer_pc] \in Nat
          BY WriterTurnType
        <5> QED
          BY <4>1, <4>2, <5>1, <5>2 DEF WriterWork, Bit
      <4> QED
        BY <4>3, <4>4
    <3>2. CASE ~port_settings_changed["video_encode"]
      BY <1>7, <3>2, WriterWorkKept DEF start_writer, StartWriter
    <3> QED
      BY <3>1, <3>2
  <2>3. DecodeWork' < DecodeWork
    <3>1. UNCHANGED current_packet /\ decode_pc = "running" /\ decode_pc' = "empty_buffer"
      BY <1>7 DEF start_writer, StartWriter
    <3>2. Looping' = Looping
      BY <3>1 DEF Looping
    <3>3. Bit(Looping') = Bit(Looping) /\ Bit(Looping) \in Nat
      BY <3>2 DEF Bit
    <3> QED
      BY <1>7, <3>1, <3>3, TakenBound DEF start_writer, StartWriter, DecodeWork
  <2> QED
    BY <2>1, <2>2, <2>3, WorkFalls
<1>8. CASE OMX_EmptyThisBuffer
  <2>1. UNCHANGED main_pc /\ DemuxWork' = DemuxWork /\ WriterWork' = WriterWork
    BY <1>8, DemuxWorkKept, WriterWorkKept DEF OMX_EmptyThisBuffer
  <2>2. Len(current_packet) = 1 /\ Len(current_packet') = 0 /\ Len(fed') = Len(fed) + 1
    <3>1. current_packet \in Seq(1..Videos) /\ Len(current_packet) = 1
          /\ current_packet' = <<>> /\ fed' = fed \o current_packet
      BY <1>8, CurrentFacts DEF OMX_EmptyThisBuffer, IInv, DecodeInv
    <3>2. fed \in Seq(1..Videos)
      BY DEF IInv, TypeOK
    <3> QED
      BY <3>1, <3>2, ConcatType
  <2>3. DecodeWork' < DecodeWork
    <3>1. Bit(Looping) = 1 /\ Bit(Looping') = 1
      BY <1>8 DEF OMX_EmptyThisBuffer, IInv, DecodeInv, Looping, Bit
    <3> QED
      BY <1>8, <2>2, <3>1, TakenBound DEF OMX_EmptyThisBuffer, DecodeWork
  <2>4. HardwareWork' = HardwareWork
    <3>1. in_decoder \in Nat /\ Len(fed) \in Nat
      BY Numbers DEF IInv
    <3>2. (Videos - Len(fed')) + in_decoder' = (Videos - Len(fed)) + in_decoder
      BY <1>8, <2>2, <3>1 DEF OMX_EmptyThisBuffer
    <3> QED
      BY <1>8, <3>2 DEF OMX_EmptyThisBuffer, HardwareWork, CallbackWork
  <2> QED
    BY <2>1, <2>3, <2>4, WorkFalls
<1>9. CASE send_eos
  <2>1. UNCHANGED main_pc /\ DemuxWork' = DemuxWork /\ WriterWork' = WriterWork
    BY <1>9, DemuxWorkKept, WriterWorkKept DEF send_eos
  <2>2. HardwareWork' = HardwareWork
    BY <1>9 DEF send_eos, HardwareWork, CallbackWork
  <2>3. DecodeWork' < DecodeWork
    <3>1. Looping' = Looping
      BY <1>9 DEF send_eos, Looping
    <3>2. Bit(Looping') = Bit(Looping) /\ Bit(Looping) \in Nat
      BY <3>1 DEF Bit
    <3> QED
      BY <1>9, <3>2, TakenBound DEF send_eos, DecodeWork
  <2> QED
    BY <2>1, <2>2, <2>3, WorkFalls
<1> QED
  BY <1>1, <1>2, <1>3, <1>4, <1>5, <1>6, <1>7, <1>8, <1>9, <1>10, <1>11 DEF DecodeStep

LEMMA HardwareUsesUp ==
  ASSUME IInv, IInv', HardwareStep
  PROVE  Work' < Work
<1>0. in_decoder \in Nat /\ in_pipe \in Nat /\ Len(fed) \in Nat /\ out_free \in Nat
  BY Numbers DEF IInv
<1>1. Bit(~eos) \in Nat /\ Bit("video_decode" \notin announced) \in Nat
      /\ Bit("image_fx" \notin announced) \in Nat /\ Bit("video_encode" \notin announced) \in Nat
  BY DEF Bit
<1>2. ASSUME NEW c \in Components, omx_event_handler_port(c)
      PROVE  Work' < Work
  <2>1. UNCHANGED main_pc /\ DemuxWork' = DemuxWork /\ DecodeWork' = DecodeWork
        /\ WriterWork' = WriterWork
    BY <1>2, DemuxWorkKept, DecodeWorkKept, WriterWorkKept DEF omx_event_handler_port
  <2>2. UNCHANGED <<fed, pipe>> /\ announced' = announced \cup {c} /\ c \notin announced
    BY <1>2 DEF omx_event_handler_port
  <2>3. HardwareWork' < HardwareWork
    <3>0. CallbackWork' = CallbackWork /\ CallbackWork \in Nat
      BY <2>2, CallbackWorkType DEF CallbackWork
    <3>1. CASE c = "video_decode"
      BY <1>0, <1>1, <2>2, <3>0, <3>1 DEF HardwareWork, Bit
    <3>2. CASE c = "image_fx"
      BY <1>0, <1>1, <2>2, <3>0, <3>2 DEF HardwareWork, Bit
    <3>3. CASE c = "video_encode"
      BY <1>0, <1>1, <2>2, <3>0, <3>3 DEF HardwareWork, Bit
    <3> QED
      BY <1>2, <3>1, <3>2, <3>3 DEF Components
  <2> QED
    BY <2>1, <2>3, WorkFalls
<1>3. CASE decoder_consume
  <2>1. UNCHANGED main_pc /\ DemuxWork' = DemuxWork /\ DecodeWork' = DecodeWork
        /\ WriterWork' = WriterWork
    BY <1>3, DemuxWorkKept, DecodeWorkKept, WriterWorkKept DEF decoder_consume
  <2>2. HardwareWork' < HardwareWork
    <3>1. buf_in_notempty \in {0, 1}
      BY DEF IInv, TypeOK
    <3>2. CallbackWork' = CallbackWork + 5 /\ CallbackWork \in Nat
      BY <1>3, <3>1, CallbackTurns DEF decoder_consume, CallbackWork
    <3> QED
      BY <1>0, <1>1, <1>3, <3>2 DEF decoder_consume, HardwareWork
  <2> QED
    BY <2>1, <2>2, WorkFalls
<1>6. CASE empty_buffer_done_test \/ empty_buffer_done_set
  <2>1. UNCHANGED main_pc /\ DemuxWork' = DemuxWork /\ DecodeWork' = DecodeWork
        /\ WriterWork' = WriterWork
    BY <1>6, DemuxWorkKept, DecodeWorkKept, WriterWorkKept
    DEF empty_buffer_done_test, empty_buffer_done_set, Callback
  <2>2. CallbackWork' < CallbackWork
    <3>1. CASE empty_buffer_done_test
      BY <3>1, CallbackTurns DEF empty_buffer_done_test, Callback, CallbackWork, IInv, TypeOK
    <3>2. CASE empty_buffer_done_set
      BY <3>2, CallbackTurns
      DEF empty_buffer_done_set, Callback, CallbackWork, IInv, TypeOK, DecodeInv
    <3> QED
      BY <1>6, <3>1, <3>2
  <2>3. UNCHANGED <<fed, in_decoder, in_pipe, eos, announced>>
    BY <1>6 DEF empty_buffer_done_test, empty_buffer_done_set, Callback
  <2>4. CallbackWork \in Nat /\ (CallbackWork \in Nat)'
    BY CallbackWorkType, PTL
  <2>5. HardwareWork' < HardwareWork
    BY <1>0, <1>1, <2>2, <2>3, <2>4 DEF HardwareWork
  <2> QED
    BY <2>1, <2>5, WorkFalls
<1>4. CASE omx_encoder_fill_buffer_done
  <2>1. UNCHANGED main_pc /\ DemuxWork' = DemuxWork /\ DecodeWork' = DecodeWork
    BY <1>4, DemuxWorkKept, DecodeWorkKept DEF omx_encoder_fill_buffer_done
  <2>2. HardwareWork = HardwareWork' + 7
    <3>1. CallbackWork' = CallbackWork /\ CallbackWork \in Nat
      BY <1>4, CallbackWorkType DEF omx_encoder_fill_buffer_done, CallbackWork
    <3> QED
      BY <1>0, <1>1, <1>4, <3>1 DEF omx_encoder_fill_buffer_done, HardwareWork
  <2>3. WriterWork' = WriterWork + 6
    <3>1. WriterTurn[writer_pc] \in Nat /\ Bit(~is_running) \in Nat
      BY WriterTurnType DEF Bit
    <3> QED
      BY <1>0, <1>4, <3>1 DEF omx_encoder_fill_buffer_done, WriterWork
  <2>4. PartsType /\ PartsType'
    BY PartsTypeHolds, PTL
  <2>5. \A a, b, c, d \in Nat : a + b + c + (d + 6) < a + b + (c + 7) + d
    OBVIOUS
  <2>6. DemuxWork' + DecodeWork' + HardwareWork' + WriterWork'
          < DemuxWork + DecodeWork + HardwareWork + WriterWork
    BY <2>1, <2>2, <2>3, <2>4, <2>5 DEF PartsType
  <2> QED
    BY <2>1, <2>6, WorkSums
<1>5. CASE omx_event_handler_eos
  <2>1. UNCHANGED main_pc /\ DemuxWork' = DemuxWork /\ DecodeWork' = DecodeWork
        /\ WriterWork' = WriterWork
    BY <1>5, DemuxWorkKept, DecodeWorkKept, WriterWorkKept DEF omx_event_handler_eos
  <2>2. HardwareWork' < HardwareWork
    <3>1. Bit(~eos) = 1 /\ Bit(~eos') = 0
      BY <1>5 DEF omx_event_handler_eos, Bit, IInv, TypeOK
    <3> QED
      BY <1>0, <1>1, <1>5, <3>1, CallbackWorkType
      DEF omx_event_handler_eos, HardwareWork, CallbackWork
  <2> QED
    BY <2>1, <2>2, WorkFalls
<1> QED
  BY <1>2, <1>3, <1>4, <1>5, <1>6 DEF HardwareStep

\* A step of writer_thread that changes nothing but its place.
LEMMA WriterTurnUsesUp ==
  ASSUME IInv, IInv', NEW from, NEW to, writer_pc = from, writer_pc' = to,
         WriterTurn[from] \in Nat, WriterTurn[to] \in Nat, WriterTurn[to] < WriterTurn[from],
         UNCHANGED <<demux, decode, announced, configured, is_running, pipe, out_free, main_pc>>
  PROVE  Work' < Work
<1>1. DemuxWork' = DemuxWork /\ DecodeWork' = DecodeWork /\ HardwareWork' = HardwareWork
  BY DemuxWorkKept, DecodeWorkKept, HardwareWorkKept
<1>2. WriterWork' < WriterWork
  <2>1. (IF "video_encode" \in configured THEN out_free ELSE NOutBuffers) \in Nat
    BY Numbers DEF IInv
  <2>2. Bit(~is_running) \in Nat
    BY DEF Bit
  <2> QED
    BY <2>1, <2>2 DEF WriterWork
<1> QED
  BY <1>1, <1>2, WorkFalls

LEMMA WriterUsesUp ==
  ASSUME IInv, IInv', WriterStep
  PROVE  Work' < Work
<1> USE WriterTurns
<1>1. CASE test_running
  BY <1>1, WriterTurnUsesUp DEF test_running, WriterMoves
<1>2. CASE cond_wait
  BY <1>2, WriterTurnUsesUp DEF cond_wait, WriterMoves
<1>3. CASE test_eos
  BY <1>3, WriterTurnUsesUp DEF test_eos, WriterMoves
<1>4. CASE test_audio_finished
  BY <1>4, WriterTurnUsesUp DEF test_audio_finished, WriterMoves
<1>5. CASE write_audio_frame
  BY <1>5, WriterTurnUsesUp DEF write_audio_frame
<1>6. CASE write_video_frame
  BY <1>6, WriterTurnUsesUp DEF write_video_frame
<1>7. CASE OMX_FillThisBuffer
  <2>1. UNCHANGED main_pc /\ DemuxWork' = DemuxWork /\ DecodeWork' = DecodeWork
        /\ HardwareWork' = HardwareWork
    BY <1>7, DemuxWorkKept, DecodeWorkKept, HardwareWorkKept DEF OMX_FillThisBuffer
  <2>2. WriterWork' < WriterWork
    <3>1. out_free \in Nat /\ "video_encode" \in configured
      BY <1>7, Numbers DEF OMX_FillThisBuffer, IInv, BuffersInv
    <3>2. Bit(~is_running) \in Nat
      BY DEF Bit
    <3> QED
      BY <1>7, <3>1, <3>2 DEF OMX_FillThisBuffer, WriterWork
  <2> QED
    BY <2>1, <2>2, WorkFalls
<1> QED
  BY <1>1, <1>2, <1>3, <1>4, <1>5, <1>6, <1>7 DEF WriterStep

LEMMA CleanupUsesUp ==
  ASSUME IInv, IInv', main_cleanup
  PROVE  Work' < Work
<1>1. DemuxWork' = DemuxWork /\ DecodeWork' = DecodeWork /\ HardwareWork' = HardwareWork
      /\ WriterWork' = WriterWork
  BY DemuxWorkKept, DecodeWorkKept, HardwareWorkKept, WriterWorkKept DEF main_cleanup
<1>2. MainWork = 1 /\ MainWork' = 0
  BY DEF main_cleanup, MainWork, Bit
<1>3. DemuxWork + DecodeWork + HardwareWork + WriterWork \in Nat
  BY PartsTypeHolds DEF PartsType
<1>4. \A n \in Nat : n + 0 < n + 1
  OBVIOUS
<1> QED
  BY <1>1, <1>2, <1>3, <1>4 DEF Work

LEMMA WakeupMakesTwo ==
  ASSUME IInv, IInv', SpuriousWakeup
  PROVE  Work' = Work + 2
<1>1. DemuxWork' = DemuxWork /\ DecodeWork' = DecodeWork /\ HardwareWork' = HardwareWork
      /\ MainWork' = MainWork
  BY DemuxWorkKept, DecodeWorkKept, HardwareWorkKept DEF SpuriousWakeup, WriterMoves, MainWork
<1>2. WriterWork' = WriterWork + 2
  <2>1. (IF "video_encode" \in configured THEN out_free ELSE NOutBuffers) \in Nat
    BY Numbers DEF IInv
  <2>2. Bit(~is_running) \in Nat
    BY DEF Bit
  <2> QED
    BY <2>1, <2>2, WriterTurns DEF SpuriousWakeup, WriterMoves, WriterWork
<1>3. MainWork \in Nat
  BY DEF MainWork, Bit
<1>4. \A a, b, c, d, m \in Nat : a + b + c + (d + 2) + m = (a + b + c + d + m) + 2
  OBVIOUS
<1> QED
  BY <1>1, <1>2, <1>3, <1>4, PartsTypeHolds DEF PartsType, Work

\* Every step of the three threads and of the hardware brings the program nearer to its
\* end or to a stall, but for a wake-up of the writer without a signal: no thread polls
\* without bound.
THEOREM WorkRunsOutHolds == Spec => WorkRunsOut
<1>1. IInv /\ IInv' /\ FinishInv /\ [Next]_vars => [UsesUpWork]_vars
  <2> SUFFICES ASSUME IInv, IInv', FinishInv, Next
               PROVE  UsesUpWork
    OBVIOUS
  <2>1. Work \in Nat
    BY WorkType
  <2>2. CASE SpuriousWakeup
    BY <2>1, <2>2, WakeupMakesTwo DEF UsesUpWork
  <2>3. CASE ProgramStep
    <3>1. Work' < Work
      BY <2>3, DemuxUsesUp, DecodeUsesUp, HardwareUsesUp, WriterUsesUp, CleanupUsesUp
      DEF ProgramStep
    <3> QED
      BY <2>1, <3>1 DEF UsesUpWork
  <2> QED
    BY <2>2, <2>3 DEF Next
<1> QED
  BY <1>1, InvariantHolds, FinishInvHolds, PTL DEF Spec, WorkRunsOut
=============================================================================
