-------------------------- MODULE WriterLoopProofs --------------------------
(***************************************************************************)
(* Proofs about the writer's loop for every number of buffers and every    *)
(* length of stream.  The invariant that carries them is Credit: a packet  *)
(* waiting in encoded_video_queue is paid for by a buffer that is on its   *)
(* way back to the writer, or by the poll the writer is about to make.     *)
(***************************************************************************)
EXTENDS WriterLoop, SequenceTheorems, TLAPS

\* Each waiting packet is covered by a buffer outside the encoder or by the
\* poll that ends the writer's turn.
Credit ==
  Len(encoded_video_queue)
    <= Len(out_buffers) + One(held) + One(returning) + AboutToPoll

\* The writer holds a buffer exactly between its two calls, and only sleeps in
\* omx_get_next_output_buffer.
HeldInv ==
  /\ held # NULL <=> wpc = "fill"
  /\ asleep => wpc = "get_buffer"

\* The packets written and waiting are the packets the encoder has emitted.
OrderInv == written \o encoded_video_queue = [i \in 1..produced |-> i]

\* A frame is encoded after it was fed, and fed after it was demuxed; the demuxer has a
\* packet in hand while it waits or adds; EOS is sent after the end of the input.
InputInv ==
  /\ produced <= fed /\ fed <= videos
  /\ dpc \in {"video", "add_video"} => videos < Frames
  /\ dpc \in {"audio", "add_audio"} => demuxed < Audio
  /\ feeding = "eos" => dpc \in {"video_finished", "done"}

IInv ==
  /\ TypeOK
  /\ BuffersAccounted
  /\ NoLostBufferWakeup
  /\ HeldInv
  /\ Credit
  /\ OrderInv
  /\ InputInv

USE DEF input, demux, audio, supply

-----------------------------------------------------------------------------
\* What Append, Tail and dropping the last element do to length and members.
LEMMA AppendFacts ==
  ASSUME NEW S, NEW s \in Seq(S), NEW e \in S
  PROVE  /\ Append(s, e) \in Seq(S)
         /\ Len(Append(s, e)) = Len(s) + 1
         /\ Append(s, e)[Len(s) + 1] = e
         /\ \A i \in 1..Len(s) : Append(s, e)[i] = s[i]
OBVIOUS

LEMMA TailFacts ==
  ASSUME NEW S, NEW s \in Seq(S), s # <<>>
  PROVE  /\ Tail(s) \in Seq(S)
         /\ Head(s) \in S
         /\ Head(s) = s[1]
         /\ Len(s) \in Nat \ {0}
         /\ Len(Tail(s)) = Len(s) - 1
         /\ \A i \in 1..(Len(s) - 1) : Tail(s)[i] = s[i + 1]
OBVIOUS

LEMMA DropLastFacts ==
  ASSUME NEW S, NEW s \in Seq(S), s # <<>>
  PROVE  /\ SubSeq(s, 1, Len(s) - 1) \in Seq(S)
         /\ Len(s) \in Nat \ {0}
         /\ Len(SubSeq(s, 1, Len(s) - 1)) = Len(s) - 1
         /\ \A i \in 1..(Len(s) - 1) : SubSeq(s, 1, Len(s) - 1)[i] = s[i]
         /\ s[Len(s)] \in S
<1>1. Len(s) \in Nat \ {0}
  OBVIOUS
<1>2. \A i \in 1..Len(s) : s[i] \in S
  OBVIOUS
<1> DEFINE n == Len(s) - 1
<1>3. n \in Nat /\ (\A i \in 1..n : s[i] \in S)
  BY <1>1, <1>2
<1> HIDE DEF n
<1>4. /\ SubSeq(s, 1, n) \in Seq(S)
      /\ Len(SubSeq(s, 1, n)) = IF 1 <= n THEN n - 1 + 1 ELSE 0
      /\ \A i \in 1..(n - 1 + 1) : SubSeq(s, 1, n)[i] = s[1 + i - 1]
  BY <1>3, SubSeqProperties
<1>5. /\ Len(SubSeq(s, 1, n)) = n
      /\ \A i \in 1..n : SubSeq(s, 1, n)[i] = s[i]
  BY <1>3, <1>4
<1> QED
  BY <1>1, <1>2, <1>4, <1>5 DEF n

\* What they do to membership.
LEMMA AppendMembers ==
  ASSUME NEW S, NEW s \in Seq(S), NEW e \in S, NEW b
  PROVE  In(b, s) \/ b = e => In(b, Append(s, e))
BY AppendFacts DEF In

LEMMA TailMembers ==
  ASSUME NEW S, NEW s \in Seq(S), s # <<>>, NEW b
  PROVE  In(b, s) => In(b, Tail(s)) \/ b = Head(s)
<1> SUFFICES ASSUME NEW i \in 1..Len(s), s[i] = b
             PROVE  In(b, Tail(s)) \/ b = Head(s)
  BY DEF In
<1>1. CASE i = 1
  BY <1>1, TailFacts
<1>2. CASE i # 1
  <2>1. i - 1 \in 1..Len(Tail(s)) /\ Tail(s)[i - 1] = s[i]
    BY <1>2, TailFacts
  <2> QED
    BY <2>1 DEF In
<1> QED
  BY <1>1, <1>2

LEMMA DropLastMembers ==
  ASSUME NEW S, NEW s \in Seq(S), s # <<>>, NEW b
  PROVE  In(b, s) => In(b, SubSeq(s, 1, Len(s) - 1)) \/ b = s[Len(s)]
<1> DEFINE r == SubSeq(s, 1, Len(s) - 1)
<1>1. /\ Len(s) \in Nat \ {0}
      /\ Len(r) = Len(s) - 1
      /\ \A i \in 1..(Len(s) - 1) : r[i] = s[i]
  BY DropLastFacts
<1> HIDE DEF r
<1>2. In(b, s) => In(b, r) \/ b = s[Len(s)]
  BY <1>1 DEF In
<1> QED
  BY <1>2 DEF r

\* Moving packets from the queue to the output keeps their order.
LEMMA AppendToConcat ==
  ASSUME NEW S, NEW s \in Seq(S), NEW t \in Seq(S), NEW e \in S
  PROVE  s \o Append(t, e) = Append(s \o t, e)
OBVIOUS

LEMMA ShiftHead ==
  ASSUME NEW S, NEW s \in Seq(S), NEW t \in Seq(S), t # <<>>
  PROVE  Append(s, Head(t)) \o Tail(t) = s \o t
OBVIOUS

LEMMA CountUp ==
  ASSUME NEW n \in Nat
  PROVE  Append([i \in 1..n |-> i], n + 1) = [i \in 1..(n + 1) |-> i]
OBVIOUS

LEMMA EmptyLen ==
  ASSUME NEW S, NEW s \in Seq(S)
  PROVE  /\ Len(s) \in Nat
         /\ Len(s) = 0 <=> s = <<>>
OBVIOUS

-----------------------------------------------------------------------------
\* omx_alloc_buffers leaves every buffer in the list.
LEMMA InitEstablishes == Init => IInv
<1> SUFFICES ASSUME Init PROVE IInv
  OBVIOUS
<1>1. out_buffers \in Seq(Buffers) /\ Len(out_buffers) = NBuffers
  BY SizesAssumption DEF Init, Buffers
<1>2. TypeOK
  <2>1. /\ <<>> \in Seq(Buffers) /\ <<>> \in Seq(1..Frames)
        /\ <<>> \in Seq(1..Audio)
    OBVIOUS
  <2>2. 0 \in 0..Frames /\ 0 \in 0..Audio
    BY SizesAssumption
  <2> QED
    BY <1>1, <2>1, <2>2 DEF Init, TypeOK
<1>3. BuffersAccounted
  <2>1. \A b \in Buffers : out_buffers[b] = b
    BY DEF Init
  <2>2. ASSUME NEW b \in Buffers PROVE In(b, out_buffers)
    <3>1. b \in 1..Len(out_buffers)
      BY <1>1 DEF Buffers
    <3>2. \E i \in 1..Len(out_buffers) : out_buffers[i] = b
      BY <2>1, <3>1, Zenon
    <3> QED
      BY <3>2 DEF In
  <2>3. Len(filling) = 0 /\ One(held) = 0 /\ One(returning) = 0
    BY DEF Init, One
  <2>4. Len(out_buffers) + Len(filling) + One(held) + One(returning) = NBuffers
    BY <1>1, <2>3, SizesAssumption
  <2> QED
    BY <2>2, <2>4 DEF BuffersAccounted
<1>4. NoLostBufferWakeup /\ HeldInv
  BY DEF Init, NoLostBufferWakeup, HeldInv
<1>5. Credit /\ InputInv
  BY <1>1, SizesAssumption DEF Init, Credit, InputInv, One, AboutToPoll
<1>6. OrderInv
  <2>1. <<>> \o <<>> = [i \in 1..0 |-> i]
    OBVIOUS
  <2> QED
    BY <2>1 DEF Init, OrderInv
<1> QED
  BY <1>2, <1>3, <1>4, <1>5, <1>6 DEF IInv

-----------------------------------------------------------------------------
(* Steps that move no buffer and no packet *)

LEMMA Keep_test_eos ==
  IInv /\ test_eos => IInv'
BY EmptyLen, SizesAssumption
   DEF test_eos, IInv, TypeOK, BuffersAccounted,
       NoLostBufferWakeup, HeldInv, Credit, OrderInv, InputInv, One,
       AboutToPoll, writer, buffers, encoder, output

LEMMA Keep_test_finished ==
  IInv /\ test_finished => IInv'
BY EmptyLen, SizesAssumption
   DEF test_finished, IInv, TypeOK, BuffersAccounted,
       NoLostBufferWakeup, HeldInv, Credit, OrderInv, InputInv, One,
       AboutToPoll, writer, buffers, encoder, output

LEMMA Keep_get_next_output_buffer_sleep ==
  IInv /\ get_next_output_buffer_sleep => IInv'
BY EmptyLen, SizesAssumption
   DEF get_next_output_buffer_sleep, IInv, TypeOK, BuffersAccounted,
       NoLostBufferWakeup, HeldInv, Credit, OrderInv, InputInv, One,
       AboutToPoll, writer, buffers, encoder, output

LEMMA Keep_get_next_output_buffer_empty ==
  IInv /\ get_next_output_buffer_empty => IInv'
BY EmptyLen, SizesAssumption
   DEF get_next_output_buffer_empty, IInv, TypeOK, BuffersAccounted,
       NoLostBufferWakeup, HeldInv, Credit, OrderInv, InputInv, One,
       AboutToPoll, writer, buffers, encoder, output

LEMMA Keep_SpuriousWakeup ==
  IInv /\ SpuriousWakeup => IInv'
BY EmptyLen, SizesAssumption
   DEF SpuriousWakeup, IInv, TypeOK, BuffersAccounted,
       NoLostBufferWakeup, HeldInv, Credit, OrderInv, InputInv, One,
       AboutToPoll, writer, buffers, encoder, output

\* The steps that change eos or the input only, and leave processed_audio_queue alone.
LEMMA Keep_elsewhere ==
  ASSUME IInv,
         UNCHANGED <<writer, buffers, encoder, encoded_video_queue, written,
                     processed_audio_queue, audio_written>>,
         eos' \in BOOLEAN,
         dpc' \in {"reading", "video", "add_video", "audio", "add_audio",
                   "video_finished", "done"},
         videos' \in 0..Frames, demuxed' \in 0..Audio, fed' \in 0..Frames,
         feeding' \in {"open", "eos", "stopped"},
         InputInv'
  PROVE  IInv'
<1>1. UNCHANGED <<wpc, held, out_buffers, buf_out_notempty, filling, returning,
                  produced>>
  BY DEF writer, buffers, encoder
<1>2. asleep' = asleep
  BY Zenon DEF writer
<1>3. TypeOK'
  BY <1>1, <1>2 DEF IInv, TypeOK
<1>4. BuffersAccounted'
  BY <1>1 DEF IInv, BuffersAccounted, One
<1>5. NoLostBufferWakeup' /\ HeldInv'
  BY <1>1, <1>2 DEF IInv, TypeOK, NoLostBufferWakeup, HeldInv
<1>6. Credit' /\ OrderInv'
  BY <1>1 DEF IInv, Credit, One, AboutToPoll, OrderInv
<1> QED
  BY <1>3, <1>4, <1>5, <1>6 DEF IInv

LEMMA Keep_omx_event_handler_eos ==
  IInv /\ omx_event_handler_eos => IInv'
BY Keep_elsewhere DEF IInv, TypeOK, InputInv, encoder, omx_event_handler_eos

LEMMA Keep_stutter ==
  IInv /\ UNCHANGED vars => IInv'
BY Keep_elsewhere DEF IInv, TypeOK, InputInv, encoder, vars, output

\* The demuxer chooses a packet, finds room for it, or finishes a queue.
LEMMA Keep_DemuxMoves ==
  ASSUME IInv, NEW from, NEW to, DemuxMoves(from, to),
         to \in {"video", "add_video", "audio", "add_audio", "video_finished", "done"},
         from # to,
         from \in {"video_finished", "done"} => to \in {"video_finished", "done"},
         to \in {"video", "add_video"} => videos < Frames,
         to \in {"audio", "add_audio"} => demuxed < Audio
  PROVE  IInv'
<1>1. /\ dpc = from /\ dpc' = to
      /\ UNCHANGED <<writer, buffers, encoder, encoded_video_queue, written,
                     processed_audio_queue, audio_written>>
      /\ UNCHANGED <<eos, videos, demuxed, fed, feeding, produced>>
  BY DEF DemuxMoves, encoder, output
<1>2. InputInv'
  BY <1>1 DEF IInv, InputInv
<1>3. /\ eos' \in BOOLEAN /\ videos' \in 0..Frames /\ demuxed' \in 0..Audio
      /\ fed' \in 0..Frames /\ feeding' \in {"open", "eos", "stopped"}
  BY <1>1 DEF IInv, TypeOK
<1> QED
  BY <1>1, <1>2, <1>3, Keep_elsewhere

LEMMA Keep_demuxer_moves ==
  ASSUME IInv, av_read_frame \/ wait_video \/ wait_audio \/ video_finished
               \/ audio_finished
  PROVE  IInv'
<1>1. CASE videos < Frames /\ DemuxMoves("reading", "video")
  BY <1>1, Keep_DemuxMoves
<1>2. CASE demuxed < Audio /\ DemuxMoves("reading", "audio")
  BY <1>2, Keep_DemuxMoves
<1>3. CASE DemuxMoves("video", "add_video")
  <2>1. videos < Frames
    BY <1>3 DEF DemuxMoves, IInv, InputInv
  <2> QED
    BY <1>3, <2>1, Keep_DemuxMoves
<1>4. CASE DemuxMoves("audio", "add_audio")
  <2>1. demuxed < Audio
    BY <1>4 DEF DemuxMoves, IInv, InputInv
  <2> QED
    BY <1>4, <2>1, Keep_DemuxMoves
<1>5. CASE DemuxMoves("reading", "video_finished")
  BY <1>5, Keep_DemuxMoves
<1>6. CASE DemuxMoves("video_finished", "done")
  BY <1>6, Keep_DemuxMoves
<1> QED
  BY <1>1, <1>2, <1>3, <1>4, <1>5, <1>6
  DEF av_read_frame, wait_video, wait_audio, video_finished, audio_finished

LEMMA Keep_add_video ==
  ASSUME IInv, add_video
  PROVE  IInv'
<1>1. /\ dpc = "add_video" /\ dpc' = "reading" /\ videos' = videos + 1
      /\ UNCHANGED <<writer, buffers, encoder, encoded_video_queue, written,
                     processed_audio_queue, audio_written>>
      /\ UNCHANGED <<eos, demuxed, fed, feeding, produced>>
  BY DEF add_video, encoder, output
<1>2. /\ eos' \in BOOLEAN /\ demuxed' \in 0..Audio
      /\ fed' \in 0..Frames /\ feeding' \in {"open", "eos", "stopped"}
  BY <1>1 DEF IInv, TypeOK
<1>3. videos \in Nat /\ fed \in Nat /\ produced \in Nat /\ videos < Frames
  BY <1>1, SizesAssumption DEF IInv, TypeOK, InputInv
<1>4. videos' \in 0..Frames
  BY <1>1, <1>3, SizesAssumption
<1>5. InputInv'
  BY <1>1, <1>3 DEF IInv, InputInv
<1> QED
  BY <1>1, <1>2, <1>4, <1>5, Keep_elsewhere

LEMMA Keep_DecodeStep ==
  ASSUME IInv, DecodeStep
  PROVE  IInv'
<1>1. /\ UNCHANGED <<writer, buffers, encoder, encoded_video_queue, written,
                     processed_audio_queue, audio_written>>
      /\ UNCHANGED <<eos, dpc, videos, demuxed, produced>>
      /\ feeding = "open"
      /\ \/ fed < videos /\ fed' = fed + 1 /\ feeding' = feeding
         \/ fed' = fed /\ feeding' = "stopped"
         \/ fed' = fed /\ feeding' = "eos" /\ dpc \in {"video_finished", "done"}
  BY DEF DecodeStep, decode_thread_feeds, decode_thread_sends_eos,
         decode_thread_stops, DecodeEnds, encoder, output
<1>2. /\ eos' \in BOOLEAN /\ videos' \in 0..Frames /\ demuxed' \in 0..Audio
      /\ dpc' \in {"reading", "video", "add_video", "audio", "add_audio",
                   "video_finished", "done"}
  BY <1>1 DEF IInv, TypeOK
<1>3. /\ videos \in Nat /\ fed \in Nat /\ produced \in Nat
      /\ fed <= videos /\ produced <= fed /\ videos <= Frames
  BY SizesAssumption DEF IInv, TypeOK, InputInv
<1>4. fed' \in 0..Frames /\ feeding' \in {"open", "eos", "stopped"}
  BY <1>1, <1>3, SizesAssumption
<1>5. produced' <= fed' /\ fed' <= videos'
  BY <1>1, <1>3
<1>6. InputInv'
  BY <1>1, <1>5 DEF IInv, InputInv
<1> QED
  BY <1>1, <1>2, <1>4, <1>6, Keep_elsewhere

-----------------------------------------------------------------------------
(* Steps that move a buffer *)

LEMMA Keep_get_next_output_buffer_take ==
  ASSUME IInv, get_next_output_buffer_take
  PROVE  IInv'
<1> DEFINE rest == SubSeq(out_buffers, 1, Len(out_buffers) - 1)
<1>1. /\ wpc = "get_buffer" /\ wpc' = "fill"
      /\ out_buffers # <<>> /\ out_buffers \in Seq(Buffers)
      /\ out_buffers' = rest /\ held' = out_buffers[Len(out_buffers)]
      /\ held = NULL
      /\ UNCHANGED <<buf_out_notempty, filling, returning, produced,
                     encoded_video_queue, written, eos, dpc, videos, demuxed,
                     processed_audio_queue, audio_written, fed, feeding>>
      /\ ~asleep /\ buf_out_notempty = 1
  BY DEF get_next_output_buffer_take, IInv, TypeOK, HeldInv, encoder, output
<1>2. ~asleep' /\ asleep' = asleep
  BY DEF get_next_output_buffer_take
<1>3. /\ rest \in Seq(Buffers)
      /\ Len(out_buffers) \in Nat \ {0}
      /\ Len(rest) = Len(out_buffers) - 1
      /\ held' \in Buffers
  BY <1>1, DropLastFacts
<1>4. held' # NULL
  BY <1>3, SizesAssumption DEF Buffers
<1> HIDE DEF rest
<1>5. TypeOK'
  BY <1>1, <1>2, <1>3 DEF IInv, TypeOK
<1>6. BuffersAccounted'
  <2>1. \A b \in Buffers : In(b, out_buffers) => In(b, out_buffers') \/ held' = b
    BY <1>1, DropLastMembers DEF rest
  <2>2. Len(out_buffers') + Len(filling') + One(held') + One(returning')
          = NBuffers
    BY <1>1, <1>3, <1>4, EmptyLen DEF IInv, TypeOK, BuffersAccounted, One
  <2>3. \A b \in Buffers : held # b
    BY <1>1, SizesAssumption DEF Buffers
  <2> QED
    BY <1>1, <2>1, <2>2, <2>3 DEF IInv, BuffersAccounted
<1>7. NoLostBufferWakeup' /\ HeldInv'
  BY <1>1, <1>2, <1>4 DEF NoLostBufferWakeup, HeldInv
<1>8. Credit' /\ OrderInv' /\ InputInv'
  BY <1>1, <1>3, <1>4, EmptyLen
     DEF IInv, TypeOK, Credit, One, AboutToPoll, OrderInv, InputInv
<1> QED
  BY <1>5, <1>6, <1>7, <1>8 DEF IInv

LEMMA Keep_OMX_FillThisBuffer ==
  ASSUME IInv, OMX_FillThisBuffer
  PROVE  IInv'
<1>1. /\ wpc = "fill" /\ wpc' = "audio"
      /\ held' = NULL /\ held # NULL /\ held \in Buffers
      /\ filling \in Seq(Buffers) /\ filling' = Append(filling, held)
      /\ UNCHANGED <<out_buffers, buf_out_notempty, returning, produced,
                     encoded_video_queue, written, eos, dpc, videos, demuxed,
                     processed_audio_queue, audio_written, fed, feeding>>
  BY DEF OMX_FillThisBuffer, IInv, TypeOK, HeldInv, buffers, output
<1>2. ~asleep /\ asleep' = asleep
  BY <1>1 DEF OMX_FillThisBuffer, IInv, HeldInv
<1>3. filling' \in Seq(Buffers) /\ Len(filling') = Len(filling) + 1
  BY <1>1, AppendFacts
<1>4. TypeOK'
  BY <1>1, <1>2, <1>3 DEF IInv, TypeOK
<1>5. BuffersAccounted'
  <2>1. \A b \in Buffers : In(b, filling) \/ held = b => In(b, filling')
    BY <1>1, AppendMembers
  <2>2. Len(out_buffers') + Len(filling') + One(held') + One(returning')
          = NBuffers
    BY <1>1, <1>3, EmptyLen DEF IInv, TypeOK, BuffersAccounted, One
  <2> QED
    BY <1>1, <2>1, <2>2 DEF IInv, BuffersAccounted
<1>6. NoLostBufferWakeup' /\ HeldInv'
  BY <1>1, <1>2 DEF IInv, NoLostBufferWakeup, HeldInv
<1>7. Credit' /\ OrderInv' /\ InputInv'
  BY <1>1, EmptyLen
     DEF IInv, TypeOK, Credit, One, AboutToPoll, OrderInv, InputInv
<1> QED
  BY <1>4, <1>5, <1>6, <1>7 DEF IInv

LEMMA Keep_omx_encoder_fill_buffer_done_queue ==
  ASSUME IInv, omx_encoder_fill_buffer_done_queue
  PROVE  IInv'
<1>1. /\ returning = NULL /\ filling # <<>> /\ filling \in Seq(Buffers)
      /\ returning' = Head(filling) /\ filling' = Tail(filling)
      /\ produced \in Nat /\ produced' = produced + 1 /\ produced' <= fed
      /\ produced' \in 1..Frames
      /\ encoded_video_queue \in Seq(1..Frames)
      /\ encoded_video_queue' = Append(encoded_video_queue, produced')
      /\ UNCHANGED <<wpc, held, out_buffers, buf_out_notempty, written, eos, dpc,
                     videos, demuxed, processed_audio_queue, audio_written, fed, feeding>>
  BY SizesAssumption DEF omx_encoder_fill_buffer_done_queue, IInv, TypeOK,
     InputInv, writer, buffers
<1>2. asleep' = asleep
  BY Zenon DEF omx_encoder_fill_buffer_done_queue, writer
<1>3. /\ filling' \in Seq(Buffers) /\ returning' \in Buffers
      /\ Len(filling) \in Nat \ {0} /\ Len(filling') = Len(filling) - 1
  BY <1>1, TailFacts
<1>4. /\ encoded_video_queue' \in Seq(1..Frames)
      /\ Len(encoded_video_queue') = Len(encoded_video_queue) + 1
  BY <1>1, AppendFacts
<1>5. returning' # NULL
  BY <1>3, SizesAssumption DEF Buffers
<1>6. TypeOK'
  BY <1>1, <1>2, <1>3, <1>4 DEF IInv, TypeOK
<1>7. BuffersAccounted'
  <2>1. \A b \in Buffers : In(b, filling) => In(b, filling') \/ returning' = b
    BY <1>1, TailMembers
  <2>2. Len(out_buffers') + Len(filling') + One(held') + One(returning')
          = NBuffers
    BY <1>1, <1>3, <1>5, EmptyLen DEF IInv, TypeOK, BuffersAccounted, One
  <2>3. \A b \in Buffers : returning # b
    BY <1>1, SizesAssumption DEF Buffers
  <2>4. \A b \in Buffers : held = b \/ returning = b \/ In(b, out_buffers)
                           \/ In(b, filling)
    BY DEF IInv, BuffersAccounted
  <2>5. held' = held /\ out_buffers' = out_buffers
    BY <1>1
  <2>6. \A b \in Buffers : held' = b \/ returning' = b \/ In(b, out_buffers')
                           \/ In(b, filling')
    BY <2>1, <2>3, <2>4, <2>5
  <2> QED
    BY <2>2, <2>6 DEF BuffersAccounted
<1>8. NoLostBufferWakeup' /\ HeldInv'
  BY <1>1, <1>2 DEF IInv, TypeOK, NoLostBufferWakeup, HeldInv
<1>9. Credit' /\ InputInv'
  <2>1. /\ One(held) \in {0, 1} /\ One(returning) = 0 /\ One(returning') = 1
        /\ AboutToPoll \in {0, 1} /\ AboutToPoll' = AboutToPoll
    BY <1>1, <1>5 DEF One, AboutToPoll
  <2>2. Len(encoded_video_queue) \in Nat /\ Len(out_buffers) \in Nat
    BY DEF IInv, TypeOK
  <2>3. Len(encoded_video_queue')
          <= Len(out_buffers) + One(held) + One(returning') + AboutToPoll
    BY <1>4, <2>1, <2>2 DEF IInv, Credit
  <2> QED
    BY <1>1, <2>1, <2>3 DEF IInv, Credit, InputInv
<1>10. OrderInv'
  <2>1. written' \o encoded_video_queue'
          = Append(written \o encoded_video_queue, produced + 1)
    <3>1. produced + 1 \in 1..Frames /\ written \in Seq(1..Frames)
      BY <1>1 DEF IInv, TypeOK
    <3> QED
      BY <1>1, <3>1, AppendToConcat
  <2> QED
    BY <1>1, <2>1, CountUp DEF IInv, OrderInv
<1> QED
  BY <1>6, <1>7, <1>8, <1>9, <1>10 DEF IInv

LEMMA Keep_omx_encoder_fill_buffer_done_return ==
  ASSUME IInv, omx_encoder_fill_buffer_done_return
  PROVE  IInv'
<1>1. /\ returning # NULL /\ returning \in Buffers /\ returning' = NULL
      /\ out_buffers \in Seq(Buffers)
      /\ out_buffers' = Append(out_buffers, returning)
      /\ UNCHANGED <<wpc, held, filling, produced, encoded_video_queue, written,
                     eos, dpc, videos, demuxed, processed_audio_queue, audio_written, fed,
                     feeding>>
  BY DEF omx_encoder_fill_buffer_done_return, IInv, TypeOK, output
<1>2. buf_out_notempty' = 1 /\ ~asleep'
  BY DEF omx_encoder_fill_buffer_done_return, IInv, TypeOK, NoLostBufferWakeup
<1>3. asleep' \in BOOLEAN
  BY DEF omx_encoder_fill_buffer_done_return, IInv, TypeOK
<1>4. out_buffers' \in Seq(Buffers) /\ Len(out_buffers') = Len(out_buffers) + 1
  BY <1>1, AppendFacts
<1>5. TypeOK'
  BY <1>1, <1>2, <1>3, <1>4 DEF IInv, TypeOK
<1>6. BuffersAccounted'
  <2>1. \A b \in Buffers :
          In(b, out_buffers) \/ returning = b => In(b, out_buffers')
    BY <1>1, AppendMembers
  <2>2. Len(out_buffers') + Len(filling') + One(held') + One(returning')
          = NBuffers
    BY <1>1, <1>4, EmptyLen DEF IInv, TypeOK, BuffersAccounted, One
  <2>3. \A b \in Buffers : held = b \/ returning = b \/ In(b, out_buffers)
                           \/ In(b, filling)
    BY DEF IInv, BuffersAccounted
  <2>4. held' = held /\ filling' = filling
    BY <1>1
  <2>5. \A b \in Buffers : held' = b \/ returning' = b \/ In(b, out_buffers')
                           \/ In(b, filling')
    BY <2>1, <2>3, <2>4
  <2> QED
    BY <2>2, <2>5 DEF BuffersAccounted
<1>7. NoLostBufferWakeup' /\ HeldInv'
  BY <1>1, <1>2 DEF IInv, NoLostBufferWakeup, HeldInv
<1>8. Credit'
  <2>1. /\ One(held) \in {0, 1} /\ One(returning) = 1 /\ One(returning') = 0
        /\ AboutToPoll \in {0, 1} /\ AboutToPoll' = AboutToPoll
    BY <1>1 DEF One, AboutToPoll
  <2>2. Len(encoded_video_queue) \in Nat /\ Len(out_buffers) \in Nat
    BY DEF IInv, TypeOK
  <2>3. Len(encoded_video_queue)
          <= Len(out_buffers') + One(held) + One(returning') + AboutToPoll
    BY <1>4, <2>1, <2>2 DEF IInv, Credit
  <2> QED
    BY <1>1, <2>1, <2>3 DEF Credit
<1>9. OrderInv' /\ InputInv'
  BY <1>1 DEF IInv, OrderInv, InputInv
<1> QED
  BY <1>5, <1>6, <1>7, <1>8, <1>9 DEF IInv

-----------------------------------------------------------------------------
(* Steps that move a packet *)

\* The poll pays for the packet it takes; an empty queue owes nothing.
LEMMA Keep_write_video_frame ==
  ASSUME IInv, write_video_frame
  PROVE  IInv'
<1>1. /\ wpc = "video" /\ wpc' = "test_eos" /\ held = NULL
      /\ UNCHANGED <<held, out_buffers, buf_out_notempty, filling, returning,
                     produced, eos, dpc, videos, demuxed, processed_audio_queue,
                     audio_written, fed, feeding>>
      /\ encoded_video_queue \in Seq(1..Frames) /\ written \in Seq(1..Frames)
  BY DEF write_video_frame, IInv, TypeOK, HeldInv, buffers, encoder
<1>2. ~asleep /\ asleep' = asleep
  BY <1>1 DEF write_video_frame, IInv, HeldInv
<1>3. CASE encoded_video_queue = <<>>
  <2>1. UNCHANGED <<encoded_video_queue, written>>
    BY <1>3 DEF write_video_frame
  <2>2. Len(encoded_video_queue) = 0
    BY <1>3
  <2> QED
    BY <1>1, <1>2, <2>1, <2>2, EmptyLen
       DEF IInv, TypeOK, BuffersAccounted, NoLostBufferWakeup, HeldInv, Credit,
           OrderInv, InputInv, One, AboutToPoll
<1>4. CASE encoded_video_queue # <<>>
  <2>1. /\ encoded_video_queue' = Tail(encoded_video_queue)
        /\ written' = Append(written, Head(encoded_video_queue))
    BY <1>4 DEF write_video_frame
  <2>2. /\ encoded_video_queue' \in Seq(1..Frames)
        /\ Len(encoded_video_queue) \in Nat \ {0}
        /\ Len(encoded_video_queue') = Len(encoded_video_queue) - 1
        /\ written' \in Seq(1..Frames)
    BY <1>1, <1>4, <2>1, TailFacts, AppendFacts
  <2>3. written' \o encoded_video_queue' = written \o encoded_video_queue
    BY <1>1, <1>4, <2>1, ShiftHead
  <2>4. TypeOK' /\ BuffersAccounted'
    BY <1>1, <1>2, <2>2 DEF IInv, TypeOK, BuffersAccounted, One
  <2>5. NoLostBufferWakeup' /\ HeldInv'
    BY <1>1, <1>2 DEF IInv, NoLostBufferWakeup, HeldInv
  <2>6. Credit' /\ OrderInv' /\ InputInv'
    BY <1>1, <2>2, <2>3, EmptyLen
       DEF IInv, TypeOK, Credit, One, AboutToPoll, OrderInv, InputInv
  <2> QED
    BY <2>4, <2>5, <2>6 DEF IInv
<1> QED
  BY <1>3, <1>4

LEMMA Keep_write_audio_frame ==
  ASSUME IInv, write_audio_frame
  PROVE  IInv'
<1>1. /\ wpc = "audio" /\ wpc' = "video"
      /\ UNCHANGED <<held, out_buffers, buf_out_notempty, filling, returning,
                     produced, encoded_video_queue, written, eos, dpc, videos,
                     demuxed, fed, feeding>>
      /\ processed_audio_queue \in Seq(1..Audio)
      /\ audio_written \in Seq(1..Audio)
  BY DEF write_audio_frame, IInv, TypeOK, buffers, encoder, output
<1>2. ~asleep /\ asleep' = asleep
  BY <1>1 DEF write_audio_frame, IInv, HeldInv
<1>3. /\ processed_audio_queue' \in Seq(1..Audio)
      /\ audio_written' \in Seq(1..Audio)
  <2>1. CASE processed_audio_queue = <<>>
    BY <1>1, <2>1 DEF write_audio_frame
  <2>2. CASE processed_audio_queue # <<>>
    <3>1. /\ processed_audio_queue' = Tail(processed_audio_queue)
          /\ audio_written'
               = Append(audio_written, Head(processed_audio_queue))
      BY <2>2 DEF write_audio_frame
    <3>2. /\ Tail(processed_audio_queue) \in Seq(1..Audio)
          /\ Head(processed_audio_queue) \in 1..Audio
          /\ Len(processed_audio_queue) \in Nat
          /\ Len(Tail(processed_audio_queue)) = Len(processed_audio_queue) - 1
      BY <1>1, <2>2, TailFacts
    <3>3. audio_written' \in Seq(1..Audio)
      BY <1>1, <3>1, <3>2, AppendFacts
    <3> QED
      BY <3>1, <3>2, <3>3
  <2> QED
    BY <2>1, <2>2
<1>4. TypeOK' /\ BuffersAccounted'
  BY <1>1, <1>2, <1>3 DEF IInv, TypeOK, BuffersAccounted, One
<1>5. NoLostBufferWakeup' /\ HeldInv'
  BY <1>1, <1>2 DEF IInv, NoLostBufferWakeup, HeldInv
<1>6. Credit' /\ OrderInv'
  BY <1>1 DEF IInv, Credit, One, AboutToPoll, OrderInv
<1>7. InputInv'
  BY <1>1 DEF IInv, InputInv
<1> QED
  BY <1>4, <1>5, <1>6, <1>7 DEF IInv

LEMMA Keep_add_audio ==
  ASSUME IInv, add_audio
  PROVE  IInv'
<1>1. /\ dpc = "add_audio" /\ dpc' = "reading" /\ demuxed' = demuxed + 1
      /\ processed_audio_queue \in Seq(1..Audio)
      /\ processed_audio_queue' = Append(processed_audio_queue, demuxed')
      /\ UNCHANGED <<wpc, held, out_buffers, buf_out_notempty, filling, returning,
                     produced, encoded_video_queue, written, eos, videos,
                     audio_written, fed, feeding>>
  BY DEF add_audio, IInv, TypeOK, writer, buffers, encoder, output
<1>2. asleep' = asleep
  BY Zenon DEF add_audio, writer
<1>3. demuxed' \in 1..Audio
  BY <1>1, SizesAssumption DEF IInv, TypeOK, InputInv
<1>4. processed_audio_queue' \in Seq(1..Audio)
  BY <1>1, <1>3, AppendFacts
<1>5. TypeOK' /\ BuffersAccounted'
  BY <1>1, <1>2, <1>3, <1>4 DEF IInv, TypeOK, BuffersAccounted, One
<1>6. NoLostBufferWakeup' /\ HeldInv'
  BY <1>1, <1>2 DEF IInv, TypeOK, NoLostBufferWakeup, HeldInv
<1>7. Credit' /\ OrderInv'
  BY <1>1 DEF IInv, Credit, One, AboutToPoll, OrderInv
<1>8. InputInv'
  BY <1>1 DEF IInv, InputInv
<1> QED
  BY <1>5, <1>6, <1>7, <1>8 DEF IInv

-----------------------------------------------------------------------------
LEMMA StepKeeps == IInv /\ [Next]_vars => IInv'
BY Keep_test_eos, Keep_test_finished, Keep_get_next_output_buffer_sleep,
   Keep_get_next_output_buffer_take, Keep_get_next_output_buffer_empty,
   Keep_OMX_FillThisBuffer, Keep_write_audio_frame, Keep_write_video_frame,
   Keep_SpuriousWakeup, Keep_omx_encoder_fill_buffer_done_queue,
   Keep_omx_encoder_fill_buffer_done_return, Keep_omx_event_handler_eos,
   Keep_demuxer_moves, Keep_add_video, Keep_add_audio, Keep_DecodeStep, Keep_stutter
   DEF Next, WriterStep, EncoderStep, DemuxStep

\* The strengthening holds in every reachable state.
THEOREM InvariantHolds == Spec => []IInv
<1> QED
  BY InitEstablishes, StepKeeps, PTL DEF Spec

\* Every variable keeps its type.
THEOREM TypeCorrect == Spec => []TypeOK
<1>1. IInv => TypeOK
  BY DEF IInv
<1> QED
  BY <1>1, InvariantHolds, PTL

\* No output buffer is lost or duplicated, whatever the number of buffers.
THEOREM BuffersAreAccounted == Spec => []BuffersAccounted
<1>1. IInv => BuffersAccounted
  BY DEF IInv
<1> QED
  BY <1>1, InvariantHolds, PTL

\* The writer never sleeps while a buffer is in the list.
THEOREM NoLostBufferWakeupHolds == Spec => []NoLostBufferWakeup
<1>1. IInv => NoLostBufferWakeup
  BY DEF IInv
<1> QED
  BY <1>1, InvariantHolds, PTL

\* At most one encoded packet more than there are buffers ever waits.
THEOREM BacklogBounded == Spec => []BacklogBound
<1>1. IInv => BacklogBound
  <2> SUFFICES ASSUME IInv PROVE BacklogBound
    OBVIOUS
  <2>1. AboutToPoll \in {0, 1} /\ One(held) \in {0, 1} /\ One(returning) \in {0, 1}
    BY DEF AboutToPoll, One
  <2>2. /\ Len(filling) \in Nat /\ Len(out_buffers) \in Nat
        /\ Len(encoded_video_queue) \in Nat
    BY DEF IInv, TypeOK
  <2>3. Len(out_buffers) + Len(filling) + One(held) + One(returning) = NBuffers
    BY DEF IInv, BuffersAccounted
  <2>4. Len(encoded_video_queue)
          <= Len(out_buffers) + One(held) + One(returning) + AboutToPoll
    BY DEF IInv, Credit
  <2> QED
    BY <2>1, <2>2, <2>3, <2>4, SizesAssumption DEF BacklogBound
<1> QED
  BY <1>1, InvariantHolds, PTL

\* With neither list nor callback holding a buffer, no packet has credit left.
LEMMA Drained == IInv => BlockedOnlyWhenDrained
<1> SUFFICES ASSUME IInv, wpc = "get_buffer", out_buffers = <<>>,
                    returning = NULL
             PROVE  encoded_video_queue = <<>>
  BY DEF BlockedOnlyWhenDrained
<1>1. held = NULL /\ AboutToPoll = 0 /\ Len(out_buffers) = 0
  BY DEF IInv, HeldInv, AboutToPoll
<1>2. Len(encoded_video_queue) = 0
  BY <1>1, EmptyLen DEF IInv, TypeOK, Credit, One
<1> QED
  BY <1>2, EmptyLen DEF IInv, TypeOK

\* When the writer waits for the encoder, nothing is left to write.
THEOREM BlocksOnlyWhenDrained == Spec => []BlockedOnlyWhenDrained
<1> QED
  BY Drained, InvariantHolds, PTL

\* A writer that sleeps for good has written everything, and one of the three reasons
\* holds: a sleeping writer holds no buffer and has none in its list, so the encoder
\* holds them all and lacks only a frame.
THEOREM StarvesForAReasonHolds == Spec => []StarvesForAReason
<1>1. IInv => StarvesForAReason
  <2> SUFFICES ASSUME IInv, asleep, EncoderIdle, DecodeIdle, DemuxIdle
               PROVE  /\ Len(written) = produced /\ produced = fed
                      /\ \/ eos /\ queue_finished
                         \/ feeding = "stopped"
                         \/ feeding = "open" /\ fed = videos /\ AudioFull
    BY DEF StarvesForAReason
  <2>1. wpc = "get_buffer" /\ held = NULL /\ returning = NULL
    BY DEF IInv, HeldInv, EncoderIdle
  <2>2. out_buffers = <<>>
    BY DEF IInv, NoLostBufferWakeup
  <2>3. Len(filling) = NBuffers
    <3>1. Len(out_buffers) = 0
      BY <2>2
    <3>2. Len(filling) \in Nat
      BY DEF IInv, TypeOK
    <3> QED
      BY <2>1, <3>1, <3>2, SizesAssumption DEF IInv, BuffersAccounted, One
  <2>4. produced = fed
    BY <2>3, SizesAssumption DEF EncoderIdle
  <2>5. encoded_video_queue = <<>>
    BY <2>1, <2>2, Drained DEF BlockedOnlyWhenDrained
  <2>6. Len(written) = produced
    <3>1. written \in Seq(1..Frames) /\ produced \in Nat
      BY SizesAssumption DEF IInv, TypeOK
    <3>2. written \o <<>> = written
      BY <3>1
    <3>3. written = [i \in 1..produced |-> i]
      BY <2>5, <3>2 DEF IInv, OrderInv
    <3> QED
      BY <3>1, <3>3
  <2>7. feeding \in {"open", "eos", "stopped"}
    BY DEF IInv, TypeOK
  <2>8. CASE feeding = "eos"
    <3>1. eos
      <4>1. fed \in Nat
        BY SizesAssumption DEF IInv, TypeOK
      <4> QED
        BY <2>4, <2>8, <4>1 DEF EncoderIdle
    <3>2. dpc = "done"
      BY <2>8 DEF IInv, InputInv, DemuxIdle, AudioFull
    <3> QED
      BY <2>4, <2>6, <3>1, <3>2 DEF queue_finished
  <2>9. CASE feeding = "open"
    <3>1. fed = videos /\ dpc \notin {"video_finished", "done"}
      BY <2>9 DEF DecodeIdle
    <3>2. ~(videos - fed > MaxQueue)
      BY <3>1, SizesAssumption DEF IInv, TypeOK
    <3>3. AudioFull
      BY <3>1, <3>2 DEF DemuxIdle
    <3> QED
      BY <2>4, <2>6, <2>9, <3>1, <3>3
  <2> QED
    BY <2>4, <2>6, <2>7, <2>8, <2>9
<1> QED
  BY <1>1, InvariantHolds, PTL

-----------------------------------------------------------------------------
(* The loop ends: Work goes down with every step but a spurious wake-up. *)

WorkParts ==
  /\ WriterTurn \in 0..7
  /\ EncoderWork \in Nat
  /\ BufferWork \in Nat
  /\ InputWork \in Nat

LEMMA PartsType == IInv => WorkParts
<1> SUFFICES ASSUME IInv PROVE WorkParts
  OBVIOUS
<1>1. WriterTurn \in 0..7
  <2>1. /\ wpc \in {"test_eos", "test_finished", "get_buffer", "fill", "audio",
                    "video", "exited"}
        /\ buf_out_notempty \in {0, 1}
    BY DEF IInv, TypeOK
  <2> QED
    BY <2>1 DEF WriterTurn
<1>2. EncoderWork \in Nat
  <2>1. produced \in 0..Frames
    BY DEF IInv, TypeOK
  <2>2. \A f \in Nat : \A p \in 0..f : 12 * (f - p) \in Nat
    OBVIOUS
  <2> QED
    BY <2>1, <2>2, SizesAssumption DEF EncoderWork
<1>3. BufferWork \in Nat
  <2>1. Len(out_buffers) \in Nat
    BY DEF IInv, TypeOK
  <2> QED
    BY <2>1 DEF BufferWork, One
<1>4. InputWork \in Nat
  <2>1. /\ videos \in Nat /\ videos <= Frames /\ fed \in Nat /\ fed <= Frames
        /\ demuxed \in Nat /\ demuxed <= Audio
    BY SizesAssumption DEF IInv, TypeOK
  <2>2. DemuxTurn[dpc] \in Nat
    BY DEF IInv, TypeOK, DemuxTurn
  <2> HIDE DEF DemuxTurn
  <2> QED
    BY <2>1, <2>2, SizesAssumption DEF InputWork
<1> QED
  BY <1>1, <1>2, <1>3, <1>4 DEF WorkParts

\* What one step may trade: a turn for a buffer, a buffer for a packet.
LEMMA Less ==
  ASSUME NEW t \in 0..7, NEW e \in Nat, NEW b \in Nat, NEW d \in Nat,
         NEW t2 \in 0..7, NEW e2 \in Nat, NEW b2 \in Nat, NEW d2 \in Nat,
         \/ t2 < t /\ e2 = e /\ b2 = b /\ d2 = d
         \/ e2 = e /\ b = b2 + 8 /\ d2 = d
         \/ t2 = t /\ e = e2 + 12 /\ b2 = b + 11 /\ d2 = d
         \/ t2 <= t + 2 /\ e2 = e /\ b = b2 + 3 /\ d2 = d
         \/ t2 = t /\ e2 < e /\ b2 = b /\ d2 = d
         \/ t2 = t /\ e2 = e /\ b2 = b /\ d2 < d
  PROVE  t2 + e2 + b2 + d2 < t + e + b + d
OBVIOUS

\* The same, said of Work and of the state after the step.
LEMMA Trade ==
  ASSUME WorkParts, WorkParts',
         \/ /\ WriterTurn' < WriterTurn /\ EncoderWork' = EncoderWork
            /\ BufferWork' = BufferWork /\ InputWork' = InputWork
         \/ /\ EncoderWork' = EncoderWork
            /\ BufferWork = BufferWork' + 8 /\ InputWork' = InputWork
         \/ /\ WriterTurn' = WriterTurn /\ EncoderWork = EncoderWork' + 12
            /\ BufferWork' = BufferWork + 11 /\ InputWork' = InputWork
         \/ /\ WriterTurn' <= WriterTurn + 2 /\ EncoderWork' = EncoderWork
            /\ BufferWork = BufferWork' + 3 /\ InputWork' = InputWork
         \/ /\ WriterTurn' = WriterTurn /\ EncoderWork' < EncoderWork
            /\ BufferWork' = BufferWork /\ InputWork' = InputWork
         \/ /\ WriterTurn' = WriterTurn /\ EncoderWork' = EncoderWork
            /\ BufferWork' = BufferWork /\ InputWork' < InputWork
  PROVE  Work' < Work
<1>1. WriterTurn' + EncoderWork' + BufferWork' + InputWork'
        < WriterTurn + EncoderWork + BufferWork + InputWork
  BY Less DEF WorkParts
<1> QED
  BY <1>1 DEF Work

\* The writer's steps that neither take a buffer nor give one back.
LEMMA WriterStepUses ==
  ASSUME IInv, WorkParts, WorkParts',
         \/ test_eos
         \/ test_finished
         \/ get_next_output_buffer_sleep
         \/ get_next_output_buffer_empty
         \/ OMX_FillThisBuffer
         \/ write_audio_frame
         \/ write_video_frame
  PROVE  Work' < Work
<1>1. EncoderWork' = EncoderWork /\ BufferWork' = BufferWork /\ InputWork' = InputWork
  <2>1. UNCHANGED <<produced, eos, returning, out_buffers, dpc, videos, demuxed, fed,
                    feeding>>
    BY DEF test_eos, test_finished, get_next_output_buffer_sleep,
           get_next_output_buffer_empty, OMX_FillThisBuffer, write_audio_frame,
           write_video_frame, buffers, encoder, output
  <2> QED
    BY <2>1 DEF EncoderWork, BufferWork, InputWork
<1>2. buf_out_notempty \in {0, 1} /\ buf_out_notempty' \in {0, 1}
  BY DEF IInv, TypeOK, test_eos, test_finished,
         get_next_output_buffer_sleep, get_next_output_buffer_empty,
         OMX_FillThisBuffer, write_audio_frame, write_video_frame, buffers
<1>3. WriterTurn' < WriterTurn
  <2>1. CASE test_eos
    <3>1. wpc = "test_eos" /\ wpc' \in {"test_finished", "get_buffer"}
      BY <2>1 DEF test_eos
    <3>2. WriterTurn = 4
      BY <3>1 DEF WriterTurn
    <3>3. CASE wpc' = "test_finished"
      BY <3>2, <3>3 DEF WriterTurn
    <3>4. CASE wpc' = "get_buffer"
      BY <1>2, <3>2, <3>4 DEF WriterTurn
    <3> QED
      BY <3>1, <3>3, <3>4
  <2>2. CASE test_finished
    <3>1. wpc = "test_finished" /\ wpc' \in {"exited", "get_buffer"}
      BY <2>2 DEF test_finished
    <3>2. WriterTurn = 3
      BY <3>1 DEF WriterTurn
    <3>3. CASE wpc' = "exited"
      BY <3>2, <3>3 DEF WriterTurn
    <3>4. CASE wpc' = "get_buffer"
      <4>1. WriterTurn' = IF asleep' THEN 0 ELSE 1 + buf_out_notempty'
        BY <3>4, Zenon DEF WriterTurn
      <4>2. 1 + buf_out_notempty' \in {1, 2}
        <5>1. \A n \in {0, 1} : 1 + n \in {1, 2}
          OBVIOUS
        <5> QED
          BY <1>2, <5>1
      <4>3. WriterTurn' \in {0, 1, 2}
        BY <4>1, <4>2
      <4> QED
        BY <3>2, <4>3
    <3> QED
      BY <3>1, <3>3, <3>4
  <2>3. CASE get_next_output_buffer_sleep
    BY <2>3 DEF WriterTurn, get_next_output_buffer_sleep
  <2>4. CASE get_next_output_buffer_empty
    BY <2>4 DEF WriterTurn, get_next_output_buffer_empty, writer
  <2>5. CASE OMX_FillThisBuffer
    BY <2>5 DEF WriterTurn, OMX_FillThisBuffer
  <2>6. CASE write_audio_frame
    BY <2>6 DEF WriterTurn, write_audio_frame
  <2>7. CASE write_video_frame
    BY <2>7 DEF WriterTurn, write_video_frame
  <2> QED
    BY <2>1, <2>2, <2>3, <2>4, <2>5, <2>6, <2>7
<1> QED
  BY <1>1, <1>3, Trade

LEMMA TakeUses ==
  ASSUME IInv, WorkParts, WorkParts', get_next_output_buffer_take
  PROVE  Work' < Work
<1>1. EncoderWork' = EncoderWork /\ InputWork' = InputWork
  BY DEF EncoderWork, InputWork, get_next_output_buffer_take, encoder, output
<1>2. returning' = returning /\ out_buffers # <<>>
      /\ out_buffers' = SubSeq(out_buffers, 1, Len(out_buffers) - 1)
  BY DEF get_next_output_buffer_take, encoder
<1>3. Len(out_buffers) \in Nat \ {0} /\ Len(out_buffers') = Len(out_buffers) - 1
  BY <1>2, DropLastFacts, EmptyLen DEF IInv, TypeOK
<1>4. BufferWork = BufferWork' + 8
  <2>1. One(returning') = One(returning) /\ One(returning) \in {0, 1}
    BY <1>2 DEF One
  <2> QED
    BY <1>3, <2>1 DEF BufferWork
<1> QED
  BY <1>1, <1>4, Trade

LEMMA QueueUses ==
  ASSUME IInv, WorkParts, WorkParts', omx_encoder_fill_buffer_done_queue
  PROVE  Work' < Work
<1>1. WriterTurn' = WriterTurn /\ InputWork' = InputWork
  BY DEF WriterTurn, InputWork, omx_encoder_fill_buffer_done_queue, writer, buffers
<1>2. EncoderWork = EncoderWork' + 12
  <2>1. produced \in 0..Frames /\ produced < Frames
        /\ produced' = produced + 1 /\ eos' = eos
    <3>1. produced < fed /\ produced' = produced + 1 /\ eos' = eos
      BY DEF omx_encoder_fill_buffer_done_queue
    <3>2. produced \in 0..Frames /\ fed \in 0..Frames
      BY DEF IInv, TypeOK
    <3> QED
      BY <3>1, <3>2, SizesAssumption
  <2> QED
    BY <2>1, SizesAssumption DEF EncoderWork
<1>3. BufferWork' = BufferWork + 11
  <2>1. filling \in Seq(Buffers) /\ filling # <<>> /\ returning' = Head(filling)
    BY DEF IInv, TypeOK, omx_encoder_fill_buffer_done_queue
  <2>2. returning' # NULL /\ returning = NULL
    BY <2>1, SizesAssumption DEF Buffers, omx_encoder_fill_buffer_done_queue
  <2>3. out_buffers' = out_buffers /\ Len(out_buffers) \in Nat
    BY DEF IInv, TypeOK, omx_encoder_fill_buffer_done_queue, buffers
  <2> QED
    BY <2>2, <2>3 DEF BufferWork, One
<1> QED
  BY <1>1, <1>2, <1>3, Trade

LEMMA ReturnUses ==
  ASSUME IInv, WorkParts, WorkParts', omx_encoder_fill_buffer_done_return
  PROVE  Work' < Work
<1>1. EncoderWork' = EncoderWork /\ InputWork' = InputWork
  BY DEF EncoderWork, InputWork, omx_encoder_fill_buffer_done_return, output
<1>2. BufferWork = BufferWork' + 3
  <2>1. returning # NULL /\ returning' = NULL
        /\ out_buffers' = Append(out_buffers, returning)
    BY DEF omx_encoder_fill_buffer_done_return
  <2>2. Len(out_buffers) \in Nat /\ Len(out_buffers') = Len(out_buffers) + 1
    BY <2>1, AppendFacts DEF IInv, TypeOK
  <2> QED
    BY <2>1, <2>2 DEF BufferWork, One
<1>3. WriterTurn' <= WriterTurn + 2
  <2>1. /\ wpc' = wpc
        /\ buf_out_notempty \in {0, 1}
        /\ \/ buf_out_notempty' = 1
           \/ buf_out_notempty' = buf_out_notempty /\ asleep' = asleep
    BY DEF IInv, TypeOK, omx_encoder_fill_buffer_done_return
  <2>2. CASE wpc = "get_buffer"
    BY <2>1, <2>2 DEF WriterTurn
  <2>3. CASE wpc # "get_buffer"
    <3>1. WriterTurn' = WriterTurn
      BY <2>1, <2>3 DEF WriterTurn
    <3> QED
      BY <3>1 DEF WorkParts
  <2> QED
    BY <2>2, <2>3
<1> QED
  BY <1>1, <1>2, <1>3, Trade

LEMMA EndUses ==
  ASSUME IInv, WorkParts, WorkParts', omx_event_handler_eos
  PROVE  Work' < Work
<1>1. WriterTurn' = WriterTurn /\ BufferWork' = BufferWork /\ InputWork' = InputWork
  BY DEF WriterTurn, BufferWork, InputWork, omx_event_handler_eos,
         writer, buffers, encoder
<1>2. EncoderWork' < EncoderWork
  <2>1. produced' = produced /\ produced \in 0..Frames /\ ~eos /\ eos'
    BY DEF IInv, TypeOK, omx_event_handler_eos, encoder
  <2> QED
    BY <2>1, SizesAssumption DEF EncoderWork
<1> QED
  BY <1>1, <1>2, Trade

\* The demuxer's turn goes down with its steps, or a packet pays for the next one.
LEMMA DemuxUses ==
  ASSUME IInv, WorkParts, WorkParts', DemuxStep
  PROVE  Work' < Work
<1>1. WriterTurn' = WriterTurn /\ BufferWork' = BufferWork /\ EncoderWork' = EncoderWork
  <2>1. UNCHANGED <<writer, buffers, encoder, output>>
    BY DEF DemuxStep, av_read_frame, wait_video, add_video, wait_audio, add_audio,
           video_finished, audio_finished, DemuxMoves
  <2> QED
    BY <2>1 DEF WriterTurn, BufferWork, EncoderWork, writer, buffers, encoder, output
<1>2. /\ videos \in Nat /\ videos <= Frames /\ fed \in Nat /\ fed <= Frames
      /\ demuxed \in Nat /\ demuxed <= Audio
  BY SizesAssumption DEF IInv, TypeOK
<1>3. UNCHANGED <<fed, feeding>>
  BY DEF DemuxStep, av_read_frame, wait_video, add_video, wait_audio, add_audio,
         video_finished, audio_finished, DemuxMoves
<1>4. /\ DemuxTurn["reading"] = 3 /\ DemuxTurn["video"] = 2 /\ DemuxTurn["audio"] = 2
      /\ DemuxTurn["add_video"] = 1 /\ DemuxTurn["add_audio"] = 1
      /\ DemuxTurn["video_finished"] = 1 /\ DemuxTurn["done"] = 0
  BY DEF DemuxTurn
<1>5. \/ /\ UNCHANGED <<videos, demuxed>>
         /\ \/ dpc = "reading" /\ dpc' \in {"video", "audio", "video_finished"}
            \/ dpc = "video" /\ dpc' = "add_video"
            \/ dpc = "audio" /\ dpc' = "add_audio"
            \/ dpc = "video_finished" /\ dpc' = "done"
      \/ /\ dpc = "add_video" /\ dpc' = "reading"
         /\ videos' = videos + 1 /\ demuxed' = demuxed /\ videos < Frames
      \/ /\ dpc = "add_audio" /\ dpc' = "reading"
         /\ videos' = videos /\ demuxed' = demuxed + 1 /\ demuxed < Audio
  BY DEF DemuxStep, av_read_frame, wait_video, add_video, wait_audio, add_audio,
         video_finished, audio_finished, DemuxMoves, IInv, InputInv
<1> HIDE DEF DemuxTurn
<1>6. InputWork' < InputWork
  <2>1. \/ /\ UNCHANGED <<videos, demuxed>>
           /\ DemuxTurn[dpc] \in 1..3 /\ DemuxTurn[dpc'] \in 0..2
           /\ DemuxTurn[dpc'] < DemuxTurn[dpc]
        \/ /\ DemuxTurn[dpc] = 1 /\ DemuxTurn[dpc'] = 3
           /\ videos' = videos + 1 /\ demuxed' = demuxed /\ videos < Frames
        \/ /\ DemuxTurn[dpc] = 1 /\ DemuxTurn[dpc'] = 3
           /\ videos' = videos /\ demuxed' = demuxed + 1 /\ demuxed < Audio
    BY <1>4, <1>5
  <2> DEFINE t == DemuxTurn[dpc]
             t2 == DemuxTurn[dpc']
             rest == (Frames - fed) + (IF feeding = "open" THEN 1 ELSE 0)
  <2>2. rest \in Nat
    BY <1>2, SizesAssumption
  <2>3. DemuxTurn' = DemuxTurn
    BY DEF DemuxTurn
  <2>4. /\ InputWork = 3 * ((Frames - videos) + (Audio - demuxed)) + t + rest
        /\ InputWork' = 3 * ((Frames - videos') + (Audio - demuxed')) + t2 + rest
    <3>1. \A a, b, c, d \in Int : a + b + c + d = a + b + (c + d)
      OBVIOUS
    <3>2. /\ t \in Nat /\ t2 \in Nat /\ Frames - fed \in Int
          /\ 3 * ((Frames - videos) + (Audio - demuxed)) \in Int
          /\ 3 * ((Frames - videos') + (Audio - demuxed')) \in Int
          /\ (IF feeding = "open" THEN 1 ELSE 0) \in Int
      BY <1>2, <2>1, SizesAssumption
    <3>3. /\ InputWork = 3 * ((Frames - videos) + (Audio - demuxed)) + t
                           + (Frames - fed) + (IF feeding = "open" THEN 1 ELSE 0)
          /\ InputWork' = 3 * ((Frames - videos') + (Audio - demuxed')) + t2
                           + (Frames - fed) + (IF feeding = "open" THEN 1 ELSE 0)
      BY <1>3, <2>3, Zenon DEF InputWork
    <3> QED
      BY <3>1, <3>2, <3>3
  <2> HIDE DEF t, t2, rest
  <2>5. \/ /\ UNCHANGED <<videos, demuxed>>
           /\ t \in 1..3 /\ t2 \in 0..2 /\ t2 < t
        \/ /\ t = 1 /\ t2 = 3
           /\ videos' = videos + 1 /\ demuxed' = demuxed /\ videos < Frames
        \/ /\ t = 1 /\ t2 = 3
           /\ videos' = videos /\ demuxed' = demuxed + 1 /\ demuxed < Audio
    BY <2>1 DEF t, t2
  <2> QED
    BY <1>2, <2>2, <2>4, <2>5, SizesAssumption
<1> QED
  BY <1>1, <1>6, Trade

LEMMA DecodeUses ==
  ASSUME IInv, WorkParts, WorkParts', DecodeStep
  PROVE  Work' < Work
<1>1. WriterTurn' = WriterTurn /\ BufferWork' = BufferWork /\ EncoderWork' = EncoderWork
  <2>1. UNCHANGED <<writer, buffers, encoder, output>>
    BY DEF DecodeStep, decode_thread_feeds, decode_thread_sends_eos,
           decode_thread_stops, DecodeEnds
  <2> QED
    BY <2>1 DEF WriterTurn, BufferWork, EncoderWork, writer, buffers, encoder, output
<1>2. InputWork' < InputWork
  <2>1. /\ UNCHANGED <<dpc, videos, demuxed>> /\ feeding = "open"
        /\ \/ fed < videos /\ fed' = fed + 1 /\ feeding' = "open"
           \/ fed' = fed /\ feeding' # "open"
    BY DEF DecodeStep, decode_thread_feeds, decode_thread_sends_eos,
           decode_thread_stops, DecodeEnds
  <2>2. fed \in Nat /\ videos \in Nat /\ videos <= Frames
    BY SizesAssumption DEF IInv, TypeOK
  <2> DEFINE before == 3 * ((Frames - videos) + (Audio - demuxed)) + DemuxTurn[dpc]
  <2>3. before \in Nat
    <3>1. demuxed \in Nat /\ demuxed <= Audio /\ DemuxTurn[dpc] \in Nat
      BY SizesAssumption DEF IInv, TypeOK, DemuxTurn
    <3> QED
      BY <2>2, <3>1, SizesAssumption
  <2>4. before' = before
    BY <2>1 DEF DemuxTurn
  <2> HIDE DEF before
  <2>5. /\ InputWork = before + (Frames - fed) + (IF feeding = "open" THEN 1 ELSE 0)
        /\ InputWork' = before' + (Frames - fed') + (IF feeding' = "open" THEN 1 ELSE 0)
    BY Zenon DEF InputWork, before
  <2> QED
    BY <2>1, <2>2, <2>3, <2>4, <2>5, SizesAssumption
<1> QED
  BY <1>1, <1>2, Trade

\* A spurious wake-up only lets the writer go back to sleep.
LEMMA WakeupRestoresOne ==
  ASSUME IInv, WorkParts, SpuriousWakeup
  PROVE  Work' = Work + 1
<1>1. wpc = "get_buffer" /\ wpc' = "get_buffer" /\ asleep /\ asleep' = FALSE
      /\ buf_out_notempty' = 0
  BY DEF IInv, HeldInv, NoLostBufferWakeup, SpuriousWakeup, buffers
<1>2. WriterTurn = 0 /\ WriterTurn' = 1
  BY <1>1 DEF WriterTurn
<1>3. EncoderWork' = EncoderWork /\ BufferWork' = BufferWork /\ InputWork' = InputWork
  BY DEF EncoderWork, BufferWork, InputWork, SpuriousWakeup,
         buffers, encoder, output
<1>4. \A e, b, d \in Nat : 1 + e + b + d = (0 + e + b + d) + 1
  OBVIOUS
<1>5. WriterTurn' + EncoderWork' + BufferWork' + InputWork'
        = (WriterTurn + EncoderWork + BufferWork + InputWork) + 1
  BY <1>2, <1>3, <1>4 DEF WorkParts
<1> QED
  BY <1>5 DEF Work

\* The writer's loop does not go round for ever, for every number of buffers,
\* packets and audio packets.
THEOREM WorkRunsOutHolds == Spec => WorkRunsOut
<1>1. IInv /\ IInv' /\ [Next]_vars => [UsesUpWork]_vars
  <2> SUFFICES ASSUME IInv, IInv', Next PROVE UsesUpWork
    BY DEF UsesUpWork
  <2>1. WorkParts /\ WorkParts'
    <3>1. WorkParts
      BY PartsType
    <3>2. IInv' => WorkParts'
      BY PartsType, PTL
    <3> QED
      BY <3>1, <3>2
  <2>2. Work \in Nat
    <3>1. \A t \in 0..7, e, b, d \in Nat : t + e + b + d \in Nat
      OBVIOUS
    <3> QED
      BY <2>1, <3>1 DEF WorkParts, Work
  <2>3. CASE SpuriousWakeup
    BY <2>1, <2>2, <2>3, WakeupRestoresOne DEF UsesUpWork
  <2>4. CASE get_next_output_buffer_take
    BY <2>1, <2>2, <2>4, TakeUses DEF UsesUpWork
  <2>5. CASE WriterStep /\ ~get_next_output_buffer_take
    BY <2>1, <2>2, <2>5, WriterStepUses DEF UsesUpWork, WriterStep
  <2>6. CASE EncoderStep
    BY <2>1, <2>2, <2>6, QueueUses, ReturnUses DEF UsesUpWork, EncoderStep
  <2>7. CASE omx_event_handler_eos
    BY <2>1, <2>2, <2>7, EndUses DEF UsesUpWork
  <2>8. CASE DemuxStep
    BY <2>1, <2>2, <2>8, DemuxUses DEF UsesUpWork
  <2>9. CASE DecodeStep
    BY <2>1, <2>2, <2>9, DecodeUses DEF UsesUpWork
  <2> QED
    BY <2>3, <2>4, <2>5, <2>6, <2>7, <2>8, <2>9 DEF Next
<1> QED
  BY <1>1, InvariantHolds, PTL DEF Spec, WorkRunsOut
=============================================================================
