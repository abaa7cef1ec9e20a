---------------------------- MODULE StartupProofs ----------------------------
(***************************************************************************)
(* Proofs about Startup, for files with any number of streams and packets. *)
(***************************************************************************)
EXTENDS Startup, NatSetInduction, SequenceTheorems, FiniteSetTheorems

FileInv ==
  /\ input_context \in Seq(Kinds) /\ Len(input_context) \in 1..MaxStreams
  /\ input_context_ptr \in {"NULL", "garbage"}

\* main creates each thread once, so that each starts at most once.
MainInv ==
  /\ pc["main"] \in {"init", "create", "join", "cleanup", "aborted", "exited", "undefined"}
  /\ pc["main"] = "init" => nth = 1 /\ \A t \in Threads \ {"main"} : pc[t] = "none"
  /\ pc["main"] = "create" =>
       /\ nth <= 1 => pc["demux"] = "none"
       /\ nth <= 2 => pc["decode"] = "none"
       /\ pc["writer"] = "none"
  /\ pc["main"] = "undefined" =>
       input_context_ptr = "garbage" \/ pc[Workers[nth]] = "none"

BothKinds == OfKind("video") # {} /\ OfKind("audio") # {}
TheVideo  == Last(OfKind("video"))
TheAudio  == First(OfKind("audio"))

\* audio_codec tells that demux_thread has found its streams, and from set_index on
\* video_stream_index has one of them.
DemuxInv ==
  /\ pc["demux"] \in {"none", "start", "set_index", "extract", "video", "add_video", "audio",
                      "add_audio", "audio_finished", "exited"}
  /\ pc["demux"] \in {"none", "start"} => audio_codec = 0
  /\ pc["demux"] \notin {"none", "start", "exited"} => audio_codec # 0
  /\ audio_codec # 0 => BothKinds /\ audio_codec = Last(OfKind("audio"))
  /\ audio_codec # 0 /\ pc["demux"] # "set_index" => video_stream_index = TheVideo

\* Once decode_thread has set the encoder up, is_running is what configuring it makes of it.
DecodeInv ==
  /\ pc["decode"] \in {"none", "start", "test_count", "test_finished", "get", "feed", "eos",
                       "no_buffer", "exited"}
  /\ pc["decode"] \in {"none", "start"} <=> encoder = "garbage"
  /\ encoder # "garbage" => (is_running <=> encoder = "configured")

\* The writer has looked at the encoder after it was set up, or has been noted down.
EncoderInv ==
  /\ pc["writer"] \in {"none", "start", "pts_offset", "lock", "blocked", "test_running", "to_wait",
                       "waiting", "loop", "running", "starved", "exited", "undefined"}
  /\ pc["writer"] \in {"test_running", "to_wait", "waiting", "loop", "running",
                       "starved", "exited"}
        /\ "encoder" \notin early
       => encoder # "garbage"
  /\ WriterRunsConfigured

\* The output streams made in the turns of the loop before turn k.
MadeBefore(k) ==
  /\ video_stream = IF TheVideo < k THEN TheVideo ELSE 0
  /\ audio_stream = IF TheAudio < k THEN TheAudio ELSE 0
  /\ output_context =
       CASE TheVideo < k /\ TheAudio < k ->
              IF TheVideo < TheAudio THEN <<TheVideo, TheAudio>> ELSE <<TheAudio, TheVideo>>
         [] TheVideo < k /\ ~(TheAudio < k) -> <<TheVideo>>
         [] TheAudio < k /\ ~(TheVideo < k) -> <<TheAudio>>
         [] OTHER -> <<>>

\* The writer has gone through the streams before i, and if it did so after the index
\* was set it has made the right ones.
LoopInv ==
  /\ pc["writer"] = "none" => i = 1
  /\ pc["writer"] = "start" => i <= Len(input_context)
  /\ pc["writer"] \notin {"none", "start"} => i = Len(input_context) + 1
  /\ i = 1 => output_context = <<>> /\ video_stream = 0 /\ audio_stream = 0
  /\ "index" \notin early /\ i # 1 => IndexSet /\ MadeBefore(i)

\* And its index is the right one exactly if the streams are aligned.
IndexedInv ==
  /\ pc["writer"] \in {"none", "start", "pts_offset"} => indexed = 0
  /\ "index" \notin early /\ pc["writer"] \notin {"none", "start", "pts_offset"} =>
       (indexed = video_stream <=> Aligned)

WriterUndefinedInv == pc["writer"] = "undefined" => early # {} \/ ~Aligned

IInv ==
  /\ TypeOK /\ FileInv /\ MainInv /\ DemuxInv /\ DecodeInv /\ EncoderInv
  /\ LoopInv /\ IndexedInv /\ WriterUndefinedInv
-----------------------------------------------------------------------------
(* Streams *)

LEMMA SameStreams ==
  ASSUME UNCHANGED input_context
  PROVE  /\ TheVideo' = TheVideo /\ TheAudio' = TheAudio
         /\ OfKind("video")' = OfKind("video") /\ OfKind("audio")' = OfKind("audio")
         /\ (Aligned' <=> Aligned) /\ (BothKinds' <=> BothKinds)
<1>2. OfKind("video")' = OfKind("video") /\ OfKind("audio")' = OfKind("audio")
  BY DEF OfKind
<1>3. TheVideo' = TheVideo /\ TheAudio' = TheAudio /\ (BothKinds' <=> BothKinds)
  BY <1>2 DEF TheVideo, TheAudio, BothKinds
<1>4. Aligned' <=> Aligned
  BY <1>2 DEF Aligned
<1> QED
  BY <1>2, <1>3, <1>4

\* First and Last are what their names say.
LEMMA Extremes ==
  ASSUME FileInv, NEW kind, OfKind(kind) # {}
  PROVE  /\ First(OfKind(kind)) \in OfKind(kind) /\ \A r \in OfKind(kind) : First(OfKind(kind)) <= r
         /\ Last(OfKind(kind)) \in OfKind(kind) /\ \A r \in OfKind(kind) : Last(OfKind(kind)) >= r
<1>1. PICK S : S = OfKind(kind)
  OBVIOUS
<1>2. PICK m \in Nat : m = Len(input_context)
  BY DEF FileInv
<1>3. S \in SUBSET Nat /\ S \in SUBSET (0..m) /\ S # {}
  BY <1>1, <1>2 DEF OfKind
<1>4. \E s \in S : \A r \in S : s <= r
  BY <1>3, Least
<1>5. \E s \in S : \A r \in S : s >= r
  <2>1. PICK s \in S : \A r \in S : r <= s
    BY <1>3, Greatest
  <2>2. \A r \in S : s >= r
    BY <1>3, <2>1
  <2> QED
    BY <2>2
<1>6. First(S) \in S /\ \A r \in S : First(S) <= r
  BY <1>4, Zenon DEF First
<1>7. Last(S) \in S /\ \A r \in S : Last(S) >= r
  BY <1>5, Zenon DEF Last
<1> QED
  BY <1>1, <1>6, <1>7

LEMMA VideoAndAudio ==
  ASSUME FileInv, BothKinds
  PROVE  /\ TheVideo \in 1..Len(input_context) /\ input_context[TheVideo] = "video"
         /\ TheAudio \in 1..Len(input_context) /\ input_context[TheAudio] = "audio"
         /\ \A s \in 1..Len(input_context) : input_context[s] = "audio" => TheAudio <= s
         /\ Last(OfKind("audio")) \in 1..Len(input_context)
<1>1. TheVideo \in OfKind("video") /\ TheAudio \in OfKind("audio") /\ Last(OfKind("audio")) \in OfKind("audio")
      /\ \A r \in OfKind("audio") : TheAudio <= r
  BY Extremes DEF BothKinds, TheVideo, TheAudio
<1> QED
  BY <1>1 DEF OfKind

\* The video stream is one of the first two and the audio stream before it, if any.
LEMMA AlignedMeans ==
  ASSUME FileInv, BothKinds
  PROVE  Aligned <=> TheVideo = 1 \/ (TheVideo = 2 /\ TheAudio = 1)
<1>1. /\ TheVideo \in 1..Len(input_context) /\ TheAudio \in 1..Len(input_context)
      /\ input_context[TheAudio] = "audio" /\ Len(input_context) \in Nat
      /\ OfKind("video") # {}
  BY VideoAndAudio DEF FileInv, BothKinds
<1>2. Aligned <=> \A s \in 1..(TheVideo - 1) : input_context[s] = "audio" /\ s = TheAudio
  BY <1>1 DEF Aligned, TheVideo, TheAudio
<1>3. CASE TheVideo = 1
  BY <1>2, <1>3
<1>4. CASE TheVideo = 2
  <2>1. \A s \in 1..(TheVideo - 1) : s = 1
    BY <1>4
  <2>2. 1 \in 1..(TheVideo - 1)
    BY <1>4
  <2> QED
    BY <1>1, <1>2, <1>4, <2>1, <2>2
<1>5. CASE TheVideo > 2
  <2>1. 1 \in 1..(TheVideo - 1) /\ 2 \in 1..(TheVideo - 1)
    BY <1>1, <1>5
  <2> QED
    BY <1>2, <1>5, <2>1
<1> QED
  BY <1>1, <1>3, <1>4, <1>5

LEMMA ThreadNames ==
  /\ "main" \in Threads /\ "demux" \in Threads /\ "decode" \in Threads /\ "writer" \in Threads
  /\ \A t \in Threads \ {"main"} : t \in {"demux", "decode", "writer"}
  /\ Workers[1] = "demux" /\ Workers[2] = "decode" /\ Workers[3] = "writer"
BY DEF Threads, Workers
-----------------------------------------------------------------------------
(* One lemma per action. *)

USE BoundsAssumption, ThreadNames

LEMMA InitIInv == Init => IInv
<1> SUFFICES ASSUME Init PROVE IInv
  OBVIOUS
<1>1. FileInv
  <2>1. PICK k \in 1..MaxStreams : input_context \in [1..k -> Kinds]
    BY DEF Init
  <2>2. input_context \in Seq(Kinds) /\ Len(input_context) = k
    BY <2>1
  <2> QED
    BY <2>1, <2>2 DEF Init, FileInv
<1>2. TypeOK
  <2>1. output_context \in Seq(1..MaxStreams) /\ {video_stream, audio_stream, indexed} \subseteq 0..MaxStreams
    BY DEF Init
  <2>2. pc = [t \in Threads |-> IF t = "main" THEN "init" ELSE "none"]
    BY DEF Init
  <2>3. /\ nth \in 1..3 /\ video_stream_index \in 0..MaxStreams /\ audio_codec \in 0..MaxStreams
        /\ queued \in Nat /\ audio_queued \in Nat /\ finished \in BOOLEAN /\ i \in 1..(MaxStreams + 1)
    <3>1. nth = 1 /\ video_stream_index \in 0..MaxStreams /\ audio_codec = 0 /\ queued = 0
          /\ audio_queued = 0 /\ i = 1
      BY DEF Init
    <3>2. nth \in 1..3 /\ audio_codec \in 0..MaxStreams /\ queued \in Nat /\ audio_queued \in Nat
          /\ i \in 1..(MaxStreams + 1)
      BY <3>1
    <3>3. finished \in BOOLEAN
      BY DEF Init
    <3> QED
      BY <3>1, <3>2, <3>3
  <2>4. /\ encoder \in {"garbage", "initialised", "configured"}
        /\ is_running \in BOOLEAN /\ is_running_mutex \in {"free", "garbage"}
        /\ is_running_cv \in {"none", "asleep", "forgotten", "woken"}
        /\ early \subseteq {"index", "encoder"}
    BY DEF Init
  <2> QED
    BY <2>1, <2>2, <2>3, <2>4 DEF TypeOK
<1>3. \A t \in Threads : pc[t] = IF t = "main" THEN "init" ELSE "none"
  BY DEF Init
<1>4. MainInv /\ DemuxInv /\ DecodeInv
  BY <1>3 DEF Init, MainInv, DemuxInv, DecodeInv
<1>5. EncoderInv /\ LoopInv /\ IndexedInv /\ WriterUndefinedInv
  BY <1>3 DEF Init, EncoderInv, LoopInv, IndexedInv, WriterUndefinedInv, WriterRunsConfigured
<1> QED
  BY <1>1, <1>2, <1>4, <1>5 DEF IInv

\* The invariants of the writer when the writer does nothing.
LEMMA WriterIdle ==
  ASSUME IInv, UNCHANGED <<file, output>>, pc'["writer"] = pc["writer"], 
         encoder # "garbage" => encoder' # "garbage",
         encoder = "configured" => encoder' = "configured",
         IndexSet => IndexSet'
  PROVE  EncoderInv' /\ LoopInv' /\ IndexedInv' /\ WriterUndefinedInv'
<1> USE SameStreams DEF file, output
<1>1. EncoderInv'
  BY DEF IInv, EncoderInv, WriterRunsConfigured
<1>2. LoopInv'
  BY DEF IInv, LoopInv, MadeBefore
<1>3. IndexedInv' /\ WriterUndefinedInv'
  BY DEF IInv, IndexedInv, WriterUndefinedInv
<1> QED
  BY <1>1, <1>2, <1>3

\* main's steps, and those of the other threads, leave DemuxInv and DecodeInv alone where
\* they leave its thread alone.
LEMMA DemuxIdle ==
  ASSUME IInv, UNCHANGED <<file, shared>>,
         pc'["demux"] = pc["demux"] \/ (pc["demux"] = "none" /\ pc'["demux"] = "start")
  PROVE  DemuxInv' /\ (IndexSet => IndexSet')
BY SameStreams DEF file, shared, IInv, DemuxInv, IndexSet

LEMMA DecodeIdle ==
  ASSUME IInv, UNCHANGED <<encoder, is_running>>,
         pc'["decode"] = pc["decode"] \/ (pc["decode"] = "none" /\ pc'["decode"] = "start")
  PROVE  DecodeInv'
BY DEF IInv, DecodeInv

\* A worker's step is nothing to MainInv.
LEMMA MainIdle ==
  ASSUME IInv, UNCHANGED <<nth, file>>, pc'["main"] = pc["main"],
         pc["main"] # "undefined",
         \A t \in Threads \ {"main"} : pc[t] = "none" => pc'[t] = "none"
  PROVE  MainInv'
BY DEF file, IInv, MainInv


LEMMA Keep_stutter ==
  ASSUME IInv, UNCHANGED vars
  PROVE  IInv'
<1>1. UNCHANGED <<pc, nth, file, shared, queue, enc, output>>
  BY DEF vars
<1>2. TypeOK' /\ FileInv' /\ MainInv'
  BY <1>1 DEF IInv, TypeOK, FileInv, MainInv, file, shared, queue, enc, output
<1>3. DemuxInv' /\ DecodeInv' /\ (IndexSet => IndexSet')
  BY <1>1, DemuxIdle, DecodeIdle DEF enc
<1>4. EncoderInv' /\ LoopInv' /\ IndexedInv' /\ WriterUndefinedInv'
  BY <1>1, <1>3, WriterIdle DEF enc
<1> QED
  BY <1>2, <1>3, <1>4 DEF IInv

LEMMA Keep_init_global_ctx ==
  ASSUME IInv, init_global_ctx
  PROVE  IInv'
<1>1. /\ pc["main"] = "init"
      /\ UNCHANGED <<nth, file, shared, queue, enc, output>>
  BY DEF init_global_ctx, Go, IInv, TypeOK
<1>2. PICK to \in {"create", "aborted", "undefined"} :
        /\ pc' = [pc EXCEPT !["main"] = to]
        /\ to = "undefined" => input_context_ptr = "garbage"
  BY DEF init_global_ctx, Go
<1>3. TypeOK' /\ FileInv' /\ MainInv'
  BY <1>1, <1>2 DEF IInv, TypeOK, FileInv, MainInv, file, shared, queue, enc, output
<1>4. DemuxInv' /\ DecodeInv' /\ (IndexSet => IndexSet')
  BY <1>1, <1>2, DemuxIdle, DecodeIdle DEF enc
<1>5. EncoderInv' /\ LoopInv' /\ IndexedInv' /\ WriterUndefinedInv'
  BY <1>1, <1>2, <1>4, WriterIdle DEF enc
<1> QED
  BY <1>3, <1>4, <1>5 DEF IInv

\* The writer starts with its loop before the first stream.
LEMMA Keep_create_thread ==
  ASSUME IInv, create_thread
  PROVE  IInv'
<1>1. /\ pc["main"] = "create" /\ nth \in {1, 2, 3} /\ nth' \in 1..3
      /\ nth' = IF nth = 3 THEN 1 ELSE nth + 1
      /\ UNCHANGED <<file, shared, queue, enc, output>>
  BY DEF create_thread, IInv, TypeOK
<1>2. PICK to \in {"start", "none"}, w \in {"demux", "decode", "writer"} :
        /\ pc' = [pc EXCEPT !["main"] = IF nth = 3 THEN "join" ELSE "create", ![w] = to]
        /\ w = Workers[nth]
  BY <1>1 DEF create_thread
<1>3. /\ pc[w] = "none" /\ pc'[w] = to /\ pc'["main"] = IF nth = 3 THEN "join" ELSE "create"
      /\ \A t \in Threads \ {"main", w} : pc'[t] = pc[t]
      /\ w = "demux" <=> nth = 1
      /\ w = "decode" <=> nth = 2
      /\ w = "writer" <=> nth = 3
  BY <1>1, <1>2 DEF IInv, MainInv, TypeOK
<1>4. TypeOK'
  BY <1>1, <1>2 DEF IInv, TypeOK, shared, queue, enc, output
<1>5. FileInv' /\ MainInv'
  BY <1>1, <1>3 DEF IInv, FileInv, MainInv, file
<1>6. DemuxInv' /\ DecodeInv' /\ (IndexSet => IndexSet')
  BY <1>1, <1>3, DemuxIdle, DecodeIdle DEF enc
<1>7. CASE w # "writer"
  <2>1. EncoderInv' /\ LoopInv' /\ IndexedInv' /\ WriterUndefinedInv'
    BY <1>1, <1>3, <1>6, <1>7, WriterIdle DEF enc
  <2> QED
    BY <1>4, <1>5, <1>6, <2>1 DEF IInv
<1>8. CASE w = "writer"
  <2>1. EncoderInv' /\ IndexedInv' /\ WriterUndefinedInv'
    <3>1. pc["writer"] = "none" /\ pc'["writer"] \in {"start", "none"}
      BY <1>2, <1>3, <1>8
    <3>2. indexed' = 0
      BY <1>1, <3>1 DEF IInv, IndexedInv, output
    <3> QED
      BY <3>1, <3>2 DEF EncoderInv, IndexedInv, WriterUndefinedInv, WriterRunsConfigured
  <2>2. LoopInv'
    BY <1>1, <1>2, <1>3, <1>8 DEF IInv, LoopInv, FileInv, file, output
  <2> QED
    BY <1>4, <1>5, <1>6, <2>1, <2>2 DEF IInv
<1> QED
  BY <1>7, <1>8

LEMMA Keep_join_thread ==
  ASSUME IInv, join_thread
  PROVE  IInv'
<1>1. /\ pc["main"] = "join" /\ nth \in 1..3 /\ nth' \in 1..3
      /\ UNCHANGED <<file, shared, queue, enc, output>>
  BY DEF join_thread, Go, IInv, TypeOK
<1>2. PICK to \in {"cleanup", "join", "undefined"} :
        /\ pc' = [pc EXCEPT !["main"] = to]
        /\ to = "undefined" => nth' = nth /\ pc[Workers[nth]] = "none"
  BY DEF join_thread, Go
<1>3. TypeOK' /\ FileInv'
  BY <1>1, <1>2 DEF IInv, TypeOK, FileInv, file, shared, queue, enc, output
<1>4. MainInv'
  <2>1. nth = 1 \/ nth = 2 \/ nth = 3
    BY <1>1
  <2>2. Workers[nth] \in Threads \ {"main"}
    BY <2>1
  <2>3. \A t \in Threads \ {"main"} : pc'[t] = pc[t]
    BY <1>2 DEF IInv, TypeOK
  <2>4. pc'["main"] = to
    BY <1>2 DEF IInv, TypeOK
  <2>5. to = "undefined" => pc'[Workers[nth']] = "none"
    BY <1>2, <2>2, <2>3
  <2> QED
    BY <2>4, <2>5 DEF MainInv
<1>5. DemuxInv' /\ DecodeInv' /\ (IndexSet => IndexSet')
  BY <1>1, <1>2, DemuxIdle, DecodeIdle DEF enc, IInv, TypeOK
<1>6. EncoderInv' /\ LoopInv' /\ IndexedInv' /\ WriterUndefinedInv'
  BY <1>1, <1>2, <1>5, WriterIdle DEF enc, IInv, TypeOK
<1> QED
  BY <1>3, <1>4, <1>5, <1>6 DEF IInv

LEMMA Keep_main_cleanup ==
  ASSUME IInv, main_cleanup
  PROVE  IInv'
<1>1. /\ pc["main"] = "cleanup" /\ pc' = [pc EXCEPT !["main"] = "exited"]
      /\ queued' = 0 /\ audio_queued' = 0
      /\ UNCHANGED <<nth, file, shared, finished, enc, output>>
  BY DEF main_cleanup, Go
<1>2. TypeOK' /\ FileInv' /\ MainInv'
  BY <1>1 DEF IInv, TypeOK, FileInv, MainInv, file, shared, enc, output
<1>3. DemuxInv' /\ DecodeInv' /\ (IndexSet => IndexSet')
  BY <1>1, DemuxIdle, DecodeIdle DEF enc, IInv, TypeOK
<1>4. EncoderInv' /\ LoopInv' /\ IndexedInv' /\ WriterUndefinedInv'
  BY <1>1, <1>3, WriterIdle DEF enc, IInv, TypeOK
<1> QED
  BY <1>2, <1>3, <1>4 DEF IInv

-----------------------------------------------------------------------------
(* demux_thread *)

LEMMA Keep_init_streams_and_codecs ==
  ASSUME IInv, pc["main"] # "undefined", init_streams_and_codecs
  PROVE  IInv'
<1>1. /\ pc["demux"] = "start" /\ UNCHANGED <<nth, file, video_stream_index, queue, enc, output>>
      /\ audio_codec = 0
  BY DEF init_streams_and_codecs, Go, IInv, DemuxInv
<1>2. PICK to \in {"set_index", "exited"} :
        /\ pc' = [pc EXCEPT !["demux"] = to]
        /\ to = "set_index" => BothKinds /\ audio_codec' = Last(OfKind("audio"))
        /\ to = "exited" => audio_codec' = audio_codec
  BY DEF init_streams_and_codecs, Go, BothKinds
<1>3. /\ pc'["demux"] = to /\ pc'["main"] = pc["main"] /\ pc'["decode"] = pc["decode"]
      /\ pc'["writer"] = pc["writer"]
  BY <1>2 DEF IInv, TypeOK
<1>4. BothKinds => Last(OfKind("audio")) \in 1..MaxStreams
  BY VideoAndAudio DEF IInv, FileInv
<1>5. TypeOK' /\ FileInv'
  BY <1>1, <1>2, <1>4 DEF IInv, TypeOK, FileInv, file, queue, enc, output
<1>6. MainInv' /\ DecodeInv'
  BY <1>1, <1>3, MainIdle, DecodeIdle DEF enc
<1>7. DemuxInv'
  <2>1. input_context' = input_context
    BY <1>1 DEF file
  <2> QED
    BY <1>1, <1>2, <1>3, <1>4, <2>1, SameStreams DEF DemuxInv
<1>8. ~IndexSet
  BY <1>1 DEF IndexSet
<1>9. EncoderInv' /\ LoopInv' /\ IndexedInv' /\ WriterUndefinedInv'
  BY <1>1, <1>3, <1>8, WriterIdle DEF enc
<1> QED
  BY <1>5, <1>6, <1>7, <1>9 DEF IInv

LEMMA Keep_set_video_stream_index ==
  ASSUME IInv, pc["main"] # "undefined", set_video_stream_index
  PROVE  IInv'
<1>1. /\ pc["demux"] = "set_index" /\ pc' = [pc EXCEPT !["demux"] = "extract"]
      /\ video_stream_index' = TheVideo
      /\ UNCHANGED <<nth, file, audio_codec, queue, enc, output>>
  BY DEF set_video_stream_index, Go, TheVideo
<1>2. /\ pc'["demux"] = "extract" /\ pc'["main"] = pc["main"] /\ pc'["decode"] = pc["decode"]
      /\ pc'["writer"] = pc["writer"]
  BY <1>1 DEF IInv, TypeOK
<1>3. BothKinds /\ TheVideo \in 1..MaxStreams
  <2>1. BothKinds
    BY <1>1 DEF IInv, DemuxInv
  <2> QED
    BY <2>1, VideoAndAudio DEF IInv, FileInv
<1>4. TypeOK' /\ FileInv'
  BY <1>1, <1>3 DEF IInv, TypeOK, FileInv, file, queue, enc, output
<1>5. MainInv' /\ DecodeInv'
  BY <1>1, <1>2, MainIdle, DecodeIdle DEF enc
<1>6. DemuxInv'
  <2>1. input_context' = input_context
    BY <1>1 DEF file
  <2> QED
    BY <1>1, <1>2, <1>3, <2>1, SameStreams DEF IInv, DemuxInv
<1>7. ~IndexSet
  BY <1>1 DEF IndexSet
<1>8. EncoderInv' /\ LoopInv' /\ IndexedInv' /\ WriterUndefinedInv'
  BY <1>1, <1>2, <1>7, WriterIdle DEF enc
<1> QED
  BY <1>4, <1>5, <1>6, <1>8 DEF IInv

\* extract_streams
ExtractStep == av_read_frame \/ wait_video \/ add_video \/ wait_audio \/ add_audio
               \/ video_finished \/ audio_finished

LEMMA Keep_ExtractStep ==
  ASSUME IInv, pc["main"] # "undefined", ExtractStep
  PROVE  IInv'
<1>1. /\ UNCHANGED <<nth, file, shared, enc, output>>
      /\ queued' \in Nat /\ audio_queued' \in Nat /\ finished' \in BOOLEAN
  <2>1. UNCHANGED <<nth, file, shared, enc, output>>
    BY DEF ExtractStep, av_read_frame, wait_video, add_video, wait_audio, add_audio,
           video_finished, audio_finished, DemuxMoves
  <2>2. queued \in Nat /\ audio_queued \in Nat /\ finished \in BOOLEAN
    BY DEF IInv, TypeOK
  <2>3. queued' \in Nat /\ audio_queued' \in Nat
    BY <2>2 DEF ExtractStep, av_read_frame, wait_video, add_video, wait_audio, add_audio,
           video_finished, audio_finished, DemuxMoves, queue
  <2>4. finished' \in BOOLEAN
    BY <2>2 DEF ExtractStep, av_read_frame, wait_video, add_video, wait_audio, add_audio,
           video_finished, audio_finished, DemuxMoves, queue
  <2> QED
    BY <2>1, <2>3, <2>4
<1>2. PICK to \in {"extract", "video", "add_video", "audio", "add_audio", "audio_finished",
                   "exited"} :
        /\ pc' = [pc EXCEPT !["demux"] = to]
        /\ pc["demux"] \in {"extract", "video", "add_video", "audio", "add_audio",
                            "audio_finished"}
  BY DEF ExtractStep, av_read_frame, wait_video, add_video, wait_audio, add_audio,
         video_finished, audio_finished, DemuxMoves, Go
<1>3. /\ pc'["demux"] = to /\ pc'["main"] = pc["main"] /\ pc'["decode"] = pc["decode"]
      /\ pc'["writer"] = pc["writer"]
  BY <1>2 DEF IInv, TypeOK
<1>4. TypeOK' /\ FileInv'
  <2>1. pc' \in [Threads -> {"none", "init", "create", "join", "cleanup", "aborted", "start",
                             "set_index", "extract", "video", "add_video", "audio",
                             "add_audio", "audio_finished", "test_count", "test_finished",
                             "get", "feed", "eos", "no_buffer", "pts_offset", "lock", "blocked",
                             "test_running", "to_wait", "waiting", "loop", "running", "starved",
                             "exited", "undefined"}]
    BY <1>2 DEF IInv, TypeOK
  <2> QED
    BY <1>1, <2>1 DEF IInv, TypeOK, FileInv, file, shared, enc, output
<1>5. MainInv' /\ DecodeInv'
  <2>1. \A t \in Threads \ {"main"} : pc[t] = "none" => pc'[t] = "none"
    <3>1. \A t \in Threads \ {"main", "demux"} : pc'[t] = pc[t]
      BY <1>2 DEF IInv, TypeOK
    <3>2. pc["demux"] # "none"
      BY <1>2
    <3> QED
      BY <3>1, <3>2
  <2>2. MainInv'
    BY <1>1, <1>3, <2>1, MainIdle
  <2>3. DecodeInv'
    BY <1>1, <1>3, DecodeIdle DEF enc
  <2> QED
    BY <2>2, <2>3
<1>6. DemuxInv' /\ (IndexSet => IndexSet')
  <2>1. input_context' = input_context
    BY <1>1 DEF file
  <2>2. /\ pc["demux"] \notin {"none", "start", "set_index", "exited"}
        /\ pc'["demux"] \notin {"none", "start", "set_index"}
    BY <1>2, <1>3
  <2>3. UNCHANGED <<video_stream_index, audio_codec>>
    BY <1>1 DEF shared
  <2>4. /\ audio_codec # 0 /\ BothKinds /\ audio_codec = Last(OfKind("audio"))
        /\ video_stream_index = TheVideo
    BY <2>2 DEF IInv, DemuxInv
  <2>5. pc'["demux"] \in {"extract", "video", "add_video", "audio", "add_audio",
                         "audio_finished", "exited"}
    BY <1>3
  <2> QED
    BY <2>1, <2>2, <2>3, <2>4, <2>5, SameStreams DEF DemuxInv, IndexSet
<1>7. EncoderInv' /\ LoopInv' /\ IndexedInv' /\ WriterUndefinedInv'
  BY <1>1, <1>3, <1>6, WriterIdle DEF enc
<1> QED
  BY <1>4, <1>5, <1>6, <1>7 DEF IInv

-----------------------------------------------------------------------------
(* decode_thread *)

\* The encoder is set up once, and is_running then means that it is configured.
LEMMA Keep_DecodeStep ==
  ASSUME IInv, pc["main"] # "undefined", DecodeStep
  PROVE  IInv'
<1>1. UNCHANGED <<nth, file, shared, output>>
  BY DEF DecodeStep, omx_init_component, test_count, test_finished, get_next_item,
     no_input_buffer, feed_packet, feed_and_start_writer, feed_eos
<1>2. PICK to \in {"test_count", "test_finished", "get", "feed", "eos", "no_buffer", "exited"} :
        pc' = [pc EXCEPT !["decode"] = to]
  BY DEF DecodeStep, omx_init_component, test_count, test_finished, get_next_item,
     no_input_buffer, feed_packet, feed_and_start_writer, feed_eos, Go
<1>3. /\ pc'["decode"] = to /\ pc'["main"] = pc["main"] /\ pc'["demux"] = pc["demux"]
      /\ pc'["writer"] = pc["writer"] /\ pc["decode"] # "none"
  BY <1>2 DEF IInv, TypeOK, DecodeStep, omx_init_component, test_count, test_finished, get_next_item,
     no_input_buffer, feed_packet, feed_and_start_writer, feed_eos, Go
<1>4. /\ queued' \in Nat /\ audio_queued' \in Nat /\ finished' \in BOOLEAN
      /\ encoder' \in {"garbage", "initialised", "configured"}
      /\ is_running' \in BOOLEAN /\ is_running_mutex' \in {"free", "garbage"}
      /\ is_running_cv' \in {"none", "asleep", "forgotten", "woken"}
  <2>1. queued' \in Nat /\ audio_queued' \in Nat
    BY DEF IInv, TypeOK, DecodeStep, omx_init_component, test_count, test_finished, get_next_item,
     no_input_buffer, feed_packet, feed_and_start_writer, feed_eos, queue
  <2>2. finished' \in BOOLEAN
    BY DEF IInv, TypeOK, DecodeStep, omx_init_component, test_count, test_finished, get_next_item,
     no_input_buffer, feed_packet, feed_and_start_writer, feed_eos, queue
  <2>3. /\ encoder' \in {"garbage", "initialised", "configured"}
        /\ is_running_mutex' \in {"free", "garbage"}
        /\ is_running_cv' \in {"none", "asleep", "forgotten", "woken"}
    BY DEF IInv, TypeOK, DecodeStep, omx_init_component, test_count, test_finished, get_next_item,
     no_input_buffer, feed_packet, feed_and_start_writer, feed_eos, enc
  <2>4. is_running' \in BOOLEAN
    BY DEF IInv, TypeOK, DecodeStep, omx_init_component, test_count, test_finished, get_next_item,
     no_input_buffer, feed_packet, feed_and_start_writer, feed_eos, enc
  <2> QED
    BY <2>1, <2>2, <2>3, <2>4
<1>5. TypeOK' /\ FileInv'
  BY <1>1, <1>2, <1>4 DEF IInv, TypeOK, FileInv, file, shared, output
<1>6. MainInv'
  BY <1>1, <1>3, MainIdle
<1>7. DemuxInv' /\ (IndexSet => IndexSet')
  BY <1>1, <1>3, DemuxIdle
<1>8. /\ encoder' # "garbage"
      /\ encoder = "configured" => encoder' = "configured"
      /\ (is_running' <=> encoder' = "configured")
  BY <1>3 DEF IInv, DecodeInv, DecodeStep, omx_init_component, test_count, test_finished, get_next_item,
     no_input_buffer, feed_packet, feed_and_start_writer, feed_eos, Go, enc
<1>9. DecodeInv'
  BY <1>3, <1>8 DEF DecodeInv
<1>10. EncoderInv' /\ LoopInv' /\ IndexedInv' /\ WriterUndefinedInv'
  BY <1>1, <1>3, <1>7, <1>8, WriterIdle
<1> QED
  BY <1>5, <1>6, <1>7, <1>9, <1>10 DEF IInv
-----------------------------------------------------------------------------
(* writer_thread *)

\* The invariants of the other threads when the writer moves.
LEMMA OthersIdle ==
  ASSUME IInv, UNCHANGED <<nth, file, shared, encoder, is_running>>, pc["main"] # "undefined",
         NEW to, pc' = [pc EXCEPT !["writer"] = to], pc["writer"] # "none"
  PROVE  /\ MainInv' /\ DemuxInv' /\ DecodeInv' /\ (IndexSet' <=> IndexSet)
         /\ pc'["writer"] = to
<1>1. /\ pc'["writer"] = to
      /\ \A t \in Threads \ {"writer"} : pc'[t] = pc[t]
  BY DEF IInv, TypeOK
<1>2. pc'["main"] = pc["main"] /\ pc'["demux"] = pc["demux"] /\ pc'["decode"] = pc["decode"]
  BY <1>1 DEF Threads
<1>3. MainInv'
  BY <1>1, <1>2, MainIdle
<1>4. IndexSet' <=> IndexSet
  BY <1>2 DEF IndexSet, shared
<1> QED
  BY <1>1, <1>2, <1>3, <1>4, DemuxIdle, DecodeIdle

\* A turn of the loop copies the stream it is at exactly if it is one of the two.
LEMMA TurnCopies ==
  ASSUME IInv, IndexSet, "index" \notin early, init_output_context
  PROVE  /\ BothKinds /\ MadeBefore(i)
         /\ \/ /\ i = TheVideo /\ video_stream' = i /\ audio_stream' = audio_stream
               /\ output_context' = Append(output_context, i)
            \/ /\ i # TheVideo /\ i = TheAudio /\ audio_stream' = i /\ video_stream' = video_stream
               /\ output_context' = Append(output_context, i)
            \/ /\ i # TheVideo /\ i # TheAudio
               /\ UNCHANGED <<video_stream, audio_stream, output_context>>
<1>1. BothKinds /\ video_stream_index = TheVideo
  BY DEF IInv, DemuxInv, IndexSet
<1>2. /\ TheVideo \in 1..Len(input_context) /\ TheAudio \in 1..Len(input_context)
      /\ input_context[TheVideo] = "video" /\ input_context[TheAudio] = "audio"
      /\ i \in 1..Len(input_context) /\ Len(input_context) \in Nat
      /\ input_context[i] = "audio" => TheAudio <= i
  <2>1. i \in 1..Len(input_context) /\ Len(input_context) \in Nat
    BY DEF IInv, FileInv, LoopInv, TypeOK, init_output_context, OutputLoop
  <2> QED
    BY <1>1, <2>1, VideoAndAudio DEF IInv
<1>3. MadeBefore(i)
  <2>1. CASE i = 1
    <3>1. output_context = <<>> /\ video_stream = 0 /\ audio_stream = 0
      BY <2>1 DEF IInv, LoopInv
    <3>2. ~(TheVideo < i) /\ ~(TheAudio < i)
      BY <1>2, <2>1
    <3> QED
      BY <3>1, <3>2 DEF MadeBefore
  <2>2. CASE i # 1
    BY <2>2 DEF IInv, LoopInv
  <2> QED
    BY <2>1, <2>2
<1>4. audio_stream = IF TheAudio < i THEN TheAudio ELSE 0
  BY <1>3 DEF MadeBefore
<1>5. (input_context[i] = "audio" /\ audio_stream = 0) <=> i = TheAudio
  BY <1>2, <1>4
<1>6. (i # video_stream_index /\ input_context[i] = "audio" /\ audio_stream = 0)
        <=> (i # TheVideo /\ i = TheAudio)
  BY <1>1, <1>5
<1>7. \/ /\ i = TheVideo /\ video_stream' = i /\ audio_stream' = audio_stream
         /\ output_context' = Append(output_context, i)
      \/ /\ i # TheVideo /\ i = TheAudio /\ audio_stream' = i /\ video_stream' = video_stream
         /\ output_context' = Append(output_context, i)
      \/ /\ i # TheVideo /\ i # TheAudio
         /\ UNCHANGED <<video_stream, audio_stream, output_context>>
  BY <1>1, <1>5 DEF init_output_context, OutputLoop
<1> QED
  BY <1>1, <1>3, <1>7

LEMMA AppendTwo ==
  ASSUME NEW x \in Nat, NEW y \in Nat
  PROVE  Append(<<x>>, y) = <<x, y>>
<1>1. <<x>> \in Seq(Nat) /\ Len(<<x>>) = 1
  OBVIOUS
<1>2. Append(<<x>>, y) \in Seq(Nat) /\ Len(Append(<<x>>, y)) = 2
  BY <1>1
<1>3. Append(<<x>>, y)[1] = x /\ Append(<<x>>, y)[2] = y
  BY <1>1
<1>4. <<x, y>> \in Seq(Nat) /\ Len(<<x, y>>) = 2 /\ <<x, y>>[1] = x /\ <<x, y>>[2] = y
  OBVIOUS
<1>5. \A k \in 1..2 : Append(<<x>>, y)[k] = <<x, y>>[k]
  BY <1>3, <1>4
<1> QED
  BY <1>2, <1>4, <1>5, SeqEqual

\* So that after it the streams made are those before the next turn.
LEMMA TurnMakes ==
  ASSUME IInv, IndexSet, "index" \notin early, init_output_context, UNCHANGED input_context,
         i' = i + 1
  PROVE  MadeBefore(i)'
<1>1. PICK v \in Nat, a \in Nat, k \in Nat :
        v = TheVideo /\ a = TheAudio /\ k = i /\ v # a /\ v >= 1 /\ a >= 1
  <2>1. BothKinds
    BY TurnCopies
  <2>2. /\ TheVideo \in 1..Len(input_context) /\ TheAudio \in 1..Len(input_context)
        /\ input_context[TheVideo] = "video" /\ input_context[TheAudio] = "audio"
        /\ Len(input_context) \in Nat
    BY <2>1, VideoAndAudio DEF IInv, FileInv
  <2>3. i \in Nat
    BY DEF IInv, TypeOK
  <2>4. TheVideo \in Nat /\ TheAudio \in Nat /\ TheVideo # TheAudio /\ TheVideo >= 1 /\ TheAudio >= 1
    BY <2>2
  <2> QED
    BY <2>3, <2>4
<1>2. TheVideo' = v /\ TheAudio' = a /\ i' = k + 1
  BY <1>1, SameStreams
<1>3. /\ video_stream = IF v < k THEN v ELSE 0
      /\ audio_stream = IF a < k THEN a ELSE 0
      /\ output_context = CASE v < k /\ a < k -> IF v < a THEN <<v, a>> ELSE <<a, v>>
                            [] v < k /\ ~(a < k) -> <<v>>
                            [] a < k /\ ~(v < k) -> <<a>>
                            [] OTHER -> <<>>
  BY <1>1, TurnCopies DEF MadeBefore
<1>4. \/ /\ k = v /\ video_stream' = k /\ audio_stream' = audio_stream
         /\ output_context' = Append(output_context, k)
      \/ /\ k # v /\ k = a /\ audio_stream' = k /\ video_stream' = video_stream
         /\ output_context' = Append(output_context, k)
      \/ /\ k # v /\ k # a
         /\ UNCHANGED <<video_stream, audio_stream, output_context>>
  BY <1>1, TurnCopies
<1>5. /\ video_stream' = IF v < k + 1 THEN v ELSE 0
      /\ audio_stream' = IF a < k + 1 THEN a ELSE 0
  BY <1>1, <1>3, <1>4
<1>6. output_context' = CASE v < k + 1 /\ a < k + 1 -> IF v < a THEN <<v, a>> ELSE <<a, v>>
                          [] v < k + 1 /\ ~(a < k + 1) -> <<v>>
                          [] a < k + 1 /\ ~(v < k + 1) -> <<a>>
                          [] OTHER -> <<>>
  <2>1. CASE k = v /\ a < k
    <3>1. output_context = <<a>> /\ output_context' = Append(output_context, v)
      BY <1>1, <1>3, <1>4, <2>1
    <3>2. Append(<<a>>, v) = <<a, v>>
      BY <1>1, AppendTwo
    <3> QED
      BY <1>1, <2>1, <3>1, <3>2
  <2>2. CASE k = v /\ ~(a < k)
    <3>1. output_context = <<>> /\ output_context' = Append(output_context, v)
      BY <1>1, <1>3, <1>4, <2>2
    <3>2. Append(<<>>, v) = <<v>>
      OBVIOUS
    <3> QED
      BY <1>1, <2>2, <3>1, <3>2
  <2>3. CASE k = a /\ v < k
    <3>1. output_context = <<v>> /\ output_context' = Append(output_context, a)
      BY <1>1, <1>3, <1>4, <2>3
    <3>2. Append(<<v>>, a) = <<v, a>>
      BY <1>1, AppendTwo
    <3> QED
      BY <1>1, <2>3, <3>1, <3>2
  <2>4. CASE k = a /\ ~(v < k)
    <3>1. output_context = <<>> /\ output_context' = Append(output_context, a)
      BY <1>1, <1>3, <1>4, <2>4
    <3>2. Append(<<>>, a) = <<a>>
      OBVIOUS
    <3> QED
      BY <1>1, <2>4, <3>1, <3>2
  <2>5. CASE k # v /\ k # a
    <3>1. output_context' = output_context
      BY <1>4, <2>5
    <3>2. (v < k + 1 <=> v < k) /\ (a < k + 1 <=> a < k)
      BY <1>1, <2>5
    <3> QED
      BY <1>3, <3>1, <3>2
  <2> QED
    BY <2>1, <2>2, <2>3, <2>4, <2>5
<1> QED
  BY <1>2, <1>5, <1>6 DEF MadeBefore

LEMMA Keep_init_output_context ==
  ASSUME IInv, pc["main"] # "undefined", init_output_context
  PROVE  IInv'
<1>1. /\ pc["writer"] = "start" /\ i' = i + 1
      /\ early' = IF IndexSet THEN early ELSE early \cup {"index"}
      /\ UNCHANGED <<nth, file, shared, queue, enc, indexed>>
  BY DEF init_output_context, OutputLoop
<1>2. i \in 1..Len(input_context) /\ Len(input_context) \in 1..MaxStreams
      /\ UNCHANGED <<input_context, input_context_ptr>>
  BY <1>1 DEF IInv, FileInv, LoopInv, TypeOK, file
<1>3. PICK to \in {"pts_offset", "start"} :
        /\ pc' = [pc EXCEPT !["writer"] = to]
        /\ to = "pts_offset" <=> i = Len(input_context)
  BY DEF init_output_context, OutputLoop
<1>4. /\ MainInv' /\ DemuxInv' /\ DecodeInv' /\ (IndexSet' <=> IndexSet)
      /\ pc'["writer"] = to
  BY <1>1, <1>3, OthersIdle DEF enc
<1>5. /\ output_context' \in Seq(1..MaxStreams)
      /\ {video_stream', audio_stream'} \subseteq 0..MaxStreams
  <2>1. i \in 1..MaxStreams /\ output_context \in Seq(1..MaxStreams)
        /\ video_stream \in 0..MaxStreams /\ audio_stream \in 0..MaxStreams
    BY <1>2 DEF IInv, TypeOK
  <2>2. Append(output_context, i) \in Seq(1..MaxStreams)
    BY <2>1
  <2>3. \/ video_stream' = i /\ output_context' = Append(output_context, i) /\ UNCHANGED audio_stream
        \/ audio_stream' = i /\ output_context' = Append(output_context, i) /\ UNCHANGED video_stream
        \/ UNCHANGED <<video_stream, audio_stream, output_context>>
    BY DEF init_output_context, OutputLoop
  <2>4. output_context' \in Seq(1..MaxStreams)
    BY <2>1, <2>2, <2>3
  <2>5. video_stream' \in 0..MaxStreams /\ audio_stream' \in 0..MaxStreams
    BY <2>1, <2>3
  <2> QED
    BY <2>4, <2>5
<1>6. TypeOK'
  <2>1. i' \in 1..(MaxStreams + 1) /\ early' \subseteq {"index", "encoder"}
    BY <1>1, <1>2 DEF IInv, TypeOK
  <2> QED
    BY <1>1, <1>3, <1>5, <2>1 DEF IInv, TypeOK, shared, queue, enc
<1>7. FileInv'
  BY <1>2 DEF IInv, FileInv
<1>8. EncoderInv' /\ WriterUndefinedInv'
  BY <1>4 DEF EncoderInv, WriterRunsConfigured, WriterUndefinedInv
<1>10. IndexedInv'
  <2>1. "index" \notin early /\ to = "pts_offset" => indexed = 0
    BY <1>1 DEF IInv, IndexedInv
  <2> QED
    BY <1>1, <1>3, <1>4, <2>1 DEF IInv, IndexedInv
<1>9. LoopInv'
  <2>1. "index" \notin early' => IndexSet' /\ MadeBefore(i)'
    BY <1>1, <1>2, <1>4, TurnMakes
  <2>2. i' # 1 /\ (i' <= Len(input_context)' <=> to = "start")
        /\ (to = "pts_offset" => i' = Len(input_context)' + 1)
    BY <1>1, <1>2, <1>3
  <2> QED
    BY <1>3, <1>4, <2>1, <2>2 DEF LoopInv
<1> QED
  BY <1>4, <1>6, <1>7, <1>8, <1>9, <1>10 DEF IInv

\* Once the loop has ended, the writer has made the two streams in their order.
LEMMA AllMade ==
  ASSUME IInv, "index" \notin early, pc["writer"] \notin {"none", "start"}
  PROVE  /\ BothKinds /\ IndexSet /\ video_stream = TheVideo /\ audio_stream = TheAudio
         /\ video_stream_index = TheVideo
         /\ output_context = IF TheVideo < TheAudio THEN <<TheVideo, TheAudio>>
                             ELSE <<TheAudio, TheVideo>>
<1>1. i = Len(input_context) + 1 /\ Len(input_context) \in Nat /\ i # 1
  BY DEF IInv, LoopInv, FileInv
<1>2. IndexSet /\ MadeBefore(i)
  BY <1>1 DEF IInv, LoopInv
<1>3. BothKinds /\ video_stream_index = TheVideo
  BY <1>2 DEF IInv, DemuxInv, IndexSet
<1>4. TheVideo < i /\ TheAudio < i
  BY <1>1, <1>3, VideoAndAudio DEF IInv
<1> QED
  BY <1>2, <1>3, <1>4 DEF MadeBefore

\* The index finds a stream of two if it is 1 or 2, and the video stream if the streams
\* are aligned.
LEMMA IndexFinds ==
  ASSUME IInv, "index" \notin early, pc["writer"] \notin {"none", "start"}
  PROVE  /\ video_stream_index \in 1..Len(output_context) =>
              (output_context[video_stream_index] = video_stream <=> Aligned)
         /\ video_stream_index \notin 1..Len(output_context) => ~Aligned
<1>1. PICK v \in Nat, a \in Nat :
        /\ v = TheVideo /\ a = TheAudio /\ v >= 1 /\ a >= 1 /\ v # a
        /\ BothKinds /\ video_stream = v /\ video_stream_index = v
        /\ output_context = IF v < a THEN <<v, a>> ELSE <<a, v>>
  <2>1. BothKinds
    BY AllMade
  <2>2. /\ TheVideo \in 1..Len(input_context) /\ TheAudio \in 1..Len(input_context)
        /\ input_context[TheVideo] = "video" /\ input_context[TheAudio] = "audio"
        /\ Len(input_context) \in Nat
    BY <2>1, VideoAndAudio DEF IInv, FileInv
  <2>4. TheVideo \in Nat /\ TheAudio \in Nat /\ TheVideo # TheAudio /\ TheVideo >= 1 /\ TheAudio >= 1
    BY <2>2
  <2> QED
    BY <2>4, AllMade
<1>2. Aligned <=> v = 1 \/ (v = 2 /\ a = 1)
  BY <1>1, AlignedMeans DEF IInv
<1>3. Len(output_context) = 2 /\ output_context[1] = (IF v < a THEN v ELSE a)
      /\ output_context[2] = (IF v < a THEN a ELSE v)
  BY <1>1
<1> HIDE DEF IInv
<1>4. CASE v = 1
  <2>1. output_context[v] = v
    BY <1>1, <1>3, <1>4
  <2> QED
    BY <1>1, <1>2, <1>3, <1>4, <2>1
<1>5. CASE v = 2
  <2>1. output_context[v] = v <=> a = 1
    BY <1>1, <1>3, <1>5
  <2> QED
    BY <1>1, <1>2, <1>3, <1>5, <2>1
<1>6. CASE v > 2
  <2>1. v \notin 1..2
    BY <1>6
  <2> QED
    BY <1>1, <1>2, <1>3, <1>6, <2>1
<1> QED
  BY <1>1, <1>4, <1>5, <1>6

LEMMA Keep_init_pts_offset ==
  ASSUME IInv, pc["main"] # "undefined", init_pts_offset
  PROVE  IInv'
<1>1. /\ pc["writer"] = "pts_offset"
      /\ early' = IF IndexSet THEN early ELSE early \cup {"index"}
      /\ UNCHANGED <<nth, file, shared, queue, enc, i, output_context, video_stream, audio_stream>>
  BY DEF init_pts_offset, Go
<1>2. UNCHANGED <<input_context, input_context_ptr>>
  BY <1>1 DEF file
<1>3. PICK to \in {"lock", "undefined"} :
        /\ pc' = [pc EXCEPT !["writer"] = to]
        /\ to = "lock" => /\ video_stream_index \in 1..Len(output_context)
                          /\ indexed' = output_context[video_stream_index]
        /\ to = "undefined" => /\ video_stream_index \notin 1..Len(output_context)
                               /\ indexed' = indexed
  BY DEF init_pts_offset, Go
<1>4. /\ MainInv' /\ DemuxInv' /\ DecodeInv' /\ (IndexSet' <=> IndexSet)
      /\ pc'["writer"] = to
  BY <1>1, <1>3, OthersIdle DEF enc
<1>5. TypeOK'
  <2>1. indexed \in 0..MaxStreams /\ output_context \in Seq(1..MaxStreams)
    BY DEF IInv, TypeOK
  <2>2. indexed' \in 0..MaxStreams
    BY <1>3, <2>1
  <2>3. early' \subseteq {"index", "encoder"}
    BY <1>1 DEF IInv, TypeOK
  <2>4. {video_stream', audio_stream', indexed'} \subseteq 0..MaxStreams
    BY <1>1, <2>2 DEF IInv, TypeOK
  <2> QED
    BY <1>1, <1>3, <2>3, <2>4 DEF IInv, TypeOK, shared, queue, enc
<1>6. FileInv'
  BY <1>2 DEF IInv, FileInv
<1>7. EncoderInv'
  BY <1>3, <1>4 DEF EncoderInv, WriterRunsConfigured
<1>8. LoopInv'
  BY <1>1, <1>2, <1>3, <1>4, SameStreams DEF IInv, LoopInv, MadeBefore
<1>9. IndexedInv' /\ WriterUndefinedInv'
  <2>1. CASE "index" \in early'
    BY <1>3, <1>4, <2>1 DEF IndexedInv, WriterUndefinedInv
  <2>2. CASE "index" \notin early'
    <3>1. /\ to = "lock" => (indexed' = video_stream' <=> Aligned)
          /\ to = "undefined" => ~Aligned
      BY <1>1, <1>3, <2>2, IndexFinds
    <3>2. CASE to = "lock"
      BY <1>2, <1>4, <3>1, <3>2, SameStreams DEF IndexedInv, WriterUndefinedInv
    <3>3. CASE to = "undefined"
      <4>1. indexed = 0
        BY <1>1 DEF IInv, IndexedInv
      <4>2. video_stream # 0
        BY <1>1, <2>2, AllMade, VideoAndAudio DEF IInv
      <4> QED
        BY <1>1, <1>2, <1>3, <1>4, <3>1, <3>3, <4>1, <4>2, SameStreams
        DEF IndexedInv, WriterUndefinedInv
    <3> QED
      BY <1>3, <3>2, <3>3
  <2> QED
    BY <2>1, <2>2
<1> QED
  BY <1>4, <1>5, <1>6, <1>7, <1>8, <1>9 DEF IInv

\* What the later steps of the writer have in common: they go from one of its later
\* places to another and change nothing but its sleep, the note of an early look at the
\* encoder and the audio queue.
Later == {"lock", "blocked", "test_running", "to_wait", "waiting", "loop", "running", "starved",
          "exited", "undefined"}

LaterStep(to) ==
  /\ pc["writer"] \in Later /\ to \in Later \ {"lock"} /\ pc' = [pc EXCEPT !["writer"] = to]
  /\ UNCHANGED <<nth, file, shared, queued, finished, encoder, is_running, is_running_mutex, i,
                 output_context, video_stream, audio_stream, indexed>>
  /\ audio_queued' \in Nat
  /\ early' \in {early, early \cup {"encoder"}}
  /\ is_running_cv' \in {is_running_cv, "none", "asleep"}

LEMMA LaterSteps ==
  ASSUME IInv, pc["main"] # "undefined", NEW to, LaterStep(to)
  PROVE  /\ TypeOK' /\ FileInv' /\ MainInv' /\ DemuxInv' /\ DecodeInv' /\ LoopInv' /\ IndexedInv'
         /\ pc'["writer"] = to
<1>1. /\ pc["writer"] \in Later /\ to \in Later \ {"lock"} /\ pc' = [pc EXCEPT !["writer"] = to]
      /\ UNCHANGED <<nth, file, shared, queued, finished, encoder, is_running,
                     is_running_mutex, i, output_context, video_stream, audio_stream, indexed>>
      /\ audio_queued' \in Nat
      /\ early' \in {early, early \cup {"encoder"}}
      /\ is_running_cv' \in {is_running_cv, "none", "asleep"}
  BY DEF LaterStep
<1>2. UNCHANGED <<input_context, input_context_ptr>>
  BY <1>1 DEF file
<1>3. MainInv' /\ DemuxInv' /\ DecodeInv' /\ (IndexSet' <=> IndexSet) /\ pc'["writer"] = to
  BY <1>1, OthersIdle DEF Later
<1>4. TypeOK'
  <2>1. pc' \in [Threads -> {"none", "init", "create", "join", "cleanup", "aborted", "start",
                             "set_index", "extract", "video", "add_video", "audio",
                             "add_audio", "audio_finished", "test_count", "test_finished",
                             "get", "feed", "eos", "no_buffer", "pts_offset", "lock", "blocked",
                             "test_running", "to_wait", "waiting", "loop", "running", "starved",
                             "exited", "undefined"}]
    BY <1>1 DEF IInv, TypeOK, Later
  <2>2. early' \subseteq {"index", "encoder"}
    BY <1>1 DEF IInv, TypeOK
  <2>3. is_running_cv' \in {"none", "asleep", "forgotten", "woken"}
    BY <1>1 DEF IInv, TypeOK
  <2> QED
    BY <1>1, <2>1, <2>2, <2>3 DEF IInv, TypeOK, shared
<1>5. FileInv'
  BY <1>2 DEF IInv, FileInv
<1>6. "index" \notin early' <=> "index" \notin early
  BY <1>1
<1>7. LoopInv'
  <2>1. "index" \notin early /\ i # 1 => MadeBefore(i)'
    BY <1>1, <1>2, SameStreams DEF IInv, LoopInv, MadeBefore
  <2>2. i' = Len(input_context)' + 1
    BY <1>1, <1>2 DEF IInv, LoopInv, Later
  <2>3. i = 1 => output_context = <<>> /\ video_stream = 0 /\ audio_stream = 0
    BY DEF IInv, LoopInv
  <2>4. "index" \notin early /\ i # 1 => IndexSet
    BY DEF IInv, LoopInv
  <2> QED
    BY <1>1, <1>3, <1>6, <2>1, <2>2, <2>3, <2>4 DEF LoopInv, Later
<1>8. IndexedInv'
  BY <1>1, <1>2, <1>3, <1>6, SameStreams DEF IInv, IndexedInv, Later
<1> QED
  BY <1>3, <1>4, <1>5, <1>7, <1>8

LEMMA Keep_lock_is_running ==
  ASSUME IInv, pc["main"] # "undefined", lock_is_running
  PROVE  IInv'
<1>1. PICK to \in {"test_running", "blocked"} : LaterStep(to)
  BY DEF lock_is_running, Go, LaterStep, Later, enc, queue, IInv, TypeOK
<1>2. /\ TypeOK' /\ FileInv' /\ MainInv' /\ DemuxInv' /\ DecodeInv' /\ LoopInv' /\ IndexedInv'
      /\ pc'["writer"] = to
  BY <1>1, LaterSteps
<1>3. encoder' = encoder /\ early' = IF encoder = "garbage" THEN early \cup {"encoder"} ELSE early
  BY DEF lock_is_running, enc
<1>4. EncoderInv' /\ WriterUndefinedInv'
  BY <1>2, <1>3 DEF EncoderInv, WriterRunsConfigured, WriterUndefinedInv
<1> QED
  BY <1>2, <1>4 DEF IInv

\* is_running is true only of a configured encoder, once the encoder has been set up.
LEMMA Keep_test_running ==
  ASSUME IInv, pc["main"] # "undefined", test_running
  PROVE  IInv'
<1>1. PICK to \in {"loop", "to_wait"} : LaterStep(to) /\ (to = "loop" <=> is_running)
  BY DEF test_running, Go, LaterStep, Later, enc, queue, IInv, TypeOK
<1>2. /\ TypeOK' /\ FileInv' /\ MainInv' /\ DemuxInv' /\ DecodeInv' /\ LoopInv' /\ IndexedInv'
      /\ pc'["writer"] = to
  BY <1>1, LaterSteps
<1>3. encoder' = encoder /\ early' = IF encoder = "garbage" THEN early \cup {"encoder"} ELSE early
  BY DEF test_running, enc
<1>4. encoder # "garbage" => (is_running <=> encoder = "configured")
  BY DEF IInv, DecodeInv
<1>5. EncoderInv' /\ WriterUndefinedInv'
  BY <1>1, <1>2, <1>3, <1>4 DEF EncoderInv, WriterRunsConfigured, WriterUndefinedInv
<1> QED
  BY <1>2, <1>5 DEF IInv

LEMMA Keep_waiting ==
  ASSUME IInv, pc["main"] # "undefined", cond_wait \/ wake \/ SpuriousWakeup
  PROVE  IInv'
<1>1. PICK to \in {"waiting", "test_running"} : LaterStep(to)
  BY DEF cond_wait, wake, SpuriousWakeup, Go, LaterStep, Later, output, queue, IInv, TypeOK
<1>2. /\ TypeOK' /\ FileInv' /\ MainInv' /\ DemuxInv' /\ DecodeInv' /\ LoopInv' /\ IndexedInv'
      /\ pc'["writer"] = to
  BY <1>1, LaterSteps
<1>3. encoder' = encoder /\ early' = early /\ pc["writer"] \in {"to_wait", "waiting"}
  BY DEF cond_wait, wake, SpuriousWakeup, Go, output
<1>4. EncoderInv' /\ WriterUndefinedInv'
  BY <1>2, <1>3 DEF IInv, EncoderInv, WriterRunsConfigured, WriterUndefinedInv
<1> QED
  BY <1>2, <1>4 DEF IInv

\* Without an early look at anything, the writer has both its streams and its encoder.
LEMMA Keep_writer_loop ==
  ASSUME IInv, pc["main"] # "undefined", writer_loop
  PROVE  IInv'
<1>1. PICK to \in {"undefined", "running"} :
        /\ LaterStep(to)
        /\ to = "undefined" => encoder = "garbage" \/ video_stream = 0 \/ audio_stream = 0
  BY DEF writer_loop, Go, LaterStep, Later, enc, output, queue, IInv, TypeOK
<1>2. /\ TypeOK' /\ FileInv' /\ MainInv' /\ DemuxInv' /\ DecodeInv' /\ LoopInv' /\ IndexedInv'
      /\ pc'["writer"] = to
  BY <1>1, LaterSteps
<1>3. encoder' = encoder /\ early' = early /\ pc["writer"] = "loop"
  BY DEF writer_loop, Go, enc, output
<1>4. EncoderInv'
  BY <1>2, <1>3 DEF IInv, EncoderInv, WriterRunsConfigured
<1>5. "encoder" \notin early => encoder # "garbage"
  BY <1>3 DEF IInv, EncoderInv
<1>6. "index" \notin early => video_stream # 0 /\ audio_stream # 0
  BY <1>3, AllMade, VideoAndAudio DEF IInv
<1>7. WriterUndefinedInv'
  BY <1>1, <1>2, <1>3, <1>5, <1>6 DEF WriterUndefinedInv
<1> QED
  BY <1>2, <1>4, <1>7 DEF IInv

LEMMA Keep_writer_exit ==
  ASSUME IInv, pc["main"] # "undefined", writer_exit
  PROVE  IInv'
<1>1. LaterStep("exited")
  BY DEF writer_exit, Go, LaterStep, Later, enc, output, queue, IInv, TypeOK
<1>2. /\ TypeOK' /\ FileInv' /\ MainInv' /\ DemuxInv' /\ DecodeInv' /\ LoopInv' /\ IndexedInv'
      /\ pc'["writer"] = "exited"
  BY <1>1, LaterSteps
<1>3. encoder' = encoder /\ encoder = "configured"
  BY DEF writer_exit, enc
<1>4. EncoderInv' /\ WriterUndefinedInv'
  BY <1>2, <1>3 DEF EncoderInv, WriterRunsConfigured, WriterUndefinedInv
<1> QED
  BY <1>2, <1>4 DEF IInv

\* The loop takes a packet, or stops.
LEMMA Keep_running ==
  ASSUME IInv, pc["main"] # "undefined", write_audio_frame \/ no_output_buffer
  PROVE  IInv'
<1>1. PICK to \in {"running", "starved"} : LaterStep(to)
  BY DEF write_audio_frame, no_output_buffer, Go, LaterStep, Later, enc, output, queue, IInv,
         TypeOK
<1>2. /\ TypeOK' /\ FileInv' /\ MainInv' /\ DemuxInv' /\ DecodeInv' /\ LoopInv' /\ IndexedInv'
      /\ pc'["writer"] = to
  BY <1>1, LaterSteps
<1>3. encoder' = encoder /\ early' = early /\ pc["writer"] = "running"
  BY DEF write_audio_frame, no_output_buffer, Go, enc, output
<1>4. EncoderInv' /\ WriterUndefinedInv'
  BY <1>2, <1>3 DEF IInv, EncoderInv, WriterRunsConfigured, WriterUndefinedInv
<1> QED
  BY <1>2, <1>4 DEF IInv

LEMMA NextIInv == IInv /\ [Next]_vars => IInv'
<1> SUFFICES ASSUME IInv, [Next]_vars PROVE IInv'
  OBVIOUS
<1>1. CASE UNCHANGED vars
  BY <1>1, Keep_stutter
<1>2. CASE Next
  <2>1. pc["main"] # "undefined"
    BY <1>2 DEF Next, Undefined
  <2>2. CASE MainStep
    BY <2>2, Keep_init_global_ctx, Keep_create_thread, Keep_join_thread, Keep_main_cleanup DEF MainStep
  <2>3. CASE DemuxStep
    BY <2>1, <2>3, Keep_init_streams_and_codecs, Keep_set_video_stream_index, Keep_ExtractStep
    DEF DemuxStep, ExtractStep
  <2>4. CASE DecodeStep
    BY <2>1, <2>4, Keep_DecodeStep
  <2>5. CASE WriterStep \/ SpuriousWakeup
    BY <2>1, <2>5, Keep_init_output_context, Keep_init_pts_offset, Keep_lock_is_running,
       Keep_test_running, Keep_waiting, Keep_writer_loop, Keep_running, Keep_writer_exit
    DEF WriterStep
  <2> QED
    BY <1>2, <2>2, <2>3, <2>4, <2>5 DEF Next, ProgramStep
<1> QED
  BY <1>1, <1>2

-----------------------------------------------------------------------------
(* The theorems *)

\* The inductive invariant holds.
THEOREM InvariantHolds == Spec => []IInv
BY InitIInv, NextIInv, PTL DEF Spec

\* The type invariant.
THEOREM TypeCorrect == Spec => []TypeOK
<1>1. IInv => TypeOK
  BY DEF IInv
<1> QED
  BY <1>1, InvariantHolds, PTL

\* Memory that is not valid is only accessed for the reasons named: main's uncleared
\* pointer or the join of a thread never made, the writer's look at an index or an
\* encoder not set yet, or streams the index of the input does not find.
THEOREM UndefinedForAReasonHolds == Spec => []UndefinedForAReason
<1>1. IInv => UndefinedForAReason
  BY DEF IInv, MainInv, DemuxInv, DecodeInv, WriterUndefinedInv, UndefinedForAReason
<1> QED
  BY <1>1, InvariantHolds, PTL

\* A writer that has not looked at the encoder too early runs on a configured encoder.
THEOREM WriterRunsConfiguredHolds == Spec => []WriterRunsConfigured
<1>1. IInv => WriterRunsConfigured
  BY DEF IInv, EncoderInv
<1> QED
  BY <1>1, InvariantHolds, PTL

\* The demuxer's audio stream is the writer's exactly if the file has one.
LEMMA OneAudioStream ==
  ASSUME FileInv, BothKinds
  PROVE  TheAudio = Last(OfKind("audio")) <=> Cardinality(OfKind("audio")) = 1
<1>1. PICK S : S = OfKind("audio")
  OBVIOUS
<1>2. First(S) \in S /\ Last(S) \in S /\ \A r \in S : First(S) <= r /\ Last(S) >= r
  BY <1>1, Extremes DEF BothKinds
<1>3. S \subseteq Nat
  BY <1>1 DEF OfKind
<1>4. CASE First(S) = Last(S)
  <2>1. \A r \in S : r = First(S)
    <3>1. PICK f \in Nat : f = First(S) /\ f = Last(S)
      BY <1>2, <1>3, <1>4
    <3>2. \A r \in S : r \in Nat /\ f <= r /\ f >= r
      BY <1>2, <1>3, <3>1
    <3> QED
      BY <3>1, <3>2
  <2>2. S = {First(S)}
    BY <1>2, <2>1
  <2>3. Cardinality(S) = 1
    BY <2>2, FS_Singleton
  <2> QED
    BY <1>1, <1>4, <2>3 DEF TheAudio
<1>5. CASE First(S) # Last(S)
  <2>1. Cardinality(S) # 1
    <3>1. SUFFICES ASSUME Cardinality(S) = 1 PROVE FALSE
      OBVIOUS
    <3>2. IsFiniteSet(S)
      <4>1. PICK m \in Nat : m = Len(input_context)
        BY DEF FileInv
      <4>2. IsFiniteSet(1..m) /\ S \subseteq 1..m
        BY <1>1, <4>1, FS_Interval DEF OfKind
      <4> QED
        BY <4>2, FS_Subset
    <3>3. \E x : S = {x}
      BY <3>1, <3>2, FS_Singleton
    <3> QED
      BY <1>2, <1>5, <3>3
  <2> QED
    BY <1>1, <1>5, <2>1 DEF TheAudio
<1> QED
  BY <1>4, <1>5

\* A writer that has not looked at the index too early makes the output that matches the
\* input, and finds its streams in it exactly if they are aligned.
THEOREM OutputMatchesInputHolds == Spec => []OutputMatchesInput
<1>1. IInv => OutputMatchesInput
  <2> SUFFICES ASSUME IInv, "index" \notin early, pc["writer"] \notin {"none", "start", "pts_offset"}
               PROVE  /\ video_stream = TheVideo /\ audio_stream = TheAudio
                      /\ output_context = IF TheVideo < TheAudio THEN <<TheVideo, TheAudio>>
                                          ELSE <<TheAudio, TheVideo>>
                      /\ (indexed = video_stream <=> Aligned)
                      /\ (audio_stream = audio_codec <=> Cardinality(OfKind("audio")) = 1)
    BY DEF OutputMatchesInput, TheVideo, TheAudio
  <2>1. /\ BothKinds /\ IndexSet /\ video_stream = TheVideo /\ audio_stream = TheAudio
        /\ output_context = IF TheVideo < TheAudio THEN <<TheVideo, TheAudio>>
                            ELSE <<TheAudio, TheVideo>>
    BY AllMade
  <2>2. indexed = video_stream <=> Aligned
    BY DEF IInv, IndexedInv
  <2>3. audio_codec = Last(OfKind("audio"))
    BY <2>1 DEF IInv, DemuxInv, IndexSet
  <2>4. audio_stream = audio_codec <=> Cardinality(OfKind("audio")) = 1
    BY <2>1, <2>3, OneAudioStream DEF IInv
  <2> QED
    BY <2>1, <2>2, <2>4
<1> QED
  BY <1>1, InvariantHolds, PTL

-----------------------------------------------------------------------------
(* What main can wait for for ever *)

\* main waits for the threads in turn.
JoinInv ==
  pc["main"] = "join" =>
    /\ nth >= 2 => pc["demux"] = "exited"
    /\ nth = 3 => pc["decode"] = "exited"

\* A demuxer that has found its streams returns only after it has finished the queue, at
\* its end; decode_thread ends only when it has seen that, and the writer when both have.
FinishInv ==
  /\ pc["demux"] = "exited" => finished \/ ~BothKinds
  /\ pc["demux"] = "audio_finished" => finished
  /\ finished => pc["demux"] \in {"audio_finished", "exited"}
  /\ pc["decode"] \in {"eos", "exited"} => finished
  /\ pc["writer"] = "exited" => pc["demux"] = "exited"

\* The writer sleeps on a mutex or a condition variable that decode_thread has not set up,
\* or has set up under it, only if it was there too early.
SleepInv ==
  /\ encoder # "garbage" => is_running_mutex = "free"
  /\ pc["writer"] = "blocked" => "encoder" \in early
  /\ pc["writer"] = "waiting" <=> is_running_cv # "none"
  /\ is_running_cv = "forgotten" => "encoder" \in early

StuckInv == JoinInv /\ FinishInv /\ SleepInv

LEMMA Goes ==
  ASSUME IInv, NEW t \in Threads, NEW from, NEW to, Go(t, from, to)
  PROVE  pc[t] = from /\ pc'[t] = to /\ \A u \in Threads \ {t} : pc'[u] = pc[u]
BY DEF IInv, TypeOK, Go

LEMMA OtherThreads ==
  /\ Threads \ {"main"} = {"demux", "decode", "writer"}
  /\ Threads \ {"demux"} = {"main", "decode", "writer"}
  /\ Threads \ {"decode"} = {"main", "demux", "writer"}
  /\ Threads \ {"writer"} = {"main", "demux", "decode"}
BY DEF Threads

LEMMA InitStuckInv == Init => StuckInv
<1> SUFFICES ASSUME Init PROVE StuckInv
  OBVIOUS
<1>1. \A t \in Threads : pc[t] = IF t = "main" THEN "init" ELSE "none"
  BY DEF Init
<1> QED
  BY <1>1 DEF Init, StuckInv, JoinInv, FinishInv, SleepInv

LEMMA MainKeepsStuckInv ==
  ASSUME IInv, StuckInv, MainStep
  PROVE  StuckInv'
<1>1. UNCHANGED <<file, finished, enc, early>>
  BY DEF MainStep, init_global_ctx, create_thread, join_thread, main_cleanup, queue, output
<1>2. CASE create_thread
  <2>1. pc["main"] = "create" /\ nth \in {1, 2, 3} /\ nth' = IF nth = 3 THEN 1 ELSE nth + 1
    BY <1>2 DEF create_thread, IInv, TypeOK
  <2>2. PICK to \in {"start", "none"}, w \in {"demux", "decode", "writer"} :
          /\ pc' = [pc EXCEPT !["main"] = IF nth = 3 THEN "join" ELSE "create", ![w] = to]
          /\ w = Workers[nth]
    BY <1>2, <2>1 DEF create_thread
  <2>3. /\ pc[w] = "none" /\ pc'[w] = to /\ pc'["main"] = IF nth = 3 THEN "join" ELSE "create"
        /\ \A u \in Threads \ {"main", w} : pc'[u] = pc[u]
    BY <2>1, <2>2 DEF IInv, MainInv, TypeOK
  <2>4. JoinInv'
    BY <2>1, <2>3 DEF JoinInv
  <2>5. FinishInv'
    <3>1. BothKinds' <=> BothKinds
      BY <1>1, SameStreams DEF file
    <3> QED
      BY <1>1, <2>2, <2>3, <3>1 DEF StuckInv, FinishInv
  <2>6. SleepInv'
    BY <1>1, <2>2, <2>3 DEF StuckInv, SleepInv, enc
  <2> QED
    BY <2>4, <2>5, <2>6 DEF StuckInv
<1>3. CASE ~create_thread
  <2>1. \A t \in {"demux", "decode", "writer"} : pc'[t] = pc[t]
    BY <1>3, Goes, OtherThreads
    DEF MainStep, init_global_ctx, join_thread, main_cleanup
  <2>2. JoinInv'
    <3>1. CASE init_global_ctx
      BY <3>1, Goes DEF init_global_ctx, JoinInv
    <3>2. CASE join_thread
      <4>1. nth \in {1, 2, 3} /\ pc["main"] = "join"
        BY <3>2 DEF join_thread, Go, IInv, TypeOK
      <4>2. CASE pc[Workers[nth]] = "exited"
        BY <3>2, <4>1, <4>2, <2>1 DEF join_thread, StuckInv, JoinInv
      <4>3. CASE pc[Workers[nth]] # "exited"
        BY <3>2, <4>3, Goes DEF join_thread, JoinInv
      <4> QED
        BY <4>2, <4>3
    <3>3. CASE main_cleanup
      BY <3>3, Goes DEF main_cleanup, JoinInv
    <3> QED
      BY <1>3, <3>1, <3>2, <3>3 DEF MainStep
  <2>3. FinishInv'
    <3>1. BothKinds' <=> BothKinds
      BY <1>1, SameStreams DEF file
    <3> QED
      BY <1>1, <2>1, <3>1 DEF StuckInv, FinishInv
  <2>4. SleepInv'
    BY <1>1, <2>1 DEF StuckInv, SleepInv, enc
  <2> QED
    BY <2>2, <2>3, <2>4 DEF StuckInv
<1> QED
  BY <1>2, <1>3

LEMMA DemuxKeepsStuckInv ==
  ASSUME IInv, StuckInv, DemuxStep
  PROVE  StuckInv'
<1>1. UNCHANGED <<nth, file, enc, early>>
  BY DEF DemuxStep, init_streams_and_codecs, set_video_stream_index, av_read_frame,
         wait_video, add_video, wait_audio, add_audio, video_finished, audio_finished, DemuxMoves, output
<1>2. /\ \A t \in {"main", "decode", "writer"} : pc'[t] = pc[t]
      /\ pc["demux"] # "exited"
  BY Goes, OtherThreads DEF DemuxStep, init_streams_and_codecs, set_video_stream_index, av_read_frame,
         wait_video, add_video, wait_audio, add_audio, video_finished, audio_finished, DemuxMoves
<1>3. JoinInv'
  BY <1>1, <1>2 DEF StuckInv, JoinInv
<1>4. SleepInv'
  BY <1>1, <1>2 DEF StuckInv, SleepInv, enc
<1>5. FinishInv'
  <2>1. BothKinds' <=> BothKinds
    BY <1>1, SameStreams DEF file
  <2>2. finished => finished'
    BY DEF DemuxStep, init_streams_and_codecs, set_video_stream_index, av_read_frame,
         wait_video, add_video, wait_audio, add_audio, video_finished, audio_finished, DemuxMoves, queue
  <2>3. /\ pc'["demux"] = "exited" => finished' \/ ~BothKinds
        /\ pc'["demux"] = "audio_finished" => finished'
        /\ finished' => pc'["demux"] \in {"audio_finished", "exited"}
    <3>1. CASE init_streams_and_codecs
      BY <3>1, Goes DEF init_streams_and_codecs, BothKinds, queue, StuckInv, FinishInv
    <3>2. CASE set_video_stream_index
      BY <3>2, Goes DEF set_video_stream_index, queue, StuckInv, FinishInv
    <3>3. CASE av_read_frame \/ wait_video \/ add_video \/ wait_audio \/ add_audio
      BY <3>3, Goes DEF av_read_frame, wait_video, add_video, wait_audio, add_audio, DemuxMoves,
         queue, StuckInv, FinishInv
    <3>4. CASE video_finished
      BY <3>4, Goes DEF video_finished
    <3>5. CASE audio_finished
      BY <3>5, Goes DEF audio_finished, DemuxMoves, queue, StuckInv, FinishInv
    <3> QED
      BY <3>1, <3>2, <3>3, <3>4, <3>5 DEF DemuxStep
  <2> QED
    BY <1>2, <2>1, <2>2, <2>3 DEF StuckInv, FinishInv
<1> QED
  BY <1>3, <1>4, <1>5 DEF StuckInv

\* The component is set up under a writer that sleeps only if that has looked at it before.
LEMMA DecodeKeepsStuckInv ==
  ASSUME IInv, StuckInv, DecodeStep
  PROVE  StuckInv'
<1>1. UNCHANGED <<nth, file, finished, early>>
  BY DEF DecodeStep, omx_init_component, test_count, test_finished, get_next_item,
     no_input_buffer, feed_packet, feed_and_start_writer, feed_eos, queue, output
<1>2. /\ \A t \in {"main", "demux", "writer"} : pc'[t] = pc[t]
      /\ pc["decode"] # "exited"
      /\ pc'["decode"] \in {"eos", "exited"} => finished
  BY Goes, OtherThreads DEF StuckInv, FinishInv, DecodeStep, omx_init_component, test_count, test_finished, get_next_item,
     no_input_buffer, feed_packet, feed_and_start_writer, feed_eos
<1>3. JoinInv'
  BY <1>1, <1>2 DEF StuckInv, JoinInv
<1>4. FinishInv'
  <2>1. BothKinds' <=> BothKinds
    BY <1>1, SameStreams DEF file
  <2> QED
    BY <1>1, <1>2, <2>1 DEF StuckInv, FinishInv
<1>5. SleepInv'
  <2>1. CASE omx_init_component
    <3>1. encoder = "garbage" /\ is_running_mutex' = "free"
          /\ is_running_cv' = IF is_running_cv = "asleep" THEN "forgotten" ELSE is_running_cv
      BY <2>1 DEF omx_init_component, Go, IInv, DecodeInv
    <3>2. pc["writer"] = "waiting" => "encoder" \in early
      BY <3>1 DEF IInv, EncoderInv
    <3> QED
      BY <1>1, <1>2, <3>1, <3>2 DEF StuckInv, SleepInv
  <2>2. CASE feed_and_start_writer
    BY <1>1, <1>2, <2>2 DEF feed_and_start_writer, StuckInv, SleepInv
  <2>3. CASE test_count \/ test_finished \/ get_next_item \/ no_input_buffer \/ feed_packet
             \/ feed_eos
    <3>1. UNCHANGED enc
      BY <2>3 DEF test_count, test_finished, get_next_item, no_input_buffer, feed_packet,
                  feed_eos
    <3> QED
      BY <1>1, <1>2, <3>1 DEF StuckInv, SleepInv, enc
  <2> QED
    BY <2>1, <2>2, <2>3 DEF DecodeStep
<1> QED
  BY <1>3, <1>4, <1>5 DEF StuckInv

LEMMA WriterKeepsStuckInv ==
  ASSUME IInv, StuckInv, WriterStep \/ SpuriousWakeup
  PROVE  StuckInv'
<1>1. UNCHANGED <<nth, file, finished, encoder, is_running_mutex>>
  BY DEF WriterStep, init_output_context, OutputLoop, init_pts_offset, lock_is_running, test_running,
     cond_wait, wake, writer_loop, write_audio_frame, no_output_buffer, writer_exit,
     SpuriousWakeup, queue, enc
<1>2. CASE init_output_context
  <2>2. /\ \A t \in {"main", "demux", "decode"} : pc'[t] = pc[t]
        /\ pc["writer"] = "start" /\ pc'["writer"] \in {"pts_offset", "start"}
    BY <1>2, OtherThreads DEF init_output_context, OutputLoop, IInv, TypeOK
  <2>3. is_running_cv' = "none"
    BY <1>2, <2>2 DEF init_output_context, OutputLoop, enc, StuckInv, SleepInv
  <2>4. JoinInv' /\ SleepInv'
    BY <1>1, <2>2, <2>3 DEF StuckInv, JoinInv, SleepInv
  <2>5. BothKinds' <=> BothKinds
    BY <1>1, SameStreams DEF file
  <2>6. FinishInv'
    BY <1>1, <2>2, <2>5 DEF StuckInv, FinishInv
  <2> QED
    BY <2>4, <2>6 DEF StuckInv
<1>3. CASE ~init_output_context
  <2>1. \A t \in {"main", "demux", "decode"} : pc'[t] = pc[t]
    BY <1>3, Goes, OtherThreads
    DEF WriterStep, init_pts_offset, lock_is_running, test_running, cond_wait, wake, writer_loop,
        write_audio_frame, no_output_buffer, writer_exit, SpuriousWakeup
  <2>2. JoinInv'
    BY <1>1, <2>1 DEF StuckInv, JoinInv
  <2>3. BothKinds' <=> BothKinds
    BY <1>1, SameStreams DEF file
  <2>4. FinishInv'
    <3>1. pc'["writer"] = "exited" => pc["demux"] = "exited"
      BY <1>3, Goes DEF WriterStep, init_pts_offset, lock_is_running, test_running, cond_wait,
         wake, writer_loop, write_audio_frame, no_output_buffer, writer_exit, SpuriousWakeup
    <3> QED
      BY <1>1, <2>1, <2>3, <3>1 DEF StuckInv, FinishInv
  <2>5. SleepInv'
    <3>1. CASE init_pts_offset
      BY <1>1, <3>1, Goes DEF init_pts_offset, enc, StuckInv, SleepInv
    <3>2. CASE lock_is_running
      BY <1>1, <3>2, Goes DEF lock_is_running, enc, StuckInv, SleepInv
    <3>3. CASE test_running
      BY <1>1, <3>3, Goes DEF test_running, enc, StuckInv, SleepInv
    <3>4. CASE cond_wait \/ wake \/ SpuriousWakeup
      BY <1>1, <3>4, Goes DEF cond_wait, wake, SpuriousWakeup, output, StuckInv, SleepInv
    <3>5. CASE writer_loop
      BY <1>1, <3>5, Goes DEF writer_loop, enc, output, StuckInv, SleepInv
    <3>6. CASE writer_exit
      BY <1>1, <3>6, Goes DEF writer_exit, enc, output, StuckInv, SleepInv
    <3>7. CASE write_audio_frame \/ no_output_buffer
      BY <1>1, <3>7, Goes DEF write_audio_frame, no_output_buffer, enc, output, StuckInv, SleepInv
    <3> QED
      BY <1>3, <3>1, <3>2, <3>3, <3>4, <3>5, <3>6, <3>7 DEF WriterStep
  <2> QED
    BY <2>2, <2>4, <2>5 DEF StuckInv
<1> QED
  BY <1>2, <1>3

LEMMA NextStuckInv == IInv /\ StuckInv /\ [Next]_vars => StuckInv'
<1> SUFFICES ASSUME IInv, StuckInv, [Next]_vars PROVE StuckInv'
  OBVIOUS
<1>1. CASE UNCHANGED vars
  <2>1. BothKinds' <=> BothKinds
    BY <1>1, SameStreams DEF vars, file
  <2> QED
    BY <1>1, <2>1 DEF vars, queue, enc, output, StuckInv, JoinInv, FinishInv, SleepInv
<1> QED
  BY <1>1, MainKeepsStuckInv, DemuxKeepsStuckInv, DecodeKeepsStuckInv, WriterKeepsStuckInv
  DEF Next, ProgramStep

\* A writer that is blocked and has not ended hangs for one of the reasons.
LEMMA BlockedWriterHangs ==
  ASSUME IInv, StuckInv, WriterBlocked, pc["writer"] \notin {"none", "exited"}
  PROVE  WriterHangs
<1>1. CASE pc["writer"] = "blocked"
  BY <1>1 DEF StuckInv, SleepInv, WriterHangs
<1>2. CASE pc["writer"] = "waiting" /\ is_running_cv # "woken"
  <2>1. is_running_cv \in {"asleep", "forgotten"}
    BY <1>2 DEF StuckInv, SleepInv, IInv, TypeOK
  <2>2. encoder = "configured" => is_running
    BY DEF IInv, DecodeInv
  <2> QED
    BY <1>2, <2>1, <2>2 DEF StuckInv, SleepInv, WriterHangs
<1>3. CASE pc["writer"] = "starved"
  BY <1>3 DEF IInv, EncoderInv, WriterRunsConfigured, WriterHangs
<1> QED
  BY <1>1, <1>2, <1>3 DEF WriterBlocked

\* The list of the ways in which main waits for ever is complete, for every file, every
\* limit of the queues and every content of the memory main has not cleared.
THEOREM StuckForAReasonHolds == Spec => []StuckForAReason
<1>1. IInv /\ StuckInv => StuckForAReason
  <2> SUFFICES ASSUME IInv, StuckInv, Stuck
               PROVE  /\ nth = 1 => DemuxHangs
                      /\ nth = 2 => DecodeHangs
                      /\ nth = 3 => WriterHangs
    BY DEF StuckForAReason
  <2>1. pc["main"] = "join" /\ pc[Workers[nth]] \notin {"exited", "none"}
    BY DEF Stuck, MainBlocked
  <2>2. DemuxBlocked /\ DecodeBlocked /\ WriterBlocked
    BY DEF Stuck
  <2>3. ASSUME nth = 1 PROVE DemuxHangs
    <3>1. pc["demux"] \notin {"exited", "none"}
      BY <2>1, <2>3
    <3>2. CASE pc["demux"] = "video" /\ queued > MaxQueue
      <4>1. ~finished
        BY <3>2 DEF StuckInv, FinishInv
      <4>2. pc["decode"] # "exited"
        BY <4>1 DEF StuckInv, FinishInv
      <4>3. queued # 0
        BY <3>2
      <4> QED
        BY <2>2, <3>2, <4>2, <4>3 DEF DecodeBlocked, DemuxHangs
    <3>3. CASE pc["demux"] = "audio" /\ audio_queued > MaxQueue
      <4>1. pc["writer"] # "exited"
        BY <3>3 DEF StuckInv, FinishInv
      <4> QED
        BY <2>2, <3>3, <4>1, BlockedWriterHangs DEF DemuxHangs
    <3> QED
      BY <2>2, <3>1, <3>2, <3>3 DEF DemuxBlocked
  <2>4. ASSUME nth = 2 PROVE DecodeHangs
    <3>1. pc["decode"] \notin {"exited", "none"}
      BY <2>1, <2>4
    <3>2. finished \/ ~BothKinds
      BY <2>1, <2>4 DEF StuckInv, JoinInv, FinishInv
    <3> QED
      BY <2>2, <3>1, <3>2 DEF DecodeBlocked, DecodeHangs, BothKinds
  <2>5. ASSUME nth = 3 PROVE WriterHangs
    <3>1. pc["writer"] \notin {"exited", "none"}
      BY <2>1, <2>5
    <3> QED
      BY <2>2, <3>1, BlockedWriterHangs
  <2> QED
    BY <2>3, <2>4, <2>5
<1> QED
  BY <1>1, InitStuckInv, NextStuckInv, InvariantHolds, PTL DEF Spec
=============================================================================
