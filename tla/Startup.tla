------------------------------ MODULE Startup -------------------------------
(***************************************************************************)
(* How the program starts (main.c, the first steps of demux_thread,        *)
(* decode_thread and writer_thread): main allocates a context it does not  *)
(* clear, creates three threads and joins them; the threads fill in the    *)
(* context with nothing that orders them.  Uninitialised memory is a       *)
(* choice in Init.                                                         *)
(*                                                                         *)
(* Streams of the file and of the output context are counted from 1; 0 is  *)
(* no stream.  A thread that uses a pointer or an index that is not valid  *)
(* is "undefined", which ends the behaviour.  Queues are counters.  The    *)
(* pipeline only decides when, if ever, the encoder announces its output,  *)
(* and whether a thread goes to sleep for good for one of its buffers      *)
(* (DecoderInput, Transcoder and WriterLoop show how that comes).          *)
(***************************************************************************)
EXTENDS Naturals, Sequences, FiniteSets

CONSTANTS
  MaxStreams,  \* bound on the streams of the input file
  MaxQueue     \* the queue length above which extract_streams waits (100)

ASSUME BoundsAssumption == MaxStreams \in Nat \ {0} /\ MaxQueue \in Nat

Kinds   == {"video", "audio", "other"}
Workers == <<"demux", "decode", "writer">>  \* in the order main creates them
Threads == {"main", "demux", "decode", "writer"}

VARIABLES
  pc,
  nth,                 \* main: the thread it creates or joins
  input_context,       \* the kinds of the file's streams
  input_context_ptr,   \* the pointer before avformat_open_input
  video_stream_index,
  audio_codec,         \* the stream whose configuration ctx->audio_codec has
  queued, finished,    \* input_video_queue: queue_count, queue_finished
  audio_queued,        \* processed_audio_queue: queue_count
  encoder,             \* the component pipeline.video_encode
  is_running, is_running_mutex,
  is_running_cv,       \* what the writer's sleep on it has come to
  i,                   \* the writer's loop over the input streams
  output_context,      \* output streams, each the input stream it was made from
  video_stream, audio_stream, \* the writer's pointers to two of them
  indexed,             \* the stream found at video_stream_index there
  early                \* what the writer read before another thread had set it

file   == <<input_context, input_context_ptr>>
shared == <<video_stream_index, audio_codec>>
queue  == <<queued, finished, audio_queued>>
enc    == <<encoder, is_running, is_running_mutex, is_running_cv>>
output == <<i, output_context, video_stream, audio_stream, indexed, early>>
vars   == <<pc, nth, file, shared, queue, enc, output>>

\* init_global_ctx does not clear what malloc returned: the fields no assignment
\* reaches before the threads run hold anything.
Init ==
  /\ pc = [t \in Threads |-> IF t = "main" THEN "init" ELSE "none"] /\ nth = 1
  /\ input_context \in UNION {[1..k -> Kinds] : k \in 1..MaxStreams}
  /\ input_context_ptr \in {"NULL", "garbage"}
  /\ video_stream_index \in 0..MaxStreams /\ audio_codec = 0
  /\ queued = 0 /\ finished = FALSE /\ audio_queued = 0
  /\ encoder = "garbage" /\ is_running \in BOOLEAN
  /\ is_running_mutex \in {"free", "garbage"} /\ is_running_cv = "none"
  /\ i = 1 /\ output_context = <<>> /\ video_stream = 0 /\ audio_stream = 0
  /\ indexed = 0 /\ early = {}

\* Thread t moves on.
Go(t, from, to) == pc[t] = from /\ pc' = [pc EXCEPT ![t] = to]

-----------------------------------------------------------------------------
(* main *)

\* avformat_open_input allocates a context only if it is given NULL, takes what
\* it is given otherwise, and may fail, as avformat_find_stream_info may.
init_global_ctx ==
  /\ \/ input_context_ptr = "NULL" /\ \E to \in {"create", "aborted"} : Go("main", "init", to)
     \/ input_context_ptr = "garbage" /\ Go("main", "init", "undefined")
  /\ UNCHANGED <<nth, file, shared, queue, enc, output>>

\* pthread_create; a failure is reported and nothing else.
create_thread ==
  /\ pc["main"] = "create"
  /\ \E started \in BOOLEAN :
       pc' = [pc EXCEPT !["main"] = IF nth = 3 THEN "join" ELSE "create",
                        ![Workers[nth]] = IF started THEN "start" ELSE "none"]
  /\ nth' = IF nth = 3 THEN 1 ELSE nth + 1
  /\ UNCHANGED <<file, shared, queue, enc, output>>

\* pthread_join of a thread that exists returns when it has; the id of one that
\* was never created is 0.
join_thread ==
  /\ \/ /\ pc[Workers[nth]] = "exited"
        /\ Go("main", "join", IF nth = 3 THEN "cleanup" ELSE "join")
        /\ nth' = IF nth = 3 THEN nth ELSE nth + 1
     \/ pc[Workers[nth]] = "none" /\ Go("main", "join", "undefined") /\ UNCHANGED nth
  /\ UNCHANGED <<file, shared, queue, enc, output>>

\* packet_queue_flush of both queues and the frees.
main_cleanup ==
  /\ Go("main", "cleanup", "exited")
  /\ queued' = 0 /\ audio_queued' = 0
  /\ UNCHANGED <<nth, file, shared, finished, enc, output>>

-----------------------------------------------------------------------------
(* demux_thread *)

OfKind(kind) == {s \in 1..Len(input_context) : input_context[s] = kind}
First(S) == CHOOSE s \in S : \A r \in S : s <= r
Last(S)  == CHOOSE s \in S : \A r \in S : s >= r

\* init_streams_and_codecs keeps the last stream of each kind; without a stream of
\* both kinds the thread returns, and the queues are never marked finished.
init_streams_and_codecs ==
  /\ IF OfKind("video") # {} /\ OfKind("audio") # {}
     THEN Go("demux", "start", "set_index") /\ audio_codec' = Last(OfKind("audio"))
     ELSE Go("demux", "start", "exited") /\ UNCHANGED audio_codec
  /\ UNCHANGED <<nth, file, video_stream_index, queue, enc, output>>

\* Mutant: the number of the stream among the video streams.
Mut_set_video_stream_index ==
  /\ Go("demux", "set_index", "extract")
  /\ video_stream_index' = Cardinality(OfKind("video"))
  /\ UNCHANGED <<nth, file, audio_codec, queue, enc, output>>

set_video_stream_index ==
  /\ Go("demux", "set_index", "extract")
  /\ video_stream_index' = Last(OfKind("video"))
  /\ UNCHANGED <<nth, file, audio_codec, queue, enc, output>>

DemuxMoves(from, to) ==
  Go("demux", from, to) /\ UNCHANGED <<nth, file, shared, queue, enc, output>>

\* extract_streams: av_read_frame returns packets of both streams, as many as there are.
av_read_frame == \E to \in {"video", "audio"} : DemuxMoves("extract", to)

\* The demuxer waits while there are too many in the queue ...
wait_video == ~(queued > MaxQueue) /\ DemuxMoves("video", "add_video")

wait_audio == ~(audio_queued > MaxQueue) /\ DemuxMoves("audio", "add_audio")

\* ... and then adds the packet.
add_video ==
  /\ Go("demux", "add_video", "extract")
  /\ queued' = queued + 1
  /\ UNCHANGED <<nth, file, shared, finished, audio_queued, enc, output>>

add_audio ==
  /\ Go("demux", "add_audio", "extract")
  /\ audio_queued' = audio_queued + 1
  /\ UNCHANGED <<nth, file, shared, queued, finished, enc, output>>

\* Mutant: the end of the file is not marked.
Mut_video_finished ==
  /\ Go("demux", "extract", "audio_finished")
  /\ UNCHANGED <<nth, file, shared, queue, enc, output>>

\* At the end input_video_queue is marked finished ...
video_finished ==
  /\ Go("demux", "extract", "audio_finished")
  /\ finished' = TRUE
  /\ UNCHANGED <<nth, file, shared, queued, audio_queued, enc, output>>

\* ... and processed_audio_queue after it, with which the thread ends.
audio_finished == DemuxMoves("audio_finished", "exited")

-----------------------------------------------------------------------------
(* decode_thread *)

\* Mutant: the component is not cleared.
Mut_omx_init_component ==
  /\ Go("decode", "start", "test_count")
  /\ encoder' = "initialised"
  /\ is_running_mutex' = "free"
  /\ UNCHANGED <<nth, file, shared, queue, is_running, is_running_cv, output>>

\* omx_init_component of the encoder: memset, over a mutex and a condition variable
\* that the writer may already use: a sleeper is forgotten.
omx_init_component ==
  /\ Go("decode", "start", "test_count")
  /\ encoder' = "initialised"
  /\ is_running' = FALSE
  /\ is_running_mutex' = "free"
  /\ is_running_cv' = IF is_running_cv = "asleep" THEN "forgotten" ELSE is_running_cv
  /\ UNCHANGED <<nth, file, shared, queue, output>>

test_count ==
  /\ Go("decode", "test_count", IF queued # 0 THEN "get" ELSE "test_finished")
  /\ UNCHANGED <<nth, file, shared, queue, enc, output>>

test_finished ==
  /\ Go("decode", "test_finished", IF finished THEN "eos" ELSE "get")
  /\ UNCHANGED <<nth, file, shared, queue, enc, output>>

get_next_item ==
  /\ Go("decode", "get", "feed")
  /\ queued > 0
  /\ queued' = queued - 1
  /\ UNCHANGED <<nth, file, shared, finished, audio_queued, enc, output>>

\* omx_get_next_input_buffer, for a packet or for EOS, may sleep for good.
no_input_buffer ==
  /\ \E from \in {"feed", "eos"} : Go("decode", from, "no_buffer")
  /\ UNCHANGED <<nth, file, shared, queue, enc, output>>

feed_packet ==
  /\ Go("decode", "feed", "test_count")
  /\ UNCHANGED <<nth, file, shared, queue, enc, output>>

\* By the time a packet is fed the encoder may have announced its output: the writer
\* is signalled.
feed_and_start_writer ==
  /\ Go("decode", "feed", "test_count")
  /\ encoder = "initialised" /\ encoder' = "configured"
  /\ is_running' = TRUE
  /\ is_running_cv' = IF is_running_cv = "asleep" THEN "woken" ELSE is_running_cv
  /\ UNCHANGED <<nth, file, shared, queue, is_running_mutex, output>>

feed_eos ==
  /\ Go("decode", "eos", "exited")
  /\ UNCHANGED <<nth, file, shared, queue, enc, output>>

-----------------------------------------------------------------------------
(* writer_thread *)

\* The index has been set by demux_thread.
IndexSet == pc["demux"] \notin {"none", "start", "set_index"} /\ audio_codec # 0

\* One turn of the loop in init_output_context: the body, for a condition on which an
\* audio stream is copied.
OutputLoop(copies_audio) ==
  /\ pc["writer"] = "start"
  /\ early' = IF IndexSet THEN early ELSE early \cup {"index"}
  /\ i' = i + 1
  /\ pc' = [pc EXCEPT !["writer"] = IF i = Len(input_context) THEN "pts_offset" ELSE "start"]
  /\ \/ /\ i = video_stream_index
        /\ video_stream' = i
        /\ output_context' = Append(output_context, i)
        /\ UNCHANGED audio_stream
     \/ /\ i # video_stream_index /\ copies_audio
        /\ audio_stream' = i
        /\ output_context' = Append(output_context, i)
        /\ UNCHANGED video_stream
     \/ /\ i # video_stream_index /\ ~copies_audio
        /\ UNCHANGED <<video_stream, audio_stream, output_context>>
  /\ UNCHANGED <<nth, file, shared, queue, enc, indexed>>

\* Mutant: every audio stream is copied.
Mut_init_output_context == OutputLoop(input_context[i] = "audio")

\* Only the first audio stream is.
init_output_context == OutputLoop(input_context[i] = "audio" /\ audio_stream = 0)

\* writer_thread finds its stream in the output context by its index in the input.
init_pts_offset ==
  /\ IF video_stream_index \in 1..Len(output_context)
     THEN /\ Go("writer", "pts_offset", "lock")
          /\ indexed' = output_context[video_stream_index]
     ELSE Go("writer", "pts_offset", "undefined") /\ UNCHANGED indexed
  /\ early' = IF IndexSet THEN early ELSE early \cup {"index"}
  /\ UNCHANGED <<nth, file, shared, queue, enc, i, output_context, video_stream, audio_stream>>

\* is_running_mutex is locked, initialised or not, and never unlocked again; only
\* the writer uses it.  If its memory says locked, nobody will wake the thread.
lock_is_running ==
  /\ Go("writer", "lock", IF is_running_mutex = "free" THEN "test_running" ELSE "blocked")
  /\ early' = IF encoder = "garbage" THEN early \cup {"encoder"} ELSE early
  /\ UNCHANGED <<nth, file, shared, queue, enc, i, output_context, video_stream, audio_stream, indexed>>

test_running ==
  /\ Go("writer", "test_running", IF is_running THEN "loop" ELSE "to_wait")
  /\ early' = IF encoder = "garbage" THEN early \cup {"encoder"} ELSE early
  /\ UNCHANGED <<nth, file, shared, queue, enc, i, output_context, video_stream, audio_stream, indexed>>

cond_wait ==
  /\ Go("writer", "to_wait", "waiting")
  /\ is_running_cv' = "asleep"
  /\ UNCHANGED <<nth, file, shared, queue, encoder, is_running, is_running_mutex, output>>

wake ==
  /\ is_running_cv = "woken"
  /\ Go("writer", "waiting", "test_running")
  /\ is_running_cv' = "none"
  /\ UNCHANGED <<nth, file, shared, queue, encoder, is_running, is_running_mutex, output>>

\* A sleeper may wake for no reason, also one the condition variable has forgotten.
SpuriousWakeup ==
  /\ Go("writer", "waiting", "test_running")
  /\ is_running_cv' = "none"
  /\ UNCHANGED <<nth, file, shared, queue, encoder, is_running, is_running_mutex, output>>

\* The first turn of the loop: a component that was never set up has no handle and no
\* list of buffers, and both streams are written to.
writer_loop ==
  /\ Go("writer", "loop",
        IF encoder = "garbage" \/ video_stream = 0 \/ audio_stream = 0
        THEN "undefined" ELSE "running")
  /\ UNCHANGED <<nth, file, shared, queue, enc, output>>

\* At most one audio packet per turn is written.
write_audio_frame ==
  /\ Go("writer", "running", "running")
  /\ audio_queued > 0
  /\ audio_queued' = audio_queued - 1
  /\ UNCHANGED <<nth, file, shared, queued, finished, enc, output>>

\* omx_get_next_output_buffer may sleep for good.
no_output_buffer ==
  /\ Go("writer", "running", "starved")
  /\ UNCHANGED <<nth, file, shared, queue, enc, output>>

\* The loop ends some time after the encoder has sent EOS and the audio queue is
\* finished; then the trailer and the clean-up.
writer_exit ==
  /\ Go("writer", "running", "exited")
  /\ finished /\ pc["demux"] = "exited" /\ pc["decode"] = "exited" /\ encoder = "configured"
  /\ UNCHANGED <<nth, file, shared, queue, enc, output>>

-----------------------------------------------------------------------------
MainStep   == init_global_ctx \/ create_thread \/ join_thread \/ main_cleanup
DemuxStep  == \/ init_streams_and_codecs \/ set_video_stream_index \/ av_read_frame
              \/ wait_video \/ add_video \/ wait_audio \/ add_audio
              \/ video_finished \/ audio_finished
DecodeStep == \/ omx_init_component \/ test_count \/ test_finished \/ get_next_item
              \/ no_input_buffer \/ feed_packet \/ feed_and_start_writer \/ feed_eos
WriterStep == \/ init_output_context \/ init_pts_offset \/ lock_is_running
              \/ test_running \/ cond_wait \/ wake \/ writer_loop
              \/ write_audio_frame \/ no_output_buffer \/ writer_exit

ProgramStep == MainStep \/ DemuxStep \/ DecodeStep \/ WriterStep

Undefined == \E t \in Threads : pc[t] = "undefined"

Next == ~Undefined /\ (ProgramStep \/ SpuriousWakeup)

Spec == Init /\ [][Next]_vars

-----------------------------------------------------------------------------
(* Properties *)

TypeOK ==
  /\ pc \in [Threads -> {"none", "init", "create", "join", "cleanup", "aborted", "start",
                         "set_index", "extract", "video", "add_video", "audio", "add_audio",
                         "audio_finished", "test_count", "test_finished", "get", "feed",
                         "eos", "no_buffer", "pts_offset", "lock", "blocked", "test_running",
                         "to_wait", "waiting", "loop", "running", "starved", "exited",
                         "undefined"}]
  /\ nth \in 1..3
  /\ video_stream_index \in 0..MaxStreams /\ audio_codec \in 0..MaxStreams
  /\ queued \in Nat /\ audio_queued \in Nat
  /\ finished \in BOOLEAN
  /\ encoder \in {"garbage", "initialised", "configured"}
  /\ is_running \in BOOLEAN /\ is_running_mutex \in {"free", "garbage"}
  /\ is_running_cv \in {"none", "asleep", "forgotten", "woken"}
  /\ i \in 1..(MaxStreams + 1)
  /\ output_context \in Seq(1..MaxStreams)
  /\ {video_stream, audio_stream, indexed} \subseteq 0..MaxStreams
  /\ early \subseteq {"index", "encoder"}

\* Every stream before the demuxer's video stream is one the output context has too,
\* so that an index of the input is one of the output.
Aligned ==
  OfKind("video") # {} =>
    \A s \in 1..(Last(OfKind("video")) - 1) :
      input_context[s] = "audio" /\ s = First(OfKind("audio"))

\* The accesses to memory that is not valid, and no other: main opens the file through
\* a pointer it has not cleared or joins a thread it could not create; the writer reads
\* the stream index or the encoder before the other threads have set them, or uses an
\* index of the input file in an output context that lacks some of its streams.
UndefinedForAReason ==
  /\ pc["main"] = "undefined" =>
       input_context_ptr = "garbage" \/ pc[Workers[nth]] = "none"
  /\ pc["writer"] = "undefined" => early # {} \/ ~Aligned
  /\ pc["demux"] # "undefined" /\ pc["decode"] # "undefined"

\* If the writer does not look at the encoder before decode_thread has set it up, it
\* passes its wait only once the encoder is configured: what malloc left in is_running
\* is not taken for a signal.
WriterRunsConfigured ==
  pc["writer"] \in {"loop", "running", "starved", "exited"} /\ "encoder" \notin early =>
    encoder = "configured"

\* If the writer reads video_stream_index after demux_thread has set it, the output
\* file has one video and one audio stream in the order of the input; the index finds
\* the video stream exactly if the streams are aligned, and the header describes the
\* audio that the demuxer queues exactly if there is one audio stream to choose from.
OutputMatchesInput ==
  "index" \notin early /\ pc["writer"] \notin {"none", "start", "pts_offset"} =>
    LET video == Last(OfKind("video"))
        audio == First(OfKind("audio"))
    IN  /\ video_stream = video /\ audio_stream = audio
        /\ output_context = IF video < audio THEN <<video, audio>> ELSE <<audio, video>>
        /\ indexed = video_stream <=> Aligned
        /\ audio_stream = audio_codec <=> Cardinality(OfKind("audio")) = 1

\* Where a thread has ended, was never made or waits for another one: the guards of all
\* steps, spelled out.
MainBlocked   == pc["main"] = "join" /\ pc[Workers[nth]] \notin {"exited", "none"}
DemuxBlocked  ==
  \/ pc["demux"] \in {"none", "exited"}
  \/ pc["demux"] = "video" /\ queued > MaxQueue
  \/ pc["demux"] = "audio" /\ audio_queued > MaxQueue
DecodeBlocked ==
  \/ pc["decode"] \in {"none", "no_buffer", "exited"}
  \/ pc["decode"] = "get" /\ queued = 0
WriterBlocked ==
  \/ pc["writer"] \in {"none", "blocked", "starved", "exited"}
  \/ pc["writer"] = "waiting" /\ is_running_cv # "woken"

\* A writer that runs has a step, be it to sleep for good.
Stuck == ~Undefined /\ MainBlocked /\ DemuxBlocked /\ DecodeBlocked /\ WriterBlocked

\* The writer is blocked on a mutex that was never initialised; it sleeps because its
\* condition variable was cleared under it, because the signal came before it slept, or
\* because the encoder has announced nothing; or it starves in its loop, which it only
\* enters with an encoder that was never configured if is_running was left over.
WriterHangs ==
  \/ pc["writer"] = "blocked" /\ "encoder" \in early
  \/ /\ pc["writer"] = "waiting"
     /\ \/ is_running_cv = "forgotten" /\ "encoder" \in early
        \/ is_running_cv = "asleep" /\ (is_running \/ encoder # "configured")
  \/ pc["writer"] = "starved" /\ (encoder = "configured" \/ "encoder" \in early)

\* decode_thread sleeps for an input buffer, or on a queue that the demuxer did not finish
\* for want of a pair of streams, or finished too late.
DecodeHangs ==
  \/ pc["decode"] = "no_buffer"
  \/ /\ pc["decode"] = "get" /\ queued = 0
     /\ finished \/ OfKind("video") = {} \/ OfKind("audio") = {}

\* The demuxer waits for room in the video queue, and decode_thread sleeps for an input
\* buffer or was never created; or in the audio queue, and the writer hangs or was never
\* created.
DemuxHangs ==
  \/ /\ pc["demux"] = "video" /\ queued > MaxQueue
     /\ pc["decode"] \in {"none", "no_buffer"}
  \/ /\ pc["demux"] = "audio" /\ audio_queued > MaxQueue
     /\ pc["writer"] = "none" \/ WriterHangs

\* The ways in which the start can leave main in a join for ever, by the thread it joins:
\* there is no other.
StuckForAReason ==
  Stuck => /\ nth = 1 => DemuxHangs
           /\ nth = 2 => DecodeHangs
           /\ nth = 3 => WriterHangs
=============================================================================
