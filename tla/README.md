# omxtranscode in TLA+

A TLA+ model of omxtranscode, a transcoder for the Raspberry Pi: one thread
demultiplexes an input file, one feeds the video to an OpenMAX pipeline
(decoder, deinterlacer, encoder) and one writes encoded video and copied audio to
an MPEG transport stream. The modules here model its queues, buffers, commands
and threads; TLC checks them on small instances and TLAPS proves the main
properties for every value of the constants: every invariant the passing runs check is
a theorem, and so is every property of steps. Only the properties that need fairness are
left to TLC alone.

All paths and lines below are those of `src/`.

## 1. The system

| component | source | state | operations | works with |
|---|---|---|---|---|
| packet queue | `packet_queue.c` | list, `queue_count`, `queue_finished`, a mutex, a condition variable | add, get (blocking), get (asynchronous), flush, free packet | three instances: `input_video_queue`, `processed_audio_queue`, `encoded_video_queue` |
| demux thread | `demux.c` | the file position; both queues' `queue_finished` | `extract_streams`: read, wait for room, add; mark both queues finished | polls `queue_count` without the mutex, adds to two queues |
| decode thread | `encode.c` | current packet, bytes left, `first_packet` | cut a packet into decoder buffers, configure the pipeline as components announce their ports, start the writer, send EOS | reads the video queue, calls into OpenMAX, signals the writer |
| OMX commands | `omx.c` | per component one slot `cmd`, mutex, condition variable | `wait0` records and sends, `wait1` waits for an empty slot, the event handler empties it | decode thread against component threads |
| decoder input buffers | `omx.c` | list `in_buffers`, `nFilledLen` of each, `buf_in_notempty` | `omx_get_next_input_buffer`, `omx_empty_buffer_done` | decode thread against the decoder's callback |
| encoder output buffers | `omx.c` | list `out_buffers`, `buf_out_notempty` | `omx_get_next_output_buffer`, `omx_encoder_fill_buffer_done` | writer against the encoder's callback |
| writer thread | `mux.c` | loop state, `mux_state` | wait for `is_running`; per turn: give a buffer away, write at most one audio and one video packet | polls two queues, reads `eos` and `queue_finished` |
| NAL assembly | `mux.c` | SPS, PPS, partial NAL, extradata | `write_video_frame`, `extract_pps_ssp_packet`, `init_stream_extra_data` | the muxer (libav), which takes over the data it is given |
| output context | `mux.c` | streams of the output file | `init_output_context`: one video, one audio stream | reads the file's streams and `video_stream_index`, which the demux thread sets |
| linked list | `list.h` | `next` and `prev` pointers | add at the tail, delete, iterate and delete | inside every packet and every packet queue |
| time stamps | `omx.c` | | `pts_to_omx`, `omx_to_pts` | decode thread, encoder's callback |
| main | `main.c` | the context, partly uninitialised | open the file, create three threads, join them, flush two queues | all |
| dead code | `omx.c`, `video.c`, `main.c` | | | see "Not modelled" |

`src/README` also names a consumer thread; the code has none, `writer_thread`
does its work.

What is hard here, and what the properties are aimed at:

- *interleavings*: `queue_count`, `queue_finished`, `is_running`, `eos` and
  `nFilledLen` are read without the lock under which (if any) they are written;
  `omx_empty_buffer_done` tests a flag before it locks; two consumers of a queue,
  and a signal only when the list was empty;
- *waits*: seven places where a thread may sleep, each relying on another thread
  or on hardware, with a cycle through the bounded audio queue, the gated polling
  of the writer and the announcements of the components;
- *ordering*: port announcements, command completions, EOS against the last
  buffers, the two `queue_finished` flags;
- *protocols*: nested `wait0`/`wait1` pairs that share one slot; NAL units and
  parameter sets cut into pieces;
- *the start*: three threads fill in a context that `malloc` returned, with nothing
  that orders them, and use each other's fields;
- *ownership*: packets and their data pass between threads, a queue, an assembly
  buffer and a library, and each must be freed once;
- *the end*: what is still queued when a loop ends, who frees it, who is still
  asleep.

Each of these is listed in `PROJECT.json` under "hazards" at its line, with the
properties that would notice it go wrong.

## 2. Modules

| module | models | abstraction |
|---|---|---|
| `PacketFifo` | what a queue promises: an atomic FIFO with its length | |
| `PacketQueue` | `packet_queue.c`, one action per step between two synchronisation points | the list is a sequence, a packet a model value with an ownership state |
| `PacketQueueList` | `PacketQueue` with the pointers of `list.h` | a `list_head` is its packet, or the head |
| `WriterLoop` | the writer's loop, `out_buffers`, the encoder's callbacks, `extract_streams` with its waits | queues atomic (justified by `PacketQueue`), critical sections atomic; `decode_thread` and the hardware up to the encoder are one step per packet, and may stop |
| `Transcoder` | the three threads with queues, ports and pipeline, composed | a queue operation is one step; unsynchronised reads, of `queue_count` before an append as well, are steps of their own; buffers are counted, with the flag and the callback of the decoder's |
| `Startup` | `main`, and each thread up to and including its first turns: choice of streams, `init_output_context`, `omx_init_component`, the wait for `is_running`, the demuxer's waits for room | queues are counters, the pipeline a choice, also of whether a thread sleeps for good for one of its buffers |
| `OmxCommand` | `wait0`, `wait1`, the event handler, and the commands the code sends, as a script built by operators named like the functions | parameters of a command that no property reads are left out |
| `OmxTicks` | `pts_to_omx`, `omx_to_pts` | the width of a word is a parameter |
| `DecoderInput` | cutting packets into buffers and the hand-over of the buffers, with `OmxTicks` | bytes are counted, not stored |
| `MuxVideo` | `write_video_frame` and what it calls, with the memory it handles | a packet is its type and its end-of-NAL flag, data the numbers of packets |
| `PacketQueueProofs`, `WriterLoopProofs`, `TranscoderProofs`, `StartupProofs`, `OmxCommandProofs`, `DecoderInputProofs`, `MuxVideoProofs` | theorems about the module of that name, and about `PacketQueueList` and `OmxTicks` in the first and the sixth | |
| `NatSetInduction` | induction below a bound, least and greatest elements, sums and concatenations defined by recursion | |
| `MC...` | instances for TLC | |

`Mut_...` operators are deliberately wrong versions of an action; they are
used by nothing and show that the properties can fail.

### PacketQueue

A thread's `pc` says at which point of which call it is; `item` is the packet it
holds, `heap` whether a packet is unallocated, live or freed. `queue_count_cv` is
the set of sleepers. Producers, the blocking reader and an asynchronous reader
use one queue at once; in the program a queue has a producer and *one* reader,
which is an instance of this. The module assumes at most one blocking reader
(only `decode_thread` calls `packet_queue_get_next_item`): with two, a signal given only
for an empty list would not be enough. `pthread_cond_wait` may wake spuriously. Main
flushes after every worker has returned, as in `main.c:145-158`.

`AbsContents` and `AbsReceived` are the refinement mapping: an operation takes
effect when it updates `queue_count`, so the count that other threads read without
the mutex is at every moment the length of the abstract queue.

### PacketQueueList

Adds `next`, `prev` and the two cursors of `list_for_each_safe` to `PacketQueue`: the
steps that touch the list do to the pointers what `list.h` does, and all others leave
them alone. `queue` stays as the history that the ring of pointers must agree with
(`ListIsQueue`), so everything shown about `queue` holds of the list in memory. An
allocated packet's pointers start as `LIST_POISON`, standing for whatever `malloc`
left: they are written before they are read.

### WriterLoop

A turn of the loop is `test_eos`, perhaps `test_finished`, `get_next_output_buffer_*`,
`OMX_FillThisBuffer`, `write_audio_frame`, `write_video_frame`. FillBufferDone is
two steps: queue the packet, then link the buffer and, if the flag was 0, set it
and signal. The encoder fills buffers in the order it got them (external), and only if a
frame has reached it.

What reaches it comes from the other two threads. The demuxer reads packets of either
stream in any order and number, waits for room and appends as in `Transcoder`.
`decode_thread` and the components before the encoder are reduced to what the writer can
notice: a packet that was queued reaches the encoder (`decode_thread_feeds`), EOS follows
the packets once the queue is finished (`decode_thread_sends_eos`), perhaps with packets
left behind, or neither happens any more (`decode_thread_stops`): `decode_thread` may go
to sleep for ever, on a queue that has been finished or for an input buffer. The EOS
event may come just before or just after the last FillBufferDone, and not at all if EOS
was not sent.

### Transcoder

Starts when the pipeline has been set up (`omx_setup_encoding_pipeline` has
returned), with the decoder configured and the other two components not. External
assumptions, taken from how the code uses the hardware: a component announces its
output port once, when it has been configured and has a frame; a frame leaves the
decoder only if there is room down the pipeline; the encoder needs a buffer to
emit a packet; EOS comes out behind the last frame. A packet fills one input buffer
(`DecoderInput` treats the cutting). `demux_pc`, `decode_pc`, `writer_pc` name the
next step of each thread.

The demuxer tests `queue_count` (`wait_video`, `wait_audio`) and appends in a later step,
so the readers may act between; the file ends, or `av_read_frame` fails, after any number
of packets. The wait for an input buffer keeps what `DecoderInput` shows of it: the scan
finds no empty buffer (`get_next_input_buffer`), the flag is cleared in a second step
(`get_buffer_none`), and the wait ends with the flag set (`get_buffer_wait`). On the other
side the decoder empties a buffer and then calls back: `empty_buffer_done_test` reads the
flag at any moment, `empty_buffer_done_set` needs the mutex, which `decode_thread` holds
between the scan and the wait. So the lost wake-up of the run `decoder_input_block`
happens here too, with all it does to the other threads.

### Startup

`Init` chooses the input file's streams and the content of every field that is read
before it may have been written: `input_context`, `video_stream_index`, the encoder's
`is_running` and its mutex. `video_stream_index` 0 in the model (streams count from
1) also stands for a number no stream has. A use of an invalid pointer or index sets
that thread's `pc` to `undefined`, after which nothing is said: the behaviour ends. `early`
records whether the writer looked at a field before another thread had set it, so
that the properties can say what holds when it did not. A creation of a thread may
fail, as the code expects (`main.c:131`). `omx_init_component` clears `is_running`
and re-initialises the condition variable on which the writer may sleep; a sleeper
is then *forgotten* and only a spurious wake-up helps it.

The file has any number of packets, and the demuxer waits for room in either queue, with
the append a step of its own: a demuxer whose reader was never created, or sleeps, stops
there. `decode_thread` may sleep for good for an input buffer (`no_input_buffer`) and the
writer for an output buffer (`no_output_buffer`); how that comes is the matter of the
other modules, and what main and the demuxer make of it is the matter of this one.

### OmxCommand

The whole configuration is one sequence of calls, `Script`; the state is the index
of the current call, the slots, the commands outstanding at each component and the
ports with buffers. Completion is external: enabling port 130 or 201 takes the
application's buffers, as the comment at `encode.c:160` says; tunnelled ports
complete at any time. `in_order` is chosen in the initial state: either the
components complete commands in the order they got them or in any order.

### DecoderInput

`omx_get_next_input_buffer` is modelled read by read, because the decoder resets
`nFilledLen` while the list is being scanned, and `omx_empty_buffer_done` reads
`buf_in_notempty` without the mutex. `omx_get_free_buffer_count` feeds a log line, but it
takes the mutex, so it is a step. A chunk carries its flags and the time stamp
that `pts_to_omx` makes; the last buffer, with EOS, keeps the stale time stamp of an
earlier use, which is left out.

### MuxVideo

`stream` numbers the packets that were taken; `calls` is what was passed to
`av_interleaved_write_frame`. Memory is a set of named blocks: the data of a packet, the
assembly buffer of a unit, the copy of a parameter set. `live` are those neither freed
nor given to the muxer, which calls `avpacket_destruct`. Every piece is taken to
carry at least one byte, and a type to be found in the first piece of a unit. `Nals` are
the complete units of the stream, told from the end-of-NAL flags alone (`IsNal`), so
that the properties do not use the assembly they are about.

## 3. Runs

The passing runs use the fair specifications, so that safety and liveness are
checked on one state space. Deadlock checking is off in all runs: the program ends, and,
as the findings show, may also stop before its end.

The type invariants are theorems of every module; a run checks only that of
`DecoderInput`, where the type of `nFilledLen` says that no buffer of the decoder is
overrun.

| run | bounds | shows |
|---|---|---|
| `queue` | 2 producers, 1 blocking and 1 asynchronous reader, 3 packets | order, custody up to and after the flush, no lost wake-up, the ring of pointers, refinement of `PacketFifo`, the blocking reader is served |
| `writer` | 2 buffers, up to 4 video and 2 audio packets, limit 0 | no buffer lost or doubled, no lost wake-up, bounded backlog, the writer sleeps only when all is written, `StarvesForAReason`, every encoded packet is taken, `ExitsOrStarves`, and that the loop runs out of work |
| `transcoder` | up to 4 video and 2 audio packets in any order, limit 0, 2 input buffers, room for 1 frame, 1 output buffer | queue bounds although test and append are two steps, feeding in order, EOS only at the end, the writer started only with a configured encoder, `KnownStalls`, that the threads run out of work, `QueuedVideoIsFed` |
| `startup` | every file of up to 3 streams and any number of packets, limit 1, any uninitialised memory, any creation of a thread failing | which reads come too early and which use of them is undefined; that the writer otherwise waits for the encoder; which streams the output has; where main's joins can block |
| `commands` | the complete script | that no slot waits for what has been completed, what a wait guarantees, that a sleeper will be woken, and that the set-up ends |
| `decoder_input` | packets of 1, 5, 0 and 2 bytes, PTS from -8 to 7 with words of 2 bits, 2 buffers of 2 bytes | chunks, flags and time stamps, no buffer overwritten in flight, no deadlock on the mutex, the only eternal wait |
| `mux_video` | all streams of 5 packets | whole NAL units in order, written iff both parameter sets are known, extradata, custody of data |

The runs expected to fail, each a finding:

| run | what happens |
|---|---|
| `transcoder_drop` | `encode.c:48` reads `queue_count = 0`; the demuxer adds its last packet and sets `queue_finished`; the loop reads that and ends: the packet is never decoded |
| `transcoder_start` | `is_running` is set and signalled without `is_running_mutex`, between the writer's test and its wait |
| `transcoder_audio` | demuxer waits for room for audio, writer for an output buffer, encoder for a frame, decode thread for a packet |
| `decoder_input_block` | the callbacks read `buf_in_notempty = 1`, then the thread clears it and sleeps, with all buffers empty |
| `mux_video_empty` | a partial NAL makes the code pass a packet without data to the muxer |

More ways to stop are part of passing properties: `KnownStalls`, `StarvesForAReason`,
`ExitsOrStarves` and the two `StuckForAReason` (of `Startup` and `DecoderInput`) list
*every* state in which the program can hang in the model, so
a new one would be a violation. `KnownStalls` names seven classes: `decode_thread` asleep on
a queue that was finished after it had read "not yet", without a signal; the writer asleep
although `is_running` is set; the writer asleep because no frame ever reached the encoder;
the cycle through the audio queue; the decoder full before the pipeline is configured;
`decode_thread` asleep with an input buffer empty, the wake-up having been lost; and the
writer waiting for a buffer after the end. `ExitsOrStarves` names the three ways in which
the writer starves for good: EOS and the end of the file came after it had tested for
them, `decode_thread` has stopped, or the demuxer waits for room in the audio queue.
`StarvesForAReason` says the same of every state in which no step can lead to a signal, and
that everything encoded has then been written.
`StuckForAReason` of `Startup` goes by the thread that main joins. The demuxer hangs in a
wait for room, in the video queue if `decode_thread` was not created or sleeps for an
input buffer, in the audio queue if the writer was not created or hangs.
`decode_thread` hangs for an input buffer, or on a queue that was finished too late, or never,
the file having no video or no audio. The writer hangs on a mutex that was garbage when it
locked it, on a condition variable cleared under it, on a signal that came before its
sleep, on an encoder that never announced anything, or for an output buffer, the latter
with an encoder that was never configured only if it read `is_running` too early.

These premises are written out as guards (`Stalled`, `Stuck`, `EncoderIdle`, ...): a thread is
blocked where it waits for something that is not there. The other half of the argument is
`WorkRunsOut`, of `Transcoder` and `WriterLoop`: `Work`, a natural number, goes down with
every step but a spurious wake-up, and such a wake-up adds no more than the thread spends
on going back to sleep. So a run with finitely many spurious wake-ups cannot go on for ever:
it comes to its end or to one of the listed stops.

In the same way `UndefinedForAReason` is the complete list of the invalid accesses at the
start, `OutputMatchesInput` says exactly when the index of the input file finds the
video stream in the output (the only stream before it, if any, is the first audio stream) and
when the header describes the audio that is written (one audio stream), and
`DataCustody` says exactly what `write_video_frame` leaks: the data of parameter sets and
of units that come before both sets are known, and the last piece of a unit that was
put together.

Why the bounds suffice. The limit of 100 packets (`demux.c:92`) is a constant of
the model; 0 or 1 makes a queue fill after one or two packets, so waiting for room,
an empty queue and every mixture of both occur in every run. There are more
packets than buffers plus pipeline, so buffers are reused and everything upstream
is blocked at some point; all seven classes of `KnownStalls` and all three of
`ExitsOrStarves` are reached. Three streams hold two of one kind, a stream that is neither, and
each order; the start has no counter but the two queues, which the limit bounds, and a
limit of 1 tells an empty queue, a filled one and a full one apart. Two input buffers make the scan pass over a filled buffer and find none;
packet lengths are empty, within, exactly and beyond a buffer. Five packets hold both parameter
sets, a unit in two pieces and a repeated set. Words of two bits make every PTS
between -8 and 7 possible; the theorem is about every width. Commands are not bounded at all.
For the invariants and for `WorkRunsOut` the theorems below remove the bounds; they
remain only for the properties that need fairness.

Fairness. Threads are weakly fair: each is scheduled by the kernel and a step that
stays possible is taken. A component completes commands, consumes buffers and
calls back as long as it can: weak fairness of its actions, the two steps of a callback
included. In `WriterLoop` weak fairness of `DecodeStep` makes `decode_thread` go on, end or
stop, never which: that it feeds everything is not assumed. Strong fairness is
used in two places, both for taking a mutex that other threads release
again and again (the blocking reader of a queue against a polling one;
`empty_buffer_done_set` against spurious wake-ups): a waiter is not overtaken for
ever. Nothing is assumed of spurious wake-ups and of the input file.

## 4. Proofs

`PacketQueueProofs`: the inductive invariant joins the type invariant, mutual
exclusion (a thread is in a critical section iff it owns the mutex), the relation
between `queue_count` and the list at each point, the order history, where a packet
can be, and the sleepers' condition; `NoLostWakeup` alone is not inductive, because a
reader between its test and its wait must also be excluded by the mutex. From it
follow `TypeOK`, `FifoOrder`, `NoLostWakeup` and, with one step lemma per action, the
refinement `Spec => Fifo!FifoSpec`. Assumptions: the named ASSUME of `PacketQueue`
(disjoint roles, at most one blocking reader, NULL is no packet and no thread).

`WriterLoopProofs`: the bound on the backlog follows from a *credit* argument. Every
packet of `encoded_video_queue` came in a buffer, and that buffer has returned to the
list, is being returned, or has been handed out again by a writer that will poll
before it asks for the next one. So

    Len(encoded_video_queue) <= Len(out_buffers) + One(held) + One(returning) + AboutToPoll

is inductive, together with the accounting of buffers; `BacklogBound` and
`BlockedOnlyWhenDrained` are corollaries. `TypeOK`, `BuffersAccounted` and
`NoLostBufferWakeup` are proved from the same invariant, with `OrderInv` for the packets
that were emitted and `InputInv`, that nothing is encoded that was not fed and nothing fed
that was not queued, and that EOS is sent only after the video queue has been finished. A
writer that sleeps holds no buffer and has none in its list, so by the accounting the encoder
holds all of them and fills one for every frame that has reached it; it then lacks a frame,
because the stream is over, `decode_thread` has stopped, or the demuxer waits: that is
`StarvesForAReason`. A wait for room in the video queue is none of the reasons, since
`decode_thread` would take a packet. For `WorkRunsOut` each packet still to come is worth a
buffer on its way back, that one a buffer in the list, and that one a turn of the loop, with
a little left over at each exchange for the flag and the sleep (lemma `Less`). Assumption:
`SizesAssumption` of `WriterLoop`.

`TranscoderProofs`: `QueueBound` holds because the demuxer is the only producer:
between its test and its append, two steps with any steps of the others between them, a
queue can only shrink (`RoomInv`). `FedInOrder` is kept by every
move of a packet, but only if `decode_thread` never takes a packet while it holds one,
which is a matter of where it is in its loop (`DecodeInv`); the same part says that it
leaves the loop only after the demuxer has closed the queue, which is `EosOnlyAtEnd`.
`StartedOnlyConfigured` follows a chain: the writer has passed `is_running`, that is
set only when the encoder has announced its port, a component announces only when it
is configured, and the encoder is configured only after `image_fx` has announced
(`PortsInv`, `StartInv`); the buffers are then counted by `BuffersInv`. `FramesInv`
(frames move down the pipeline and none is made on the way) and `EndInv` are needed
for the type. `KnownStalls` is a case distinction over where the three threads are when
none has a step: whoever waits in a queue, for room or for a buffer finds that the
other side has ended or waits itself. A `decode_thread` that waits for an input buffer has one empty, which is the lost
wake-up, or the decoder is full and cannot get rid of a frame. It needs `FinishInv`, which
relates the two `queue_finished` flags to the demuxer's position. `WorkRunsOut` adds up one sum for each thread and one for
the hardware; each action lowers its own, and where it raises another (a packet fed is
a frame to be decoded, a buffer emptied is a callback and, with the flag it sets, a
turn of the wait, a buffer filled is a turn of the writer) it lowers its own by
more. Assumption: `SizesAssumption`, that limits and counts are natural
numbers and each component has at least one buffer.

`StartupProofs`: the loop of `init_output_context` has the invariant `MadeBefore`: the
output holds, in order, the streams made of the input's streams before the cursor.
With both choices known, it is one of two sequences; the index of the input finds the
video stream exactly if the video comes first, or second right after the audio (the
lemma `AlignedMeans`). Everything said of the writer carries the condition that it
looked at no field before it was set (`early`), and that is what makes
`WriterRunsConfigured` true: `EncoderInv` relates `is_running` to the encoder's state
only from `omx_init_component` on. `UndefinedForAReason` is the union of what each
step can do wrong. `StuckForAReason` rests on `StuckInv`: main joins in the order of the
creation (`JoinInv`); a demuxer that has ended has finished the queues unless a stream is
missing, and `decode_thread` ends only after that (`FinishInv`); and a writer that is blocked
by the mutex or was forgotten by `omx_init_component` looked at the encoder before it was
set up (`SleepInv`). A wait for room in a queue whose reader still runs is no stop: the
queue holds something, so the reader has a step.
Assumption: `BoundsAssumption`; files have any number of streams of
any kinds.

`OmxCommandProofs`: `SlotIsOutstanding` holds in any order of completion.
`WaitedIsDone` needs order: then the slot of a component that still has a command
outstanding holds the last one sent to it (`LastInv`), so an empty slot means that
nothing is outstanding, whichever command the wait was meant for; and what has been
waited for does not come back (`SentInv`, `DistinctInv`: what is outstanding was sent
by earlier calls, each once). These rest on facts of the script: a command is sent at
most once, a wait comes after its command, a component is set up before it is sent
anything, and a component that is told to execute is waited for just before and before
it is sent anything else. They are proved for any list of ports: the loop that
disables ports by induction over its turns, the 26 calls after it call by call.
`SleeperIsWoken` uses the slot once more: it is taken, so the component has a command
outstanding, and what the command needs, the buffers of port 130 or 201, was handed over
by a call that the script makes before the wait (`ScriptAllocates`).
Assumptions: `PortsAssumption`, that the port numbers of a component differ, as
OpenMAX numbers them in a range from `nStartPortNumber`, and `NoneAssumption`.

`DecoderInputProofs`: for every even number of values of a word, so for 2^32, a number
of two words is what `omx_to_pts` makes of `pts_to_omx` of it, and with the
conversions around them a signed PTS comes back; the argument is division with
remainder, and that the quotient of a double word is a word. `ChosenIsNotInFlight`
holds because a buffer with the decoder has `nFilledLen` above 0 until it is returned,
and a chosen one has 0 and is filled by nobody else (`BufferInv`). `CutIsLossless`
needs `BytesInv` (what was handed over of the current packet is its length less what
is left) and `FedInv` (chunks are of the packets so far, in their order), and that
`BytesOf`, a sum defined by recursion, grows by the chunk appended. `StuckForAReason` needs
who holds `buf_in_mutex` at each point, and that a sleeper has left it and the flag is
0 (`MutexInv`), and that a buffer that is not empty is with the decoder (`FullInv`). Assumptions:
`SizesAssumption`, `WordAssumption`, and `OwnersAssumption`, that the names of the mutex's
owners differ.

`MuxVideoProofs`: a packet either ends no unit, and the complete units of the stream
are as before, or it ends one, and they grow by exactly the buffer and the packet
(`NewUnit`). With that, `OnlyWholeNals` and `WrittenIffParametersKnown` are inductive
together with `ParameterInv`, that `sps` and `pps` are the latest complete set of each
kind. Custody is the equation `LiveInv` for the blocks that are live, together with
`FreedInv`, a description of what may have been freed: pieces that were copied to the
buffer, and copies of sets that have been replaced. Without the second, a double free
could not be excluded when a set is replaced. Assumption: `MaxPacketsAssumption`, a
natural number.

`NatSetInduction`: the induction theorems of the library have an operator as
parameter, which the provers cannot instantiate. The lemmas here state induction for a
*set* of numbers, from the existence of a least element in every set of natural
numbers, and so sums and concatenations that are defined by recursion can be proved
about for every length.

`PacketQueueProofs` has two more parts. `Custody` needs `OwnInv`: a thread holds a
packet only at those points of a call that have one, and a packet that has been linked
and is still in its producer's hand is the last of the list. `ListIsQueue` is shown
for `ListSpec` with `RingInv`: the pointers of the list's nodes lead to the neighbours
in `queue`, both ways, the head closing the ring; and the two cursors of the flush
point to the first node and its successor. Assumption: `NodesAssumption` of
`PacketQueueList`.

Only model-checked: the temporal properties that need fairness (`GetterServed`,
`EncodedIsWritten`, `ExitsOrStarves`, `QueuedVideoIsFed`, `SetupFinishes`,
`DoneOrFlagClearedLate`), which are out of the prover's reach. Proved are the safety halves
of what they say: where the program can stop, and for `Transcoder` and `WriterLoop` that it
runs out of work before. There is no `WorkRunsOut` for `DecoderInput`, where the work of a
turn depends on the lengths of the packets still to come, for `Startup`, whose files have
any number of packets, for `OmxCommand`, a script without a loop, and for the queue, whose
asynchronous reader may poll for ever. That the guards written out in `Stalled` and `Stuck`
are those of the actions is not a property of the code and is not listed as one; the
definitions stand next to each other.

## 5. Not modelled

- The operations of `list.h` that nobody calls.
- What libav does: the codec parameters `init_output_context` copies, the trailer,
  `av_interleaved_write_frame`, of which only the ownership of data matters here.
  `write_audio_frame` names a field `audio_stream_index` that `demux.h` does not declare, so
  its rescaling is not modelled.
- The sizes of NAL pieces: that no unit exceeds the 1 MB of the assembly buffer
  (`mux.c:230`) is an assumption on the encoder; what is checked is that the buffer never
  holds more than the pieces of one unit.
- Errors: every failing OpenMAX call and `OMX_EventError` ends the process (`OERR`).
- `encoded_video_queue` is never flushed (`main.c:159`); the process ends right after.
- Code that is not compiled or not called: `video.c`, the `#if 0` parts of `omx.c`,
  `omx_flush_tunnel`, `omx_free_buffers`, `query_components`, `mpeg2_codec_enabled`.

## 6. Plan

Order of work, the most important behaviour first:

1. done: `PacketFifo`, `PacketQueue`, `WriterLoop`, `Transcoder`, `OmxCommand`,
   `DecoderInput`, `MuxVideo`, the runs above, the proofs about the queue and the writer.
2. done: `Startup`; `PacketQueueList`; the custody of data in `MuxVideo`; the time stamps,
   in `DecoderInput` and as theorems.
3. done: proofs of every invariant the runs check, with the guards of `KnownStalls` and
   `StuckForAReason` written out in place of ENABLED; `WorkRunsOut` and its proofs.
4. done: the demuxer's test and append as two steps everywhere, its waits in `WriterLoop`
   and `Startup`, the decoder's flag and callback in `Transcoder`, a `decode_thread` that
   may stop in `WriterLoop`, and the proofs about them.
5. Next: `WorkRunsOut` for `DecoderInput`, with the bytes still to be fed as a sum over
   the packets; `WriterLoop` as a refinement of a loop with atomic turns.
