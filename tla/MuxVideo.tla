------------------------------ MODULE MuxVideo ------------------------------
(***************************************************************************)
(* write_video_frame (mux.c): encoded packets, which carry a NAL unit or a *)
(* piece of one, are put together to NAL units; parameter sets go into the *)
(* stream's extradata, everything else to the muxer.  Only writer_thread   *)
(* runs this code.                                                         *)
(*                                                                         *)
(* A packet is a record of the type in its fifth byte and of the flag      *)
(* OMX_BUFFERFLAG_ENDOFNAL; its data is its number in the stream, and the  *)
(* contents of a buffer the sequence of the numbers copied into it (<<>>   *)
(* for a pointer that is NULL).  "slice" stands for every unit that is     *)
(* treated as one: another type, or data without a start code.  The blocks *)
(* of memory are named by what they were allocated for.                    *)
(***************************************************************************)
EXTENDS Naturals, Sequences

CONSTANT MaxPackets \* bound on the number of encoded packets

ASSUME MaxPacketsAssumption == MaxPackets \in Nat

SPS == "sps"
PPS == "pps"
Packets == [type : {SPS, PPS, "slice"}, end_of_nal : BOOLEAN]

VARIABLES
  stream,    \* packets taken from encoded_video_queue so far
  sps, pps,  \* mux_state: the data of the parameter sets
  buf,       \* mux_state: pieces of the NAL unit being put together
  extradata, \* of the video stream's codec context
  calls,     \* data passed to av_interleaved_write_frame, in order
  live,      \* blocks allocated, neither freed nor passed to the muxer
  freed,     \* blocks freed, in order
  returned   \* writer_thread has cleaned up

mux_state == <<sps, pps, buf>>
heap      == <<live, freed>>
vars      == <<stream, mux_state, extradata, calls, heap, returned>>

Init ==
  /\ stream = <<>> /\ sps = <<>> /\ pps = <<>> /\ buf = <<>>
  /\ extradata = <<>> /\ calls = <<>>
  /\ live = {} /\ freed = <<>> /\ returned = FALSE

-----------------------------------------------------------------------------
\* The blocks: the data of packet k; the assembly buffer allocated for it; the
\* copy of a parameter set.
Data(k) == <<"data", k>>
Buf(k) == <<"buf", k>>
Copy(data) == <<"copy", data>>

\* The copy a pointer to a parameter set refers to, as a sequence of at most one block.
CopyOf(set) == IF set = <<>> THEN <<>> ELSE <<Copy(set)>>

\* Where the data of a unit is: in its packet, or in the assembly buffer.
BlockOf(data) == IF Len(data) = 1 THEN Data(data[1]) ELSE Buf(data[1])

\* The number a packet gets when it is taken from the queue.
n == Len(stream) + 1

TypeOf(data) == stream'[data[1]].type
IsParameterSet(data) == TypeOf(data) \in {SPS, PPS}

\* Mutant: one parameter set is enough.
Mut_flush_framebuf == sps # <<>> \/ pps # <<>>

\* Computed before the packet is looked at.
flush_framebuf == sps # <<>> /\ pps # <<>>

\* Mutant: the old data is kept.
Mut_init_stream_extra_data ==
  extradata' = IF sps' # <<>> /\ pps' # <<>> /\ extradata = <<>>
               THEN sps' \o pps' ELSE extradata

\* init_stream_extra_data: both sets one after the other; nothing as long as one
\* of them is missing.
init_stream_extra_data ==
  extradata' = IF sps' # <<>> /\ pps' # <<>> THEN sps' \o pps' ELSE <<>>

\* extract_pps_ssp_packet keeps a copy of a parameter set.
extract_pps_ssp_packet(data) ==
  IF IsParameterSet(data)
  THEN /\ sps' = IF TypeOf(data) = SPS THEN data ELSE sps
       /\ pps' = IF TypeOf(data) = PPS THEN data ELSE pps
       /\ init_stream_extra_data
  ELSE UNCHANGED <<sps, pps, extradata>>

\* Mutant: the old copy is not freed.
Mut_OldCopy(data) == <<>>

\* The old copy, which is freed.
OldCopy(data) ==
  CASE TypeOf(data) = SPS -> CopyOf(sps)
    [] TypeOf(data) = PPS -> CopyOf(pps)
    [] OTHER -> <<>>

\* A piece without the end of the NAL is copied into buf, which is allocated for the
\* first one, and freed.  The zero-initialised pkt is passed on all the same.
write_partial(p) ==
  /\ ~p.end_of_nal
  /\ stream' = Append(stream, p)
  /\ buf' = Append(buf, n)
  /\ calls' = IF flush_framebuf THEN Append(calls, <<>>) ELSE calls
  /\ live' = IF buf = <<>> THEN live \cup {Buf(n)} ELSE live
  /\ freed' = Append(freed, Data(n))
  /\ UNCHANGED <<sps, pps, extradata, returned>>

\* The end of a NAL: the buffered pieces and this packet, or this packet alone,
\* are written, unless it is a parameter set or one of the sets is missing.  What is
\* written belongs to the muxer, which calls avpacket_destruct.
EndOfNal(p, left_over) ==
  LET data    == Append(buf, n)
      written == flush_framebuf /\ ~IsParameterSet(data)
      old     == OldCopy(data)
  IN  /\ p.end_of_nal
      /\ stream' = Append(stream, p)
      /\ buf' = left_over
      /\ extract_pps_ssp_packet(data)
      /\ calls' = IF written THEN Append(calls, data) ELSE calls
      /\ live' = ((live \cup {Data(n)})
                    \cup (IF IsParameterSet(data) THEN {Copy(data)} ELSE {}))
                 \ ({old[k] : k \in 1..Len(old)}
                      \cup (IF written THEN {BlockOf(data)} ELSE {}))
      /\ freed' = freed \o old
      /\ UNCHANGED returned

\* Mutant: buf_offset is not reset.
Mut_write_end(p) == EndOfNal(p, buf)

write_end(p) == EndOfNal(p, <<>>)

write_video_frame(p) == write_partial(p) \/ write_end(p)

\* writer_thread frees the two sets before it returns; buf stays.
writer_cleanup ==
  /\ returned' = TRUE
  /\ freed' = freed \o CopyOf(pps) \o CopyOf(sps)
  /\ live' = live \ {Copy(pps), Copy(sps)}
  /\ UNCHANGED <<stream, mux_state, extradata, calls>>

Next ==
  /\ ~returned
  /\ \/ Len(stream) < MaxPackets /\ \E p \in Packets : write_video_frame(p)
     \/ writer_cleanup

Spec == Init /\ [][Next]_vars

-----------------------------------------------------------------------------
(* Properties *)

Numbers == 1..MaxPackets

TypeOK ==
  /\ stream \in Seq(Packets)
  /\ {sps, pps, buf, extradata} \subseteq Seq(Numbers)
  /\ calls \in Seq(Seq(Numbers))
  /\ live \subseteq {Data(k) : k \in Numbers} \cup {Buf(k) : k \in Numbers}
                      \cup {Copy(sps), Copy(pps)}
  /\ returned \in BOOLEAN

\* Packets a to b as contents of a buffer.
Range(a, b) == [k \in 1..(b + 1 - a) |-> a + k - 1]

EndsNal(k) == k = 0 \/ stream[k].end_of_nal

\* Packets a to b are a complete NAL unit: the last of them and no other has the
\* end-of-NAL flag, and so has the one before.
IsNal(a, b) ==
  a <= b /\ EndsNal(a - 1) /\ EndsNal(b) /\ \A k \in a..(b - 1) : ~EndsNal(k)

\* The complete NAL units of the stream.
Nals ==
  LET Bounds == {x \in (1..Len(stream)) \X (1..Len(stream)) : IsNal(x[1], x[2])}
  IN  {Range(x[1], x[2]) : x \in Bounds}

KindOf(nal) == stream[nal[1]].type

\* What reaches the muxer is whole NAL units in the order of the stream, however
\* the encoder cut them (empty calls are the subject of NoEmptyWrite).  The assembly
\* buffer holds the pieces of the open unit and nothing else: its 1 MB, which nothing
\* checks, is exceeded only by a single unit of that size.
OnlyWholeNals ==
  /\ \A i \in 1..Len(calls) : calls[i] = <<>> \/ calls[i] \in Nals
  /\ \A i, j \in 1..Len(calls) :
       i < j /\ calls[i] # <<>> /\ calls[j] # <<>> => calls[i][1] < calls[j][1]
  /\ \E a \in 0..Len(stream) :
       EndsNal(a) /\ buf = Range(a + 1, Len(stream))
                  /\ \A k \in (a + 1)..Len(stream) : ~EndsNal(k)

\* A unit is written exactly if it is no parameter set and both kinds of set were
\* complete before its last piece arrived: the first picture waits for both, nothing
\* after it is withheld, and no set is passed on.
WrittenIffParametersKnown ==
  \A nal \in Nals :
    (\E i \in 1..Len(calls) : calls[i] = nal) <=>
      /\ KindOf(nal) = "slice"
      /\ \A t \in {SPS, PPS} : \E set \in Nals : set[1] < nal[1] /\ KindOf(set) = t

\* The extradata is made of the latest SPS and the latest PPS, also after the
\* encoder has repeated or changed one of them.
ExtradataIsLatest ==
  LET Latest(t) ==
        {nal \in Nals : KindOf(nal) = t /\ \A s \in Nals : KindOf(s) = t => s[1] <= nal[1]}
  IN  \A x \in Latest(SPS), y \in Latest(PPS) : extradata = x \o y

\* Ownership of data in write_video_frame: nothing is freed twice, nothing that
\* mux_state still points to or that the muxer was given is freed.  What is neither
\* freed, given away nor held is lost, and that is exactly the data of the units that
\* are not written and the last piece of a unit that was put together.
DataCustody ==
  LET Freed  == {freed[k] : k \in 1..Len(freed)}
      Muxed  == {BlockOf(calls[k]) : k \in {j \in 1..Len(calls) : calls[j] # <<>>}}
      Held   == (IF buf = <<>> THEN {} ELSE {Buf(buf[1])})
                  \cup (IF returned THEN {} ELSE {Copy(s) : s \in {sps, pps} \ {<<>>}})
      Joined == {nal \in Nals : Len(nal) > 1}
  IN  /\ \A j, k \in 1..Len(freed) : freed[j] = freed[k] => j = k
      /\ Freed \cap (Muxed \cup Held) = {} /\ Muxed \cap Held = {}
      /\ live = Held \cup (({BlockOf(nal) : nal \in Nals} \ Muxed)
                             \cup {Data(nal[Len(nal)]) : nal \in Joined})

\* mux.c: "We don't have full NAL - buffer until we do": a call to the muxer
\* carries data.
NoEmptyWrite == \A i \in 1..Len(calls) : calls[i] # <<>>
=============================================================================
