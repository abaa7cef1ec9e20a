------------------------- MODULE DecoderInputProofs -------------------------
(***************************************************************************)
(* Proofs about OmxTicks and DecoderInput, for any width of a word, any    *)
(* number and size of input buffers and any packets.                       *)
(***************************************************************************)
EXTENDS DecoderInput, NatSetInduction

-----------------------------------------------------------------------------
(* Time stamps survive the way through OMX_TICKS, whatever the width of a word. *)

\* Division with remainder.
LEMMA Division ==
  ASSUME NEW a \in Int, NEW b \in Int, b > 0
  PROVE  a = b * (a \div b) + (a % b)
  BY Z3

LEMMA DivisionType ==
  ASSUME NEW a \in Int, NEW b \in Int, b > 0
  PROVE  a \div b \in Int /\ a % b \in 0..(b - 1)
  BY SMT

LEMMA SmallRemainder ==
  ASSUME NEW a \in Int, NEW b \in Int, 0 <= a, a < b
  PROVE  a % b = a
  BY SMT

LEMMA EvenHalf ==
  ASSUME NEW a \in Int, a % 2 = 0
  PROVE  \E k \in Int : a = 2 * k
<1>1. a = 2 * (a \div 2) /\ a \div 2 \in Int
  BY SMT
<1>. QED
  BY <1>1

\* The quotient of a double word is a word.
LEMMA HighWord ==
  ASSUME NEW pts \in UInt64
  PROVE  pts \div Word \in Nat /\ pts \div Word < Word
<1>1. Word \in Nat /\ Word > 0 /\ pts \in Nat /\ pts < Word * Word
  BY WordAssumption DEF UInt64
<1>2. pts = Word * (pts \div Word) + (pts % Word) /\ pts \div Word \in Int /\ pts % Word \in 0..(Word - 1)
  BY <1>1, Division, DivisionType
<1>. DEFINE q == pts \div Word
            r == pts % Word
<1>3. q \in Int /\ r \in Nat /\ Word * q + r < Word * Word /\ Word * q + r >= 0 /\ r < Word
  BY <1>1, <1>2
<1>. HIDE DEF q, r
<1>4. q >= 0
  <2>1. SUFFICES ASSUME q <= -1 PROVE FALSE
    BY <1>3
  <2>2. Word * q <= -Word
    BY <1>1, <1>3, <2>1, SMT
  <2>. QED
    BY <1>1, <1>3, <2>2, SMT
<1>5. q < Word
  <2>1. SUFFICES ASSUME q >= Word PROVE FALSE
    BY <1>1, <1>3
  <2>2. Word * q >= Word * Word
    BY <1>1, <1>3, <2>1, SMT
  <2>. QED
    BY <1>1, <1>3, <2>2, SMT
<1>. QED
  BY <1>3, <1>4, <1>5 DEF q

\* pts_to_omx splits a number into two words, and omx_to_pts joins them again without
\* loss.
THEOREM WordsRoundTrip ==
  ASSUME NEW pts \in UInt64
  PROVE  omx_to_pts(pts_to_omx(pts)) = pts
<1>1. Word \in Nat /\ Word > 0 /\ pts \in Nat
  BY WordAssumption DEF UInt64
<1>2. (pts \div Word) % Word = pts \div Word
  BY <1>1, HighWord, SmallRemainder
<1>3. (pts \div Word) * Word + (pts % Word) = pts
  BY <1>1, Division, DivisionType
<1>. QED
  BY <1>2, <1>3 DEF omx_to_pts, pts_to_omx

\* A packet's signed PTS is the PTS that comes out again, a negative one too: the
\* conversions to and from an unsigned number, of which the code makes none explicit,
\* cancel out.
THEOREM PtsRoundTrip ==
  ASSUME NEW pts \in Int64
  PROVE  ToSigned(omx_to_pts(pts_to_omx(ToUnsigned(pts)))) = pts
<1>. DEFINE half == (Word * Word) \div 2
<1>1. Word * Word \in Nat /\ half \in Nat /\ Word * Word = 2 * half
  <2>1. PICK k \in Int : Word = 2 * k
    <3>1. Word \in Int /\ Word % 2 = 0
      BY WordAssumption
    <3>. QED
      BY <3>1, EvenHalf
  <2>2. Word * Word = 2 * (2 * (k * k)) /\ k * k \in Int /\ k * k >= 0
    BY <2>1, SMT
  <2>. QED
    BY <2>2, SMT
<1>. HIDE DEF half
<1>2. pts \in Int /\ -half <= pts /\ pts < half
  BY <1>1 DEF Int64, half
<1>3. ToUnsigned(pts) \in UInt64
  BY <1>1, <1>2 DEF ToUnsigned, UInt64
<1>4. omx_to_pts(pts_to_omx(ToUnsigned(pts))) = ToUnsigned(pts)
  BY <1>3, WordsRoundTrip
<1>5. ToSigned(ToUnsigned(pts)) = pts
  BY <1>1, <1>2 DEF ToUnsigned, ToSigned, half
<1>. QED
  BY <1>4, <1>5
-----------------------------------------------------------------------------
(* The inductive invariant of DecoderInput. *)

Chunks ==
  [packet : 1..Len(Packets), length : Nat, nTimeStamp : [nLowPart : Int, nHighPart : Int],
   nFlags : SUBSET {"STARTTIME", "TIME_UNKNOWN", "SYNCFRAME", "ENDOFFRAME"}]
    \cup [packet : {EOS}, length : {0}, nFlags : {{"TIME_UNKNOWN", "EOS"}}]

\* From the choice of a packet until a piece of it is handed over.
Feeding == {"count", "lock", "scan", "none", "wait", "unlock", "fill"}

\* Which packet decode_thread is at, and whether something of it is left.
PacketInv ==
  /\ pc # "next_packet" => current # 0
  /\ pc \in {"next_packet", "test_bytes", "count"} => current # EOS
  /\ pc = "next_packet" => bytes_left = 0
  /\ pc \in Feeding /\ current # EOS => bytes_left > 0
  /\ pc = "done" => current = EOS

\* The chosen buffer is empty; until EOS is sent the buffers of the decoder are
\* filled, so they are others, and no two of them the same.
BufferInv ==
  /\ pc \in {"scan", "unlock", "fill"} => scan # 0
  /\ pc \in {"unlock", "fill"} => nFilledLen[scan] = 0
  /\ pc # "done" =>
       /\ \A k \in 1..Len(with_decoder) : nFilledLen[with_decoder[k]] > 0
       /\ \A j, k \in 1..Len(with_decoder) : with_decoder[j] = with_decoder[k] => j = k

\* Chunks are of the packets so far, in their order.
FedInv ==
  /\ fed \in Seq(Chunks)
  /\ \A k \in 1..Len(fed) : fed[k].packet <= current
  /\ \A j, k \in 1..Len(fed) : j < k => fed[j].packet <= fed[k].packet
  /\ pc # "done" => /\ \A k \in 1..Len(fed) : fed[k].packet # EOS
                    /\ first_packet <=> fed = <<>>

\* Of the current packet all but bytes_left has been handed over.
BytesInv ==
  \A p \in 1..Len(Packets) :
    BytesOf(p) = IF p < current THEN Packets[p].length
                 ELSE IF p = current THEN Packets[p].length - bytes_left
                 ELSE 0

\* What CutIsLossless says of chunk k.
Last(k) == k = Len(fed) \/ fed[k + 1].packet # fed[k].packet

Marked(k) ==
  /\ "STARTTIME" \in fed[k].nFlags => k = 1
  /\ "EOS" \in fed[k].nFlags <=> fed[k].packet = EOS
  /\ fed[k].packet = EOS => k = Len(fed)
  /\ fed[k].packet # EOS =>
       /\ fed[k].nTimeStamp = pts_to_omx(ToUnsigned(Packets[fed[k].packet].PTS))
       /\ k = 1 => "STARTTIME" \in fed[k].nFlags
       /\ "ENDOFFRAME" \in fed[k].nFlags <=>
            Last(k) /\ BytesOf(fed[k].packet) = Packets[fed[k].packet].length

MarksInv == \A k \in 1..Len(fed) : Marked(k)

IInv == TypeOK /\ PacketInv /\ BufferInv /\ FedInv /\ BytesInv /\ MarksInv
-----------------------------------------------------------------------------
(* What BytesOf computes. *)

\* How much of packet p is in chunk k.
Parts(s, p) == [k \in 1..Len(s) |-> IF s[k].packet = p THEN s[k].length ELSE 0]

\* BytesOf of any sequence of chunks.
TotalOf(s, p) ==
  LET sum[n \in 0..Len(s)] ==
        IF n = 0 THEN 0
        ELSE sum[n - 1] + (IF s[n].packet = p THEN s[n].length ELSE 0)
  IN  sum[Len(s)]

LEMMA BytesOfIsTotal == \A p : BytesOf(p) = TotalOf(fed, p) /\ BytesOf(p)' = TotalOf(fed', p)
  BY DEF BytesOf, TotalOf

\* The recursion has a solution, and it is the sum.
LEMMA TotalIsSum ==
  ASSUME NEW s, Len(s) \in Nat, NEW p, Parts(s, p) \in [1..Len(s) -> Nat]
  PROVE  \E f \in [0..Len(s) -> Nat] :
           IsSum(f, Parts(s, p), Len(s)) /\ TotalOf(s, p) = f[Len(s)]
<1> DEFINE m == Len(s)
           w == Parts(s, p)
           d(k) == IF s[k].packet = p THEN s[k].length ELSE 0
           sum == CHOOSE sum : sum = [n \in 0..m |-> IF n = 0 THEN 0 ELSE sum[n - 1] + d(n)]
<1>1. \A n \in 1..m : w[n] = d(n)
  BY DEF Parts
<1>2. TotalOf(s, p) = sum[m]
  BY DEF TotalOf
<1> HIDE DEF d, w
<1>3. PICK f \in [0..m -> Nat] : IsSum(f, w, m)
  BY SumsExist DEF w
<1> HIDE DEF m
<1>4. m \in Nat
  BY DEF m
<1>5. f = [n \in 0..m |-> IF n = 0 THEN 0 ELSE f[n - 1] + d(n)]
  <2>1. \A n \in 0..m : f[n] = IF n = 0 THEN 0 ELSE f[n - 1] + d(n)
    <3>1. f[0] = 0 /\ \A n \in 1..m : f[n] = f[n - 1] + w[n]
      BY <1>3 DEF IsSum
    <3>2. \A n \in 1..m : f[n] = f[n - 1] + d(n)
      BY <1>1, <3>1, Zenon
    <3> QED
      BY <1>4, <3>1, <3>2
  <2> QED
    BY <2>1
<1>6. sum = [n \in 0..m |-> IF n = 0 THEN 0 ELSE sum[n - 1] + d(n)]
  BY <1>5, Zenon
<1> HIDE DEF sum
<1>7. IsSum(sum, w, m)
  BY <1>1, <1>4, <1>6 DEF IsSum
<1>8. \A k \in 0..m : sum[k] = f[k]
  BY <1>3, <1>4, <1>7, SumsAgree
<1>9. m \in 0..m
  BY <1>4
<1> QED
  BY <1>2, <1>3, <1>8, <1>9 DEF m, w

LEMMA PartsType ==
  ASSUME NEW s \in Seq(Chunks), NEW p
  PROVE  Len(s) \in Nat /\ Parts(s, p) \in [1..Len(s) -> Nat]
<1>1. \A c \in Chunks : c.length \in Nat
  BY DEF Chunks
<1>2. \A k \in 1..Len(s) : s[k] \in Chunks
  OBVIOUS
<1> QED
  BY <1>1, <1>2 DEF Parts

LEMMA TotalOfAppend ==
  ASSUME NEW s \in Seq(Chunks), NEW c \in Chunks, NEW p
  PROVE  /\ TotalOf(s, p) \in Nat
         /\ TotalOf(Append(s, c), p) = TotalOf(s, p) + IF c.packet = p THEN c.length ELSE 0
<1>1. PICK t \in Seq(Chunks) : t = Append(s, c)
  <2>1. Append(s, c) \in Seq(Chunks)
    OBVIOUS
  <2> QED
    BY <2>1
<1>2. PICK m \in Nat : m = Len(s) /\ m + 1 = Len(t)
  BY <1>1
<1>3. PICK f \in [0..m -> Nat] : IsSum(f, Parts(s, p), m) /\ TotalOf(s, p) = f[m]
  BY <1>2, PartsType, TotalIsSum
<1>4. PICK g \in [0..(m + 1) -> Nat] : IsSum(g, Parts(t, p), m + 1) /\ TotalOf(t, p) = g[m + 1]
  BY <1>2, PartsType, TotalIsSum
<1>5. \A k \in 1..m : Parts(t, p)[k] = Parts(s, p)[k]
  BY <1>1, <1>2 DEF Parts
<1>6. Parts(t, p)[m + 1] = IF c.packet = p THEN c.length ELSE 0
  BY <1>1, <1>2 DEF Parts
<1>7. IsSum(g, Parts(s, p), m)
  BY <1>4, <1>5 DEF IsSum
<1>8. f[m] = g[m]
  <2>1. IsSum(f, Parts(s, p), m)
    BY <1>3
  <2>2. \A k \in 0..m : f[k] = g[k]
    BY <1>7, <2>1, SumsAgree
  <2> QED
    BY <2>2
<1>9. g[m + 1] = g[m] + Parts(t, p)[m + 1]
  BY <1>4 DEF IsSum
<1> QED
  BY <1>1, <1>3, <1>4, <1>6, <1>8, <1>9
-----------------------------------------------------------------------------
(* The decoder's input: one lemma per part of the invariant. *)

USE SizesAssumption

LEMMA EosType == EOS \in Nat /\ Len(Packets) \in Nat /\ EOS = Len(Packets) + 1
  BY DEF EOS

LEMMA PacketType ==
  ASSUME NEW p \in 1..Len(Packets)
  PROVE  /\ Packets[p].length \in Nat /\ Packets[p].key \in BOOLEAN
         /\ Packets[p].PTS \in Int64
<1> DEFINE R == [length : Nat, key : BOOLEAN, PTS : Int64]
<1> HIDE DEF R
<1>1. Packets \in Seq(R)
  BY DEF R
<1>2. Packets[p] \in R
  BY <1>1
<1> QED
  BY <1>2 DEF R

LEMMA SmallerType ==
  ASSUME NEW a \in Nat, NEW b \in Nat
  PROVE  /\ Smaller(a, b) \in Nat /\ Smaller(a, b) <= a /\ Smaller(a, b) <= b
         /\ a > 0 /\ b > 0 => Smaller(a, b) > 0
  BY DEF Smaller

LEMMA InitIInv == Init => IInv
<1> SUFFICES ASSUME Init PROVE IInv
  OBVIOUS
<1>1. TypeOK
  <2>1. nFilledLen \in [Buffers -> 0..AllocLen]
    BY DEF Init
  <2>2. with_decoder \in Seq(Buffers)
    BY DEF Init
  <2>3. current \in 0..EOS /\ scan \in 0..NBuffers
    BY EosType DEF Init
  <2> QED
    BY <2>1, <2>2, <2>3 DEF Init, TypeOK
<1>2. PacketInv /\ BufferInv
  BY EosType DEF Init, PacketInv, BufferInv, Feeding
<1>3. FedInv
  BY DEF Init, FedInv
<1>4. MarksInv
  BY DEF Init, MarksInv
<1>5. BytesInv
  <2>1. fed = <<>> /\ current = 0
    BY DEF Init
  <2> SUFFICES ASSUME NEW p \in 1..Len(Packets) PROVE BytesOf(p) = 0
    BY <2>1, EosType DEF BytesInv
  <2>2. Parts(<<>>, p) \in [1..Len(<<>>) -> Nat] /\ Len(<<>>) = 0
    BY DEF Parts
  <2>3. TotalOf(<<>>, p) = 0
    BY <2>2, TotalIsSum DEF IsSum
  <2> QED
    BY <2>1, <2>3, BytesOfIsTotal
<1> QED
  BY <1>1, <1>2, <1>3, <1>4, <1>5 DEF IInv

\* Nothing is handed over.
LEMMA KeepFed_quiet ==
  ASSUME FedInv, BytesInv, MarksInv, UNCHANGED <<current, bytes_left, first_packet, fed>>,
         pc = "done" => pc' = "done"
  PROVE  FedInv' /\ BytesInv' /\ MarksInv'
<1>1. FedInv'
  BY DEF FedInv
<1>2. \A p : BytesOf(p)' = BytesOf(p)
  BY BytesOfIsTotal
<1>3. BytesInv'
  BY <1>2 DEF BytesInv
<1>4. \A k : Marked(k)' = Marked(k)
  BY <1>2 DEF Marked, Last
<1> QED
  BY <1>1, <1>3, <1>4 DEF MarksInv

\* The steps that leave the packet, the list of chunks and the decoder's buffers alone.
Searching ==
  \/ test_bytes \/ omx_get_free_buffer_count \/ get_buffer_lock \/ get_buffer_scan
  \/ get_buffer_none \/ get_buffer_wait \/ get_buffer_wake \/ get_buffer_unlock
  \/ SpuriousWakeup
  \/ empty_buffer_done_test \/ empty_buffer_done_set \/ empty_buffer_done_unlock

LEMMA Keep_Searching ==
  ASSUME IInv, Searching
  PROVE  IInv'
<1> USE EosType DEF Searching, packet, thread, shared, notBuf
<1>1. UNCHANGED <<current, bytes_left, first_packet, fed, nFilledLen, with_decoder>>
  BY DEF test_bytes, omx_get_free_buffer_count, get_buffer_lock, get_buffer_scan, Scan,
     get_buffer_none, get_buffer_wait, get_buffer_wake, get_buffer_unlock, SpuriousWakeup,
     empty_buffer_done_test, empty_buffer_done_set, SetNotEmpty, empty_buffer_done_unlock
<1>2. CASE test_bytes
  <2>1. TypeOK' /\ PacketInv' /\ BufferInv' /\ pc # "done"
    BY <1>1, <1>2 DEF test_bytes, IInv, TypeOK, PacketInv, BufferInv, Feeding
  <2> QED
    BY <1>1, <2>1, KeepFed_quiet DEF IInv
<1>3. CASE omx_get_free_buffer_count \/ get_buffer_lock
  <2>1. TypeOK' /\ PacketInv' /\ BufferInv' /\ pc # "done"
    BY <1>1, <1>3
       DEF omx_get_free_buffer_count, get_buffer_lock, IInv, TypeOK, PacketInv, BufferInv, Feeding
  <2> QED
    BY <1>1, <2>1, KeepFed_quiet DEF IInv
<1>4. CASE get_buffer_scan
  <2>1. /\ pc = "scan" /\ scan \in 1..NBuffers /\ pc' \in {"unlock", "none", "scan"}
        /\ scan' \in 0..NBuffers
        /\ pc' = "unlock" => scan' = scan /\ nFilledLen[scan] = 0
        /\ pc' = "scan" => scan' # 0
        /\ UNCHANGED <<asleep, packet, shared, notBuf>>
    BY <1>4 DEF get_buffer_scan, Scan, IInv, TypeOK, BufferInv
  <2>2. TypeOK'
    BY <2>1 DEF IInv, TypeOK
  <2>3. PacketInv'
    BY <2>1 DEF IInv, PacketInv, Feeding
  <2>4. BufferInv'
    BY <2>1 DEF IInv, BufferInv
  <2> QED
    BY <1>1, <2>1, <2>2, <2>3, <2>4, KeepFed_quiet DEF IInv
<1>5. CASE get_buffer_none \/ get_buffer_wait \/ get_buffer_wake \/ get_buffer_unlock
  <2>1. TypeOK' /\ PacketInv' /\ BufferInv' /\ pc # "done"
    BY <1>1, <1>5 DEF get_buffer_none, get_buffer_wait, get_buffer_wake, get_buffer_unlock, IInv,
       TypeOK, PacketInv, BufferInv, Feeding
  <2> QED
    BY <1>1, <2>1, KeepFed_quiet DEF IInv
<1>6. CASE \/ SpuriousWakeup \/ empty_buffer_done_test \/ empty_buffer_done_set
           \/ empty_buffer_done_unlock
  <2>1. UNCHANGED <<pc, scan>>
    BY <1>6 DEF SpuriousWakeup, empty_buffer_done_test, empty_buffer_done_set, SetNotEmpty,
       empty_buffer_done_unlock
  <2>2. TypeOK'
    BY <1>1, <1>6, <2>1 DEF SpuriousWakeup, empty_buffer_done_test, empty_buffer_done_set,
       SetNotEmpty, empty_buffer_done_unlock, IInv, TypeOK
  <2>3. PacketInv' /\ BufferInv'
    BY <1>1, <2>1 DEF IInv, PacketInv, BufferInv, Feeding
  <2> QED
    BY <1>1, <2>1, <2>2, <2>3, KeepFed_quiet DEF IInv
<1> QED
  BY <1>2, <1>3, <1>4, <1>5, <1>6

\* The decoder gives the oldest buffer back: the others are different ones.
LEMMA Keep_decoder_empties ==
  ASSUME IInv, decoder_empties
  PROVE  IInv'
<1>0. PICK b \in Buffers : b = Head(with_decoder)
  BY DEF decoder_empties, IInv, TypeOK
<1>1. /\ with_decoder # <<>> /\ with_decoder \in Seq(Buffers) /\ b = with_decoder[1]
      /\ with_decoder' = Tail(with_decoder) /\ nFilledLen' = [nFilledLen EXCEPT ![b] = 0]
      /\ callback' = "test" /\ UNCHANGED <<thread, buf_in_notempty, buf_in_mutex, fed>>
  BY <1>0 DEF decoder_empties, IInv, TypeOK
<1>2. TypeOK' /\ PacketInv'
  BY <1>1 DEF IInv, TypeOK, PacketInv, thread, packet, Feeding
<1>3. BufferInv'
  <2>1. PICK l \in Nat : l = Len(with_decoder) - 1 /\ Len(with_decoder') = l
    <3>1. Len(with_decoder) - 1 \in Nat /\ Len(with_decoder') = Len(with_decoder) - 1
      BY <1>1
    <3> QED
      BY <3>1
  <2>2. \A k \in 1..l : with_decoder'[k] = with_decoder[k + 1] /\ with_decoder'[k] \in Buffers
                          /\ k + 1 \in 1..Len(with_decoder)
    BY <1>1, <2>1
  <2>3. /\ pc' \in {"scan", "unlock", "fill"} => scan' # 0
        /\ pc' \in {"unlock", "fill"} => nFilledLen'[scan'] = 0
    BY <1>1 DEF IInv, TypeOK, BufferInv, thread, Buffers
  <2>4. ASSUME pc # "done", NEW k \in 1..l PROVE nFilledLen'[with_decoder'[k]] > 0
    <3>1. with_decoder[k + 1] # b
      BY <1>1, <2>1, <2>2, <2>4 DEF IInv, BufferInv
    <3> QED
      BY <1>1, <2>2, <2>4, <3>1 DEF IInv, BufferInv, TypeOK
  <2>5. ASSUME pc # "done", NEW j \in 1..l, NEW k \in 1..l, with_decoder'[j] = with_decoder'[k]
        PROVE  j = k
    BY <2>2, <2>5 DEF IInv, BufferInv
  <2> QED
    BY <1>1, <2>1, <2>3, <2>4, <2>5 DEF BufferInv, thread
<1> QED
  BY <1>1, <1>2, <1>3, KeepFed_quiet DEF IInv, thread, packet

\* The packet left behind has been handed over, the next one not at all.
LEMMA Keep_next_packet ==
  ASSUME IInv, next_packet
  PROVE  IInv'
<1> USE EosType
<1>1. /\ pc = "next_packet" /\ current < EOS /\ current' = current + 1
      /\ bytes_left' = IF current' = EOS THEN 0 ELSE Packets[current'].length
      /\ pc' = IF current' = EOS THEN "lock" ELSE "test_bytes"
      /\ UNCHANGED <<scan, asleep, first_packet, shared, notBuf>>
      /\ current \in Nat /\ bytes_left = 0
  BY DEF next_packet, IInv, TypeOK, PacketInv
<1>2. current' # EOS => current' \in 1..Len(Packets)
  BY <1>1
<1>3. bytes_left' \in Nat
  BY <1>1, <1>2, PacketType
<1>4. TypeOK' /\ PacketInv' /\ BufferInv'
  BY <1>1, <1>2, <1>3
     DEF IInv, TypeOK, PacketInv, BufferInv, shared, notBuf, Feeding
<1>5. FedInv'
  <2>1. \A k \in 1..Len(fed) : fed[k].packet \in Nat
    BY DEF IInv, FedInv, Chunks
  <2> QED
    BY <1>1, <2>1 DEF IInv, FedInv, notBuf
<1>6. \A p : BytesOf(p)' = BytesOf(p)
  BY <1>1, BytesOfIsTotal DEF notBuf
<1>7. BytesInv'
  <2> SUFFICES ASSUME NEW p \in 1..Len(Packets)
               PROVE  BytesOf(p)' = IF p < current' THEN Packets[p].length
                                    ELSE IF p = current' THEN Packets[p].length - bytes_left'
                                    ELSE 0
    BY DEF BytesInv
  <2>1. Packets[p].length \in Nat
    BY PacketType
  <2> QED
    BY <1>1, <1>6, <2>1 DEF IInv, BytesInv
<1>8. MarksInv'
  <2>1. \A k : Marked(k)' = Marked(k)
    BY <1>1, <1>6 DEF Marked, Last, notBuf
  <2> QED
    BY <1>1, <2>1 DEF IInv, MarksInv, notBuf
<1> QED
  BY <1>4, <1>5, <1>7, <1>8 DEF IInv
-----------------------------------------------------------------------------
(* Handing a buffer over. *)

\* What fill_buffer and fill_eos have in common: the buffer is empty, so it is not
\* with the decoder, and it is filled unless this is EOS.
LEMMA Keep_BufferInv ==
  ASSUME IInv, NEW length \in 0..AllocLen, NEW chunk, HandOver(length, chunk),
         pc' \in {"test_bytes", "done"}, length = 0 => pc' = "done"
  PROVE  BufferInv' /\ nFilledLen' \in [Buffers -> 0..AllocLen] /\ with_decoder' \in Seq(Buffers)
<1>1. /\ pc = "fill" /\ scan \in Buffers /\ scan' = scan /\ with_decoder \in Seq(Buffers)
      /\ nFilledLen' = [nFilledLen EXCEPT ![scan] = length] /\ nFilledLen[scan] = 0
      /\ with_decoder' = Append(with_decoder, scan)
      /\ nFilledLen \in [Buffers -> 0..AllocLen]
  BY DEF HandOver, IInv, TypeOK, BufferInv, Buffers
<1>2. \A k \in 1..Len(with_decoder) : with_decoder[k] # scan /\ with_decoder[k] \in Buffers
  BY <1>1 DEF IInv, BufferInv
<1>3. nFilledLen' \in [Buffers -> 0..AllocLen] /\ with_decoder' \in Seq(Buffers)
  BY <1>1
<1>4. PICK l \in Nat : l = Len(with_decoder) /\ Len(with_decoder') = l + 1
  BY <1>1
<1>5. /\ \A k \in 1..l : with_decoder'[k] = with_decoder[k]
      /\ with_decoder'[l + 1] = scan
  BY <1>1, <1>4
<1>6. pc' # "done" => \A k \in 1..(l + 1) : nFilledLen'[with_decoder'[k]] > 0
  <2> SUFFICES ASSUME pc' # "done", NEW k \in 1..(l + 1)
               PROVE  nFilledLen'[with_decoder'[k]] > 0
    OBVIOUS
  <2>1. k \in 1..l \/ k = l + 1
    BY <1>4
  <2>2. CASE k \in 1..l
    BY <1>1, <1>2, <1>4, <1>5, <2>2 DEF IInv, BufferInv
  <2>3. CASE k = l + 1
    <3>1. nFilledLen'[scan] = length /\ length > 0
      BY <1>1
    <3> QED
      BY <1>5, <2>3, <3>1
  <2> QED
    BY <2>1, <2>2, <2>3
<1>7. pc' # "done" => \A j, k \in 1..(l + 1) : with_decoder'[j] = with_decoder'[k] => j = k
  <2>1. \A j, k \in 1..l : with_decoder[j] = with_decoder[k] => j = k
    BY <1>1, <1>4 DEF IInv, BufferInv
  <2> QED
    BY <1>2, <1>4, <1>5, <2>1
<1> QED
  BY <1>3, <1>4, <1>6, <1>7 DEF BufferInv

\* A chunk is appended: of the current packet, or EOS.
LEMMA Keep_FedInv ==
  ASSUME IInv, NEW chunk \in Chunks, fed' = Append(fed, chunk), chunk.packet = current,
         pc = "fill", UNCHANGED current,
         \/ chunk.packet # EOS /\ ~first_packet'
         \/ pc' = "done"
  PROVE  FedInv'
<1>1. PICK l \in Nat : l = Len(fed) /\ Len(fed') = l + 1
  <2>1. Len(fed) \in Nat /\ Len(fed') = Len(fed) + 1
    BY DEF IInv, FedInv
  <2> QED
    BY <2>1
<1>2. \A k \in 1..l : fed'[k] = fed[k] /\ fed[k].packet \in Nat
  BY <1>1 DEF IInv, FedInv, Chunks
<1>3. fed'[l + 1] = chunk /\ chunk.packet \in Nat
  BY <1>1, EosType DEF IInv, FedInv, TypeOK
<1>4. fed' \in Seq(Chunks) /\ fed' # <<>>
  BY DEF IInv, FedInv
<1>5. \A k \in 1..(l + 1) : fed'[k].packet <= current'
  BY <1>1, <1>2, <1>3 DEF IInv, FedInv
<1>6. \A j, k \in 1..(l + 1) : j < k => fed'[j].packet <= fed'[k].packet
  BY <1>1, <1>2, <1>3 DEF IInv, FedInv
<1>7. pc' # "done" => /\ \A k \in 1..(l + 1) : fed'[k].packet # EOS
                      /\ first_packet' <=> fed' = <<>>
  BY <1>1, <1>2, <1>3, <1>4 DEF IInv, FedInv
<1> QED
  BY <1>1, <1>4, <1>5, <1>6, <1>7 DEF FedInv

\* ENDOFFRAME: the chunks before are of other packets or of one with bytes left; of the
\* new one the caller says what it knows.
LEMMA Keep_MarksInv ==
  ASSUME IInv, NEW chunk \in Chunks, fed' = Append(fed, chunk), chunk.packet = current,
         pc = "fill", UNCHANGED current,
         current # EOS => BytesOf(current) # Packets[current].length,
         "STARTTIME" \in chunk.nFlags => fed = <<>>,
         "EOS" \in chunk.nFlags <=> current = EOS,
         current # EOS =>
           /\ chunk.nTimeStamp = pts_to_omx(ToUnsigned(Packets[current].PTS))
           /\ fed = <<>> => "STARTTIME" \in chunk.nFlags
           /\ "ENDOFFRAME" \in chunk.nFlags <=> BytesOf(current)' = Packets[current].length
  PROVE  MarksInv'
<1>1. PICK l \in Nat : l = Len(fed) /\ Len(fed') = l + 1
  <2>1. Len(fed) \in Nat /\ Len(fed') = Len(fed) + 1
    BY DEF IInv, FedInv
  <2> QED
    BY <2>1
<1>2. \A k \in 1..l : fed'[k] = fed[k] /\ fed[k].packet \in Nat /\ fed[k].packet # EOS
  BY <1>1 DEF IInv, FedInv, Chunks
<1>3. fed'[l + 1] = chunk /\ fed \in Seq(Chunks) /\ (l = 0 <=> fed = <<>>)
  BY <1>1 DEF IInv, FedInv
<1>4. \A p : p # current => BytesOf(p)' = BytesOf(p)
  <2> SUFFICES ASSUME NEW p, p # current PROVE BytesOf(p)' = BytesOf(p)
    OBVIOUS
  <2>1. TotalOf(fed', p) = TotalOf(fed, p) + 0 /\ TotalOf(fed, p) \in Nat
    BY <1>3, TotalOfAppend
  <2> QED
    BY <2>1, BytesOfIsTotal
<1>5. ASSUME NEW k \in 1..l PROVE Marked(k)'
  <2>1. PICK q : q = fed[k].packet
    OBVIOUS
  <2>2. q \in Nat /\ q # EOS /\ fed'[k] = fed[k] /\ Marked(k)
    BY <1>1, <1>2, <2>1 DEF IInv, MarksInv
  <2>3. CASE q = current
    <3>1. fed'[k + 1].packet = current
      <4>1. CASE k = l
        BY <1>3, <4>1
      <4>2. CASE k # l
        <5>1. k + 1 \in 1..l /\ k < k + 1
          BY <1>1, <4>2
        <5>2. current <= fed[k + 1].packet /\ fed[k + 1].packet <= current
          BY <1>1, <2>1, <2>3, <5>1 DEF IInv, FedInv
        <5>3. fed[k + 1].packet \in Nat /\ fed'[k + 1] = fed[k + 1]
          BY <1>2, <5>1
        <5>4. current \in Nat
          BY <2>2, <2>3
        <5> QED
          BY <5>2, <5>3, <5>4
      <4> QED
        BY <4>1, <4>2
    <3>2. ~Last(k)'
      BY <1>1, <2>1, <2>2, <2>3, <3>1 DEF Last
    <3>3. "ENDOFFRAME" \notin fed[k].nFlags
      BY <2>1, <2>2, <2>3 DEF Marked
    <3> QED
      BY <2>1, <2>2, <2>3, <3>2, <3>3 DEF Marked
  <2>4. CASE q # current
    <3>1. Last(k)' <=> Last(k)
      <4>1. CASE k = l
        BY <1>1, <1>3, <2>1, <2>2, <2>4, <4>1 DEF Last
      <4>2. CASE k # l
        <5>1. k + 1 \in 1..l /\ k # l + 1
          BY <1>1, <4>2
        <5>2. fed'[k + 1] = fed[k + 1]
          BY <1>2, <5>1
        <5> QED
          BY <1>1, <2>2, <4>2, <5>1, <5>2 DEF Last
      <4> QED
        BY <4>1, <4>2
    <3>2. BytesOf(q)' = BytesOf(q)
      BY <1>4, <2>4
    <3> QED
      BY <2>1, <2>2, <3>1, <3>2 DEF Marked
  <2> QED
    BY <2>3, <2>4
<1>6. ASSUME NEW k, k = l + 1 PROVE Marked(k)'
  <2>1. Last(k)' /\ k = Len(fed') /\ (k = 1 <=> fed = <<>>) /\ fed'[k] = chunk
    BY <1>1, <1>3, <1>6 DEF Last
  <2> QED
    BY <2>1 DEF Marked
<1> QED
  <2> SUFFICES ASSUME NEW k \in 1..Len(fed') PROVE Marked(k)'
    BY DEF MarksInv
  <2>1. k \in 1..l \/ k = l + 1
    BY <1>1
  <2> QED
    BY <1>5, <1>6, <2>1

LEMMA Keep_fill_buffer ==
  ASSUME IInv, fill_buffer
  PROVE  IInv'
<1> USE EosType
<1>1. PICK c, chunk :
        /\ c \in Nat /\ c = Smaller(bytes_left, AllocLen) /\ pc = "fill" /\ current # EOS
        /\ chunk = [packet |-> current, length |-> c,
             nTimeStamp |-> pts_to_omx(ToUnsigned(Packets[current].PTS)),
             nFlags |-> {IF first_packet THEN "STARTTIME" ELSE "TIME_UNKNOWN"}
                          \cup (IF Packets[current].key THEN {"SYNCFRAME"} ELSE {})
                          \cup (IF bytes_left - c = 0 THEN {"ENDOFFRAME"} ELSE {})]
        /\ HandOver(c, chunk)
        /\ bytes_left' = bytes_left - c /\ first_packet' = FALSE /\ pc' = "test_bytes"
  <2>1. Smaller(bytes_left, AllocLen) \in Nat
    BY SmallerType DEF IInv, TypeOK
  <2> QED
    BY <2>1 DEF fill_buffer, Fill, HandOver
<1>2. /\ current \in 1..Len(Packets) /\ bytes_left \in Nat /\ bytes_left > 0
      /\ c \in 1..AllocLen /\ c <= bytes_left
  <2>1. pc = "fill" /\ current # EOS /\ c = Smaller(bytes_left, AllocLen)
    BY <1>1
  <2>2. /\ current \in 0..EOS /\ current # 0 /\ bytes_left \in Nat /\ bytes_left > 0
        /\ AllocLen \in Nat /\ AllocLen > 0
    BY <2>1 DEF IInv, TypeOK, PacketInv, Feeding
  <2>3. c > 0 /\ c <= bytes_left /\ c <= AllocLen
    BY <2>1, <2>2, SmallerType
  <2>4. c \in Nat
    BY <1>1
  <2>5. c \in 1..AllocLen
    BY <2>2, <2>3, <2>4
  <2>6. current \in 1..Len(Packets)
    BY <2>1, <2>2, EosType DEF EOS
  <2> QED
    BY <2>2, <2>3, <2>5, <2>6
<1>3. /\ UNCHANGED <<scan, asleep, current, buf_in_notempty, buf_in_mutex, callback>>
      /\ fed' = Append(fed, chunk)
  BY <1>1 DEF HandOver
<1>4. chunk \in Chunks
  <2>1. ToUnsigned(Packets[current].PTS) \in Int
    <3>1. Packets[current].PTS \in Int64
      BY <1>2, PacketType
    <3>2. Word * Word \in Int /\ (Word * Word) \div 2 \in Int
      BY WordAssumption
    <3> QED
      BY <3>1, <3>2 DEF ToUnsigned, Int64
  <2>2. ToUnsigned(Packets[current].PTS) % Word \in Int
        /\ (ToUnsigned(Packets[current].PTS) \div Word) % Word \in Int
    <3>1. Word \in Int /\ Word > 0
      BY WordAssumption
    <3> HIDE DEF ToUnsigned
    <3> QED
      BY <2>1, <3>1, DivisionType
  <2>3. pts_to_omx(ToUnsigned(Packets[current].PTS)) \in [nLowPart : Int, nHighPart : Int]
    BY <2>2 DEF pts_to_omx
  <2> QED
    BY <1>1, <1>2, <2>3 DEF Chunks
<1>5. BufferInv' /\ nFilledLen' \in [Buffers -> 0..AllocLen] /\ with_decoder' \in Seq(Buffers)
  <2>1. c \in 0..AllocLen /\ c # 0
    BY <1>2
  <2> QED
    BY <1>1, <2>1, Keep_BufferInv
<1>6. TypeOK' /\ PacketInv'
  <2>1. bytes_left' \in Nat /\ first_packet' = FALSE /\ pc' = "test_bytes" /\ current # EOS
    BY <1>1, <1>2
  <2>2. TypeOK'
    BY <1>3, <1>5, <2>1 DEF IInv, TypeOK
  <2>3. PacketInv'
    BY <1>2, <1>3, <2>1 DEF PacketInv, Feeding
  <2> QED
    BY <2>2, <2>3
<1>7. chunk.packet = current /\ chunk.length = c
  BY <1>1
<1>8. FedInv'
  BY <1>1, <1>3, <1>4, <1>7, Keep_FedInv
<1>9. ASSUME NEW p \in 1..Len(Packets)
      PROVE  /\ BytesOf(p) \in Nat
             /\ BytesOf(p)' = BytesOf(p) + IF p = current THEN c ELSE 0
  <2>1. /\ TotalOf(fed, p) \in Nat
        /\ TotalOf(fed', p) = TotalOf(fed, p) + IF chunk.packet = p THEN chunk.length ELSE 0
    BY <1>3, <1>4, TotalOfAppend DEF IInv, FedInv
  <2> QED
    BY <1>7, <2>1, BytesOfIsTotal
<1>10. BytesInv'
  <2> SUFFICES ASSUME NEW p \in 1..Len(Packets)
               PROVE  BytesOf(p)' = IF p < current THEN Packets[p].length
                                    ELSE IF p = current THEN Packets[p].length - (bytes_left - c)
                                    ELSE 0
    BY <1>1, <1>3 DEF BytesInv
  <2>1. Packets[p].length \in Nat
    BY PacketType
  <2>2. BytesOf(p) = IF p < current THEN Packets[p].length
                     ELSE IF p = current THEN Packets[p].length - bytes_left
                     ELSE 0
    BY DEF IInv, BytesInv
  <2>3. BytesOf(p)' = BytesOf(p) + IF p = current THEN c ELSE 0
    BY <1>9
  <2> QED
    BY <1>2, <2>1, <2>2, <2>3
<1>11. MarksInv'
  <2>1. /\ BytesOf(current) = Packets[current].length - bytes_left
        /\ BytesOf(current)' = Packets[current].length - (bytes_left - c)
        /\ Packets[current].length \in Nat
    <3>1. PICK q \in 1..Len(Packets) : q = current
      BY <1>2
    <3>2. /\ BytesOf(q) = Packets[q].length - bytes_left /\ Packets[q].length \in Nat
          /\ BytesOf(q)' = BytesOf(q) + c
      BY <1>2, <1>9, <3>1, PacketType DEF IInv, BytesInv
    <3> QED
      BY <1>2, <1>3, <3>1, <3>2
  <2>2. /\ BytesOf(current) # Packets[current].length
        /\ BytesOf(current)' = Packets[current].length <=> bytes_left - c = 0
    BY <1>2, <2>1
  <2>3. first_packet <=> fed = <<>>
    BY <1>1 DEF IInv, FedInv
  <2>4. /\ chunk.nTimeStamp = pts_to_omx(ToUnsigned(Packets[current].PTS))
        /\ "STARTTIME" \in chunk.nFlags <=> first_packet
        /\ "ENDOFFRAME" \in chunk.nFlags <=> bytes_left - c = 0
        /\ "EOS" \notin chunk.nFlags
    BY <1>1
  <2> HIDE DEF IInv
  <2> QED
    BY <1>1, <1>3, <1>4, <1>7, <2>2, <2>3, <2>4, Keep_MarksInv
<1> QED
  BY <1>5, <1>6, <1>8, <1>10, <1>11 DEF IInv

LEMMA Keep_fill_eos ==
  ASSUME IInv, fill_eos
  PROVE  IInv'
<1> USE EosType
<1>1. PICK chunk :
        /\ pc = "fill" /\ current = EOS /\ pc' = "done"
        /\ chunk = [packet |-> EOS, length |-> 0, nFlags |-> {"TIME_UNKNOWN", "EOS"}]
        /\ HandOver(0, chunk) /\ UNCHANGED <<bytes_left, first_packet>>
  BY DEF fill_eos, HandOver
<1>2. /\ UNCHANGED <<scan, asleep, current, buf_in_notempty, buf_in_mutex, callback>>
      /\ fed' = Append(fed, chunk)
  BY <1>1 DEF HandOver
<1>3. chunk \in Chunks /\ chunk.packet = current /\ chunk.length = 0
  BY <1>1 DEF Chunks
<1>4. BufferInv' /\ nFilledLen' \in [Buffers -> 0..AllocLen] /\ with_decoder' \in Seq(Buffers)
  BY <1>1, Keep_BufferInv
<1>5. TypeOK' /\ PacketInv'
  BY <1>1, <1>2, <1>4 DEF IInv, TypeOK, PacketInv, Feeding
<1>6. FedInv'
  BY <1>1, <1>2, <1>3, Keep_FedInv
<1>7. \A p \in 1..Len(Packets) : BytesOf(p)' = BytesOf(p)
  <2> SUFFICES ASSUME NEW p \in 1..Len(Packets) PROVE BytesOf(p)' = BytesOf(p)
    OBVIOUS
  <2>1. /\ TotalOf(fed, p) \in Nat
        /\ TotalOf(fed', p) = TotalOf(fed, p) + 0
    BY <1>2, <1>3, TotalOfAppend DEF IInv, FedInv
  <2> QED
    BY <2>1, BytesOfIsTotal
<1>8. BytesInv'
  BY <1>1, <1>2, <1>7 DEF IInv, BytesInv
<1>9. MarksInv'
  <2>1. "STARTTIME" \notin chunk.nFlags /\ "EOS" \in chunk.nFlags
    BY <1>1
  <2> QED
    BY <1>1, <1>2, <1>3, <2>1, Keep_MarksInv
<1> QED
  BY <1>4, <1>5, <1>6, <1>8, <1>9 DEF IInv

LEMMA NextIInv == IInv /\ [Next]_vars => IInv'
<1> SUFFICES ASSUME IInv, [Next]_vars PROVE IInv'
  OBVIOUS
<1>1. CASE UNCHANGED vars
  <2>1. UNCHANGED <<thread, shared, notBuf>>
    BY <1>1 DEF vars
  <2>2. TypeOK' /\ PacketInv' /\ BufferInv'
    BY <2>1 DEF IInv, TypeOK, PacketInv, BufferInv, thread, packet, shared, notBuf, Feeding
  <2> QED
    BY <2>1, <2>2, KeepFed_quiet DEF IInv, thread, packet, notBuf
<1>2. CASE Next
  BY <1>2, Keep_Searching, Keep_decoder_empties, Keep_next_packet, Keep_fill_buffer, Keep_fill_eos
     DEF Next, DecodeStep, DecoderStep, Searching
<1> QED
  BY <1>1, <1>2

\* The inductive invariant of decode_thread's inner loop, for any number and size of
\* input buffers and any packets.
THEOREM InvariantHolds == Spec => []IInv
<1>1. Init => IInv
  BY InitIInv
<1>2. IInv /\ [Next]_vars => IInv'
  BY NextIInv
<1> QED
  BY <1>1, <1>2, PTL DEF Spec

\* The type invariant; that nFilledLen stays within AllocLen is that no buffer of the
\* decoder is overrun.
THEOREM TypeCorrect == Spec => []TypeOK
<1>1. IInv => TypeOK
  BY DEF IInv
<1> QED
  BY <1>1, InvariantHolds, PTL

\* omx_get_next_input_buffer, which takes a buffer for empty without the decoder holding
\* the mutex, never chooses one that the decoder still has.
THEOREM ChosenIsNotInFlightHolds == Spec => []ChosenIsNotInFlight
<1>1. IInv => ChosenIsNotInFlight
  BY DEF IInv, BufferInv, ChosenIsNotInFlight
<1> QED
  BY <1>1, InvariantHolds, PTL

\* The loop that cuts packets into buffers is lossless: every packet is handed over byte
\* for byte, with its time stamp, and the flags mark the right buffers, whatever the
\* sizes of the packets and of the buffers.
THEOREM CutIsLosslessHolds == Spec => []CutIsLossless
<1>1. IInv => CutIsLossless
  <2> SUFFICES ASSUME IInv PROVE CutIsLossless
    OBVIOUS
  <2>1. ASSUME NEW p \in 1..Len(Packets), p < current
        PROVE  BytesOf(p) = Packets[p].length
    BY <2>1 DEF IInv, BytesInv
  <2>2. ASSUME NEW k \in 1..Len(fed), fed[k].packet # EOS
        PROVE  ToSigned(omx_to_pts(fed[k].nTimeStamp)) = Packets[fed[k].packet].PTS
    <3>1. PICK q \in 1..Len(Packets) : q = fed[k].packet
      BY <2>2, EosType DEF IInv, FedInv, Chunks
    <3>2. Packets[q].PTS \in Int64
      BY PacketType
    <3>3. fed[k].nTimeStamp = pts_to_omx(ToUnsigned(Packets[q].PTS))
      BY <2>2, <3>1 DEF IInv, MarksInv, Marked
    <3> QED
      BY <3>1, <3>2, <3>3, PtsRoundTrip
  <2>3. \A k \in 1..Len(fed) : Marked(k)
    BY DEF IInv, MarksInv
  <2> HIDE DEF IInv
  <2> QED
    BY <2>1, <2>2, <2>3 DEF CutIsLossless, Marked, Last
<1> QED
  BY <1>1, InvariantHolds, PTL

-----------------------------------------------------------------------------
(* Where the two threads can come to a stop. *)

\* Who holds buf_in_mutex, and what a sleeper has left behind.
MutexInv ==
  /\ pc \in {"scan", "none", "unlock"} => buf_in_mutex = "decode_thread"
  /\ buf_in_mutex = "decode_thread" =>
       pc \in {"scan", "none", "unlock"} \/ (pc = "wait" /\ ~asleep)
  /\ callback = "unlock" <=> buf_in_mutex = decoder
  /\ asleep => pc = "wait" /\ buf_in_notempty = 0

\* A buffer that is not empty is with the decoder.
FullInv ==
  \A b \in Buffers :
    nFilledLen[b] > 0 => \E k \in 1..Len(with_decoder) : with_decoder[k] = b

LEMMA InitStop == Init => MutexInv /\ FullInv
<1> SUFFICES ASSUME Init PROVE MutexInv /\ FullInv
  OBVIOUS
<1>1. MutexInv
  BY OwnersAssumption DEF Init, MutexInv
<1>2. FullInv
  BY DEF Init, FullInv
<1> QED
  BY <1>1, <1>2

LEMMA DecodeKeepsMutexInv ==
  ASSUME TypeOK, MutexInv, DecodeStep
  PROVE  MutexInv'
<1> USE OwnersAssumption DEF MutexInv, packet, thread, shared, notBuf
<1>1. CASE next_packet \/ test_bytes \/ omx_get_free_buffer_count
  BY <1>1 DEF next_packet, test_bytes, omx_get_free_buffer_count
<1>2. CASE get_buffer_lock
  BY <1>2 DEF get_buffer_lock
<1>3. CASE get_buffer_scan
  BY <1>3 DEF get_buffer_scan, Scan
<1>4. CASE get_buffer_none
  BY <1>4 DEF get_buffer_none
<1>5. CASE get_buffer_wait
  BY <1>5 DEF get_buffer_wait
<1>6. CASE get_buffer_wake
  BY <1>6 DEF get_buffer_wake
<1>7. CASE get_buffer_unlock
  BY <1>7 DEF get_buffer_unlock
<1>8. CASE fill_buffer \/ fill_eos
  BY <1>8 DEF fill_buffer, Fill, fill_eos, HandOver
<1> QED
  BY <1>1, <1>2, <1>3, <1>4, <1>5, <1>6, <1>7, <1>8 DEF DecodeStep

LEMMA DecoderKeepsMutexInv ==
  ASSUME TypeOK, MutexInv, DecoderStep \/ SpuriousWakeup
  PROVE  MutexInv'
<1> USE OwnersAssumption DEF MutexInv, packet, thread, shared
<1>1. CASE decoder_empties
  BY <1>1 DEF decoder_empties
<1>2. CASE empty_buffer_done_test
  BY <1>2 DEF empty_buffer_done_test
<1>3. CASE empty_buffer_done_set
  BY <1>3 DEF empty_buffer_done_set, SetNotEmpty
<1>4. CASE empty_buffer_done_unlock
  BY <1>4 DEF empty_buffer_done_unlock
<1>5. CASE SpuriousWakeup
  BY <1>5 DEF SpuriousWakeup, notBuf
<1> QED
  BY <1>1, <1>2, <1>3, <1>4, <1>5 DEF DecoderStep

\* Handing a buffer over puts it at the end of the decoder's list ...
LEMMA HandOverKeepsFullInv ==
  ASSUME TypeOK, FullInv, fill_buffer \/ fill_eos
  PROVE  FullInv'
<1>1. /\ with_decoder' = Append(with_decoder, scan)
      /\ \A b \in Buffers : b # scan => nFilledLen'[b] = nFilledLen[b]
  BY DEF fill_buffer, Fill, fill_eos, HandOver, TypeOK
<1>2. with_decoder \in Seq(Buffers)
  BY DEF TypeOK
<1>3. PICK n \in Nat : n = Len(with_decoder)
  BY <1>2
<1>4. /\ Len(with_decoder') = n + 1
      /\ with_decoder'[n + 1] = scan
      /\ \A k \in 1..n : with_decoder'[k] = with_decoder[k]
  BY <1>1, <1>2, <1>3
<1> SUFFICES ASSUME NEW b \in Buffers, nFilledLen'[b] > 0
             PROVE  \E k \in 1..(n + 1) : with_decoder'[k] = b
  BY <1>4 DEF FullInv
<1>5. CASE b = scan
  BY <1>4, <1>5
<1>6. CASE b # scan
  <2>1. PICK k \in 1..n : with_decoder[k] = b
    BY <1>1, <1>3, <1>6 DEF FullInv
  <2>2. k \in 1..(n + 1) /\ with_decoder'[k] = b
    BY <1>4, <2>1
  <2> QED
    BY <2>2
<1> QED
  BY <1>5, <1>6

\* ... and the decoder empties the one it takes off the front.
LEMMA EmptyingKeepsFullInv ==
  ASSUME TypeOK, FullInv, decoder_empties
  PROVE  FullInv'
<1>1. with_decoder \in Seq(Buffers) /\ with_decoder # <<>>
      /\ with_decoder' = Tail(with_decoder)
  BY DEF decoder_empties, TypeOK
<1>2. PICK n \in Nat : n = Len(with_decoder) - 1 /\ Len(with_decoder) = n + 1
  <2>1. Len(with_decoder) - 1 \in Nat /\ Len(with_decoder) = (Len(with_decoder) - 1) + 1
    BY <1>1
  <2> QED
    BY <2>1
<1>3. PICK h \in Buffers : h = Head(with_decoder) /\ h = with_decoder[1]
  BY <1>1
<1>4. /\ Len(with_decoder') = n
      /\ \A k \in 1..n : with_decoder'[k] = with_decoder[k + 1]
  BY <1>1, <1>2
<1>5. /\ nFilledLen'[h] = 0
      /\ \A b \in Buffers : b # h => nFilledLen'[b] = nFilledLen[b]
  BY <1>3 DEF decoder_empties, TypeOK
<1> SUFFICES ASSUME NEW b \in Buffers, nFilledLen'[b] > 0
             PROVE  \E k \in 1..n : with_decoder'[k] = b
  BY <1>4 DEF FullInv
<1>6. b # h /\ nFilledLen[b] > 0
  BY <1>5
<1>7. PICK k \in 1..(n + 1) : with_decoder[k] = b
  BY <1>2, <1>6 DEF FullInv
<1>8. k - 1 \in 1..n /\ (k - 1) + 1 = k
  BY <1>3, <1>6, <1>7
<1>9. with_decoder'[k - 1] = b
  BY <1>4, <1>7, <1>8
<1> QED
  BY <1>8, <1>9

LEMMA StepStop == TypeOK /\ MutexInv /\ FullInv /\ [Next]_vars => MutexInv' /\ FullInv'
<1> SUFFICES ASSUME TypeOK, MutexInv, FullInv, [Next]_vars
             PROVE  MutexInv' /\ FullInv'
  OBVIOUS
<1>1. MutexInv'
  <2>1. CASE UNCHANGED vars
    BY <2>1 DEF MutexInv, vars, thread, shared, notBuf
  <2> QED
    BY <2>1, DecodeKeepsMutexInv, DecoderKeepsMutexInv DEF Next
<1>2. FullInv'
  <2>1. CASE UNCHANGED <<nFilledLen, with_decoder>>
    BY <2>1 DEF FullInv
  <2>2. CASE Searching \/ next_packet \/ UNCHANGED vars
    <3>1. UNCHANGED <<nFilledLen, with_decoder>>
      BY <2>2
      DEF Searching, test_bytes, omx_get_free_buffer_count, get_buffer_lock,
          get_buffer_scan, Scan, get_buffer_none, get_buffer_wait, get_buffer_wake,
          get_buffer_unlock, SpuriousWakeup, empty_buffer_done_test,
          empty_buffer_done_set, SetNotEmpty, empty_buffer_done_unlock, next_packet,
          vars, shared, notBuf
    <3> QED
      BY <2>1, <3>1
  <2>3. Searching \/ next_packet \/ UNCHANGED vars
          \/ fill_buffer \/ fill_eos \/ decoder_empties
    BY DEF Next, DecodeStep, DecoderStep, Searching
  <2> QED
    BY <2>2, <2>3, HandOverKeepsFullInv, EmptyingKeepsFullInv
<1> QED
  BY <1>1, <1>2

\* The handshake on buf_in_mutex and buf_in_notempty never deadlocks, for any number of
\* buffers and any packets: the only stop before the end is the late clearing of the flag.
THEOREM StuckForAReasonHolds == Spec => []StuckForAReason
<1>1. TypeOK /\ MutexInv /\ FullInv => StuckForAReason
  <2> SUFFICES ASSUME TypeOK, MutexInv, FullInv, DecodeBlocked, DecoderBlocked
               PROVE  /\ NothingInFlight
                      /\ \/ pc = "done"
                         \/ /\ asleep /\ buf_in_notempty = 0
                            /\ \A b \in Buffers : nFilledLen[b] = 0
    BY DEF StuckForAReason
  <2>1. buf_in_mutex # decoder
    BY DEF DecoderBlocked, NothingInFlight, MutexInv
  <2>2. buf_in_mutex # "decode_thread"
    BY <2>1, OwnersAssumption DEF DecodeBlocked, MutexInv
  <2>3. buf_in_mutex = "free"
    BY <2>1, <2>2 DEF TypeOK
  <2>4. NothingInFlight
    BY <2>3 DEF DecoderBlocked
  <2>5. CASE pc = "done"
    BY <2>4, <2>5
  <2>6. CASE pc # "done"
    <3>1. asleep /\ buf_in_notempty = 0
      BY <2>1, <2>3, <2>6 DEF DecodeBlocked, MutexInv
    <3>2. ASSUME NEW b \in Buffers PROVE nFilledLen[b] = 0
      <4>1. Len(with_decoder) = 0 /\ nFilledLen[b] \in 0..AllocLen
        BY <2>4 DEF NothingInFlight, TypeOK
      <4>2. ~(nFilledLen[b] > 0)
        BY <4>1 DEF FullInv
      <4> QED
        BY <4>1, <4>2, SizesAssumption
    <3> QED
      BY <2>4, <3>1, <3>2
  <2> QED
    BY <2>5, <2>6
<1> QED
  BY <1>1, InitStop, StepStop, TypeCorrect, PTL DEF Spec
=============================================================================
