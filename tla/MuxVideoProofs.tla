--------------------------- MODULE MuxVideoProofs ---------------------------
(***************************************************************************)
(* Proofs about MuxVideo, for a stream of any length.                      *)
(***************************************************************************)
EXTENDS MuxVideo, TLAPS

-----------------------------------------------------------------------------
(* The inductive invariant *)

\* s is the last unit of type t, or there is none.
LatestIs(s, t) ==
  \/ s = <<>> /\ \A nal \in Nals : KindOf(nal) # t
  \/ s \in Nals /\ KindOf(s) = t /\ \A nal \in Nals : KindOf(nal) = t => nal[1] <= s[1]

ParameterInv == LatestIs(sps, SPS) /\ LatestIs(pps, PPS)

ExtradataInv == extradata = IF sps # <<>> /\ pps # <<>> THEN sps \o pps ELSE <<>>

\* What is freed is the data of a piece that was copied, or the copy of a set that mux_state no
\* longer points to.
FreedInv ==
  /\ freed \in Seq({Data(k) : k \in Nat} \cup {Copy(s) : s \in Seq(Nat)})
  /\ \A i \in 1..Len(freed) :
       \/ \E k \in 1..Len(stream) : freed[i] = Data(k) /\ ~EndsNal(k)
       \/ \E s \in Nals : freed[i] = Copy(s) /\ (returned \/ s \notin {sps, pps})

LengthInv == Len(stream) <= MaxPackets

\* The sets of DataCustody.
FreedSet == {freed[k] : k \in 1..Len(freed)}
Muxed    == {BlockOf(calls[k]) : k \in {j \in 1..Len(calls) : calls[j] # <<>>}}
HeldBuf  == IF buf = <<>> THEN {} ELSE {Buf(buf[1])}
HeldSets == IF returned THEN {} ELSE {Copy(s) : s \in {sps, pps} \ {<<>>}}
Blocks   == {BlockOf(nal) : nal \in Nals}
Lasts    == {Data(nal[Len(nal)]) : nal \in {x \in Nals : Len(x) > 1}}

\* No block is freed twice.
FreedOnce == \A j, k \in 1..Len(freed) : freed[j] = freed[k] => j = k

\* Nothing else is allocated.
LiveInv == live = (HeldBuf \cup HeldSets) \cup ((Blocks \ Muxed) \cup Lasts)

IInv == TypeOK /\ LengthInv /\ OnlyWholeNals /\ ParameterInv /\ ExtradataInv
          /\ WrittenIffParametersKnown /\ FreedInv /\ FreedOnce /\ LiveInv

-----------------------------------------------------------------------------
(* The NAL units of a stream *)

LEMMA RangeIs ==
  ASSUME NEW a \in Nat, NEW b \in Nat, a <= b + 1
  PROVE  /\ Range(a, b) \in Seq(a..b) /\ Len(Range(a, b)) = b + 1 - a
         /\ a <= b => Range(a, b)[1] = a /\ Range(a, b)[b + 1 - a] = b
BY DEF Range

LEMMA EmptyRange ==
  ASSUME NEW a \in Nat
  PROVE  Range(a + 1, a) = <<>>
BY DEF Range

LEMMA RangeAppend ==
  ASSUME NEW a \in Nat, NEW b \in Nat, a <= b + 1
  PROVE  Append(Range(a, b), b + 1) = Range(a, b + 1)
BY DEF Range

\* What a unit is: packets a to b.
Spans(nal, a, b) == nal = Range(a, b) /\ IsNal(a, b)

NalsAreSpans == \A nal : nal \in Nals <=> \E a, b \in 1..Len(stream) : Spans(nal, a, b)

LEMMA NalsAre == NalsAreSpans
<1> SUFFICES ASSUME NEW nal
             PROVE  nal \in Nals <=> \E a, b \in 1..Len(stream) : Spans(nal, a, b)
  BY DEF NalsAreSpans
<1>1. ASSUME NEW a \in 1..Len(stream), NEW b \in 1..Len(stream), nal = Range(a, b), IsNal(a, b)
      PROVE  nal \in Nals
  <2>1. PICK x \in (1..Len(stream)) \X (1..Len(stream)) : x[1] = a /\ x[2] = b
    <3>1. <<a, b>> \in (1..Len(stream)) \X (1..Len(stream)) /\ <<a, b>>[1] = a /\ <<a, b>>[2] = b
      OBVIOUS
    <3> QED
      BY <3>1
  <2>2. nal = Range(x[1], x[2]) /\ IsNal(x[1], x[2])
    BY <1>1, <2>1
  <2> QED
    BY <2>2 DEF Nals
<1>2. ASSUME nal \in Nals
      PROVE  \E a, b \in 1..Len(stream) : nal = Range(a, b) /\ IsNal(a, b)
  <2>1. PICK x \in (1..Len(stream)) \X (1..Len(stream)) :
          nal = Range(x[1], x[2]) /\ IsNal(x[1], x[2])
    BY <1>2 DEF Nals
  <2>2. x[1] \in 1..Len(stream) /\ x[2] \in 1..Len(stream)
    OBVIOUS
  <2> QED
    BY <2>1, <2>2
<1> QED
  BY <1>1, <1>2 DEF Spans

LEMMA NalsArePrimed == NalsAreSpans'
BY NalsAre, PTL

LEMMA NalIs ==
  ASSUME stream \in Seq(Packets), NEW nal \in Nals
  PROVE  \E a, b \in 1..Len(stream) :
           /\ IsNal(a, b) /\ a <= b /\ nal = Range(a, b) /\ nal \in Seq(a..b)
           /\ Len(nal) = b + 1 - a /\ nal[1] = a /\ nal[Len(nal)] = b
<1>1. PICK a \in 1..Len(stream), b \in 1..Len(stream) : nal = Range(a, b) /\ IsNal(a, b)
  BY NalsAre DEF NalsAreSpans, Spans
<1>2. a \in Nat /\ b \in Nat /\ a <= b
  BY <1>1 DEF IsNal
<1>3. /\ nal \in Seq(a..b) /\ Len(nal) = b + 1 - a /\ nal[1] = a /\ nal[b + 1 - a] = b
  <2>1. a <= b + 1
    BY <1>2
  <2> QED
    BY <1>1, <1>2, <2>1, RangeIs, Zenon
<1> QED
  BY <1>1, <1>2, <1>3

\* Units are told apart by their first packet and by their last one, and they do not overlap.
LEMMA NalsApart ==
  ASSUME stream \in Seq(Packets), NEW x \in Nals, NEW y \in Nals
  PROVE  /\ x[1] = y[1] => x = y
         /\ x[Len(x)] = y[Len(y)] => x = y
         /\ x[1] < y[1] => x[Len(x)] < y[1]
<1>1. PICK a \in 1..Len(stream), b \in 1..Len(stream) :
        IsNal(a, b) /\ a <= b /\ x = Range(a, b) /\ x[1] = a /\ x[Len(x)] = b
  BY NalIs
<1>2. PICK c \in 1..Len(stream), d \in 1..Len(stream) :
        IsNal(c, d) /\ c <= d /\ y = Range(c, d) /\ y[1] = c /\ y[Len(y)] = d
  BY NalIs
<1>3. /\ EndsNal(a - 1) /\ EndsNal(b) /\ EndsNal(c - 1) /\ EndsNal(d)
      /\ (\A k \in a..(b - 1) : ~EndsNal(k)) /\ \A k \in c..(d - 1) : ~EndsNal(k)
  BY <1>1, <1>2 DEF IsNal
<1>4. a = c => b = d
  <2>1. a = c => ~(b \in c..(d - 1)) /\ ~(d \in a..(b - 1))
    BY <1>3
  <2> QED
    BY <1>1, <1>2, <2>1
<1>5. b = d => a = c
  <2>1. b = d => ~(a - 1 \in c..(d - 1)) /\ ~(c - 1 \in a..(b - 1))
    BY <1>3
  <2> QED
    BY <1>1, <1>2, <2>1
<1>6. a < c => b < c
  <2>1. ~(c - 1 \in a..(b - 1))
    BY <1>3
  <2> QED
    BY <1>1, <2>1
<1> QED
  BY <1>1, <1>2, <1>4, <1>5, <1>6

-----------------------------------------------------------------------------
(* A packet is added to the stream *)

\* The open unit starts after packet a.
OpenAt(a) ==
  EndsNal(a) /\ buf = Range(a + 1, Len(stream)) /\ \A k \in (a + 1)..Len(stream) : ~EndsNal(k)

LEMMA EndsAppended ==
  ASSUME stream \in Seq(Packets), NEW p \in Packets, stream' = Append(stream, p),
         NEW m \in Nat, m = Len(stream)
  PROVE  /\ Len(stream') = m + 1 /\ stream' \in Seq(Packets)
         /\ \A k \in 1..m : stream'[k] = stream[k]
         /\ \A k \in 0..m : EndsNal(k)' <=> EndsNal(k)
         /\ EndsNal(m + 1)' <=> p.end_of_nal
         /\ \A a, b \in 1..m : IsNal(a, b)' <=> IsNal(a, b)
<1>1. /\ Len(stream') = m + 1 /\ stream' \in Seq(Packets) /\ stream'[m + 1] = p
      /\ \A k \in 1..m : stream'[k] = stream[k]
  OBVIOUS
<1>2. \A k \in 0..m : EndsNal(k)' <=> EndsNal(k)
  BY <1>1 DEF EndsNal
<1>3. EndsNal(m + 1)' <=> p.end_of_nal
  BY <1>1 DEF EndsNal
<1>4. ASSUME NEW a \in 1..m, NEW b \in 1..m PROVE IsNal(a, b)' <=> IsNal(a, b)
  <2>1. a - 1 \in 0..m /\ b \in 0..m /\ \A k \in a..(b - 1) : k \in 0..m
    OBVIOUS
  <2> QED
    BY <1>2, <2>1 DEF IsNal
<1> QED
  BY <1>1, <1>2, <1>3, <1>4

\* The new packet is a piece of the open unit.
LEMMA PieceAdded ==
  ASSUME stream \in Seq(Packets), NEW p \in Packets, stream' = Append(stream, p),
         ~p.end_of_nal
  PROVE  Nals' = Nals
<1>1. PICK m \in Nat : m = Len(stream)
  OBVIOUS
<1>2. ASSUME NEW nal PROVE (nal \in Nals') <=> (nal \in Nals)
  <2>1. ASSUME NEW a \in 1..(m + 1), NEW b \in 1..(m + 1), IsNal(a, b)'
        PROVE  a \in 1..m /\ b \in 1..m
    <3>1. b # m + 1 /\ a <= b
      BY <1>1, <2>1, EndsAppended DEF IsNal
    <3> QED
      BY <3>1
  <2>2. \A a, b \in 1..m : Spans(nal, a, b)' <=> Spans(nal, a, b)
    BY <1>1, EndsAppended DEF Spans, Range
  <2>3. (nal \in Nals') <=> \E a, b \in 1..(m + 1) : Spans(nal, a, b)'
    <3>1. Len(stream') = m + 1
      BY <1>1, EndsAppended
    <3> QED
      BY <3>1, NalsArePrimed DEF NalsAreSpans
  <2>4. (nal \in Nals) <=> \E a, b \in 1..m : Spans(nal, a, b)
    BY <1>1, NalsAre DEF NalsAreSpans
  <2>5. \A a, b \in 1..(m + 1) : Spans(nal, a, b)' => a \in 1..m /\ b \in 1..m
    BY <2>1 DEF Spans
  <2> QED
    BY <2>2, <2>3, <2>4, <2>5
<1> QED
  BY <1>2

\* The new packet completes the open unit.
LEMMA UnitAdded ==
  ASSUME stream \in Seq(Packets), NEW p \in Packets, stream' = Append(stream, p),
         p.end_of_nal, NEW x \in 0..Len(stream), OpenAt(x)
  PROVE  Nals' = Nals \cup {Append(buf, n)}
<1>1. PICK m \in Nat : m = Len(stream)
  OBVIOUS
<1>2. n = m + 1 /\ x \in 0..m /\ x + 1 \in Nat
  BY <1>1 DEF n
<1>3. Append(buf, m + 1) = Range(x + 1, m + 1)
  <2>1. x + 1 <= m + 1
    BY <1>2
  <2>2. buf = Range(x + 1, m)
    BY <1>1 DEF OpenAt
  <2> QED
    BY <1>2, <2>1, <2>2, RangeAppend, Zenon
<1>4. ASSUME NEW nal PROVE (nal \in Nals') <=> (nal \in Nals \/ nal = Range(x + 1, m + 1))
  <2>1. ASSUME NEW a \in 1..(m + 1)
        PROVE  IsNal(a, m + 1)' <=> a = x + 1
    <3>1. /\ EndsNal(x)' /\ EndsNal(m + 1)' /\ \A k \in (x + 1)..m : ~EndsNal(k)'
      BY <1>1, <1>2, EndsAppended DEF OpenAt
    <3>2. (m + 1) - 1 = m /\ (x + 1) - 1 = x
      BY <1>2
    <3>3. CASE a = x + 1
      BY <1>2, <3>1, <3>2, <3>3 DEF IsNal
    <3>4. CASE a < x + 1
      <4>1. x \in a..m
        BY <1>2, <3>4
      <4> QED
        BY <1>2, <3>1, <3>2, <3>4, <4>1 DEF IsNal
    <3>5. CASE a > x + 1
      <4>1. a - 1 \in (x + 1)..m
        BY <1>2, <3>5
      <4> QED
        BY <1>2, <3>1, <3>5, <4>1 DEF IsNal
    <3> QED
      BY <1>2, <3>3, <3>4, <3>5
  <2>2. \A a, b \in 1..m : Spans(nal, a, b)' <=> Spans(nal, a, b)
    BY <1>1, EndsAppended DEF Spans, Range
  <2>3. (nal \in Nals') <=> \E a, b \in 1..(m + 1) : Spans(nal, a, b)'
    <3>1. Len(stream') = m + 1
      BY <1>1, EndsAppended
    <3> QED
      BY <3>1, NalsArePrimed DEF NalsAreSpans
  <2>4. (nal \in Nals) <=> \E a, b \in 1..m : Spans(nal, a, b)
    BY <1>1, NalsAre DEF NalsAreSpans
  <2>5. \A a, b \in 1..(m + 1) : Spans(nal, a, b)' => b = m + 1 \/ (a \in 1..m /\ b \in 1..m)
    BY DEF Spans, IsNal
  <2>6. \A a \in 1..(m + 1) : Spans(nal, a, m + 1)' <=> a = x + 1 /\ nal = Range(x + 1, m + 1)
    BY <2>1 DEF Spans, Range
  <2>7. x + 1 \in 1..(m + 1) /\ m + 1 \in 1..(m + 1) /\ \A a \in 1..m : a \in 1..(m + 1)
    BY <1>2
  <2> HIDE DEF Spans
  <2> QED
    BY <2>2, <2>3, <2>4, <2>5, <2>6, <2>7
<1> QED
  BY <1>2, <1>3, <1>4
-----------------------------------------------------------------------------
(* Blocks of memory *)

LEMMA BlocksApart ==
  /\ \A j, k : (Data(j) = Data(k) => j = k) /\ (Buf(j) = Buf(k) => j = k) /\ (Copy(j) = Copy(k) => j = k)
  /\ \A j, k : Data(j) # Buf(k) /\ Data(j) # Copy(k) /\ Buf(j) # Copy(k)
BY DEF Data, Buf, Copy

\* DataCustody in terms of the sets above.
Custody ==
  /\ FreedOnce
  /\ FreedSet \cap (Muxed \cup (HeldBuf \cup HeldSets)) = {}
  /\ Muxed \cap (HeldBuf \cup HeldSets) = {}
  /\ LiveInv

LEMMA CustodyIs == DataCustody <=> Custody
BY DEF DataCustody, Custody, FreedOnce, FreedSet, Muxed, HeldBuf, HeldSets, Blocks, Lasts, LiveInv

-----------------------------------------------------------------------------
(* What the invariant says of a state *)

LEMMA NalFacts ==
  ASSUME TypeOK, LengthInv, NEW nal \in Nals
  PROVE  /\ nal \in Seq(Numbers) /\ nal # <<>> /\ Len(nal) \in Nat /\ Len(nal) >= 1
         /\ nal[1] \in 1..Len(stream) /\ nal[Len(nal)] \in 1..Len(stream)
         /\ nal[1] \in Numbers /\ nal[Len(nal)] \in Numbers
         /\ EndsNal(nal[Len(nal)]) /\ KindOf(nal) \in {SPS, PPS, "slice"}
<1>1. stream \in Seq(Packets) /\ Len(stream) \in Nat
  BY DEF TypeOK
<1>2. PICK a \in 1..Len(stream), b \in 1..Len(stream) :
        /\ IsNal(a, b) /\ a <= b /\ nal \in Seq(a..b)
        /\ Len(nal) = b + 1 - a /\ nal[1] = a /\ nal[Len(nal)] = b
  BY <1>1, NalIs
<1>3. a..b \subseteq Numbers
  BY <1>1, MaxPacketsAssumption DEF Numbers, LengthInv
<1>4. nal \in Seq(Numbers)
  BY <1>2, <1>3
<1>5. Len(nal) \in Nat /\ Len(nal) >= 1 /\ nal # <<>>
  BY <1>2
<1>6. a \in Numbers /\ b \in Numbers
  BY <1>1, <1>3, <1>2
<1>7. stream[a] \in Packets
  BY <1>1
<1> QED
  BY <1>2, <1>4, <1>5, <1>6, <1>7 DEF IsNal, KindOf, Packets

\* Freed blocks are not in use, and the open unit's buffer has not been given to the muxer.
LEMMA CustodyHasParts ==
  ASSUME TypeOK, LengthInv, OnlyWholeNals, FreedInv, FreedOnce, LiveInv
  PROVE  Custody
<1>1. stream \in Seq(Packets) /\ Len(stream) \in Nat
  BY DEF TypeOK
<1>2. ASSUME NEW e \in Muxed
      PROVE  \E nal \in Nals : \/ e = Data(nal[1]) /\ nal[1] = nal[Len(nal)]
                               \/ e = Buf(nal[1]) /\ Len(nal) > 1
  <2>1. PICK nal \in Nals : e = BlockOf(nal)
    BY <1>2 DEF Muxed, OnlyWholeNals
  <2>2. Len(nal) \in Nat /\ Len(nal) >= 1
    BY NalFacts
  <2>3. CASE Len(nal) = 1
    BY <2>1, <2>3 DEF BlockOf
  <2>4. CASE Len(nal) > 1
    BY <2>1, <2>4 DEF BlockOf
  <2> QED
    BY <2>2, <2>3, <2>4
<1>3. ASSUME NEW e \in FreedSet
      PROVE  \/ \E k \in 1..Len(stream) : e = Data(k) /\ ~EndsNal(k)
             \/ \E s : e = Copy(s) /\ (returned \/ s \notin {sps, pps})
  BY <1>3 DEF FreedSet, FreedInv
<1>4. FreedSet \cap Muxed = {}
  <2> SUFFICES ASSUME NEW e \in FreedSet, e \in Muxed PROVE FALSE
    OBVIOUS
  <2>1. PICK nal \in Nals : e = Data(nal[1]) /\ nal[1] = nal[Len(nal)]
    BY <1>2, <1>3, BlocksApart
  <2>2. PICK k \in 1..Len(stream) : e = Data(k) /\ ~EndsNal(k)
    BY <1>3, <2>1, BlocksApart
  <2> QED
    BY <2>1, <2>2, BlocksApart, NalFacts
<1>5. FreedSet \cap HeldBuf = {} /\ FreedSet \cap HeldSets = {}
  <2>1. ASSUME NEW e \in FreedSet PROVE e \notin HeldBuf
    BY <1>3, BlocksApart DEF HeldBuf
  <2>2. ASSUME NEW e \in FreedSet PROVE e \notin HeldSets
    BY <1>3, BlocksApart DEF HeldSets
  <2> QED
    BY <2>1, <2>2
<1>6. Muxed \cap HeldSets = {}
  <2>1. ASSUME NEW e \in Muxed PROVE e \notin HeldSets
    BY <1>2, BlocksApart DEF HeldSets
  <2> QED
    BY <2>1
<1>7. Muxed \cap HeldBuf = {}
  <2> SUFFICES ASSUME buf # <<>>, Buf(buf[1]) \in Muxed PROVE FALSE
    BY DEF HeldBuf
  <2>1. PICK nal \in Nals : nal[1] = buf[1]
    BY <1>2, BlocksApart
  <2>2. PICK a \in 0..Len(stream) : OpenAt(a)
    BY DEF OnlyWholeNals, OpenAt
  <2>3. a # Len(stream)
    BY <2>2, EmptyRange DEF OpenAt
  <2>4. buf[1] = a + 1
    <3>1. a + 1 \in Nat /\ a + 1 <= Len(stream) /\ a + 1 <= Len(stream) + 1
      BY <1>1, <2>3
    <3> QED
      BY <1>1, <2>2, <3>1, RangeIs DEF OpenAt
  <2>5. PICK b \in 1..Len(stream) : IsNal(a + 1, b)
    BY <1>1, <2>1, <2>4, NalIs
  <2>6. b \in (a + 1)..Len(stream) /\ EndsNal(b)
    BY <2>5 DEF IsNal
  <2> QED
    BY <2>2, <2>6 DEF OpenAt
<1> QED
  BY <1>4, <1>5, <1>6, <1>7 DEF Custody

-----------------------------------------------------------------------------
(* A unit is completed *)

\* d, the open unit and the new packet, comes after all the units.
NewUnit(d) ==
  /\ d \in Seq(Numbers) /\ Len(d) \in Nat /\ Len(d) >= 1 /\ d # <<>>
  /\ d[1] \in 1..n /\ d[Len(d)] = n
  /\ Len(d) = 1 <=> buf = <<>>
  /\ buf # <<>> => d[1] = buf[1]
  /\ d \notin Nals /\ \A nal \in Nals : nal[1] < d[1]

LEMMA NewUnitIs ==
  ASSUME TypeOK, LengthInv, OnlyWholeNals, Len(stream) < MaxPackets
  PROVE  NewUnit(Append(buf, n))
<1>1. PICK m \in Nat : m = Len(stream) /\ n = m + 1 /\ m + 1 \in Numbers /\ stream \in Seq(Packets)
  BY MaxPacketsAssumption DEF TypeOK, n, Numbers
<1>2. PICK a \in 0..m : OpenAt(a)
  BY <1>1 DEF OnlyWholeNals, OpenAt
<1>3. a + 1 \in Nat /\ a + 1 <= m + 1 /\ a + 1 <= (m + 1) + 1 /\ m + 1 \in Nat
  BY <1>1
<1>4. buf = Range(a + 1, m)
  BY <1>1, <1>2 DEF OpenAt
<1>5. PICK d : d = Append(buf, m + 1) /\ d = Range(a + 1, m + 1)
  BY <1>1, <1>3, <1>4, RangeAppend
<1>6. /\ d \in Seq((a + 1)..(m + 1)) /\ Len(d) = (m + 1) + 1 - (a + 1)
      /\ d[1] = a + 1 /\ d[(m + 1) + 1 - (a + 1)] = m + 1
  <2>1. PICK e \in Nat, f \in Nat : e = a + 1 /\ f = m + 1 /\ e <= f /\ e <= f + 1 /\ d = Range(e, f)
    BY <1>3, <1>5
  <2>2. d \in Seq(e..f) /\ Len(d) = f + 1 - e /\ d[1] = e /\ d[f + 1 - e] = f
    BY <2>1, RangeIs
  <2> QED
    BY <2>1, <2>2, Zenon
<1>7. (a + 1)..(m + 1) \subseteq Numbers
  BY <1>1, MaxPacketsAssumption DEF Numbers
<1>8. d \in Seq(Numbers)
  BY <1>6, <1>7
<1>9. Len(d) \in Nat /\ Len(d) >= 1 /\ d # <<>> /\ d[1] \in 1..n /\ d[Len(d)] = n
  BY <1>1, <1>6
<1>10. /\ buf \in Seq((a + 1)..m) /\ Len(buf) = m + 1 - (a + 1)
       /\ a + 1 <= m => buf[1] = a + 1
  BY <1>3, <1>4, RangeIs
<1>11. (Len(d) = 1 <=> buf = <<>>) /\ (buf # <<>> => d[1] = buf[1])
  <2>1. buf = <<>> <=> a = m
    BY <1>10
  <2> QED
    BY <1>6, <1>10, <2>1
<1>12. ASSUME NEW nal \in Nals PROVE nal[1] < d[1]
  <2>1. PICK x \in 1..m, y \in 1..m : IsNal(x, y) /\ x <= y /\ nal[1] = x
    BY <1>1, NalIs
  <2>2. ~(y \in (a + 1)..m)
    BY <1>1, <1>2, <2>1 DEF OpenAt, IsNal
  <2> QED
    BY <1>6, <2>1, <2>2
<1>13. d \notin Nals
  BY <1>6, <1>12
<1>14. NewUnit(d)
  BY <1>8, <1>9, <1>11, <1>12, <1>13 DEF NewUnit
<1> QED
  BY <1>1, <1>5, <1>14
LEMMA InitIInv == Init => IInv
<1> SUFFICES ASSUME Init PROVE IInv
  OBVIOUS
<1>1. /\ stream = <<>> /\ sps = <<>> /\ pps = <<>> /\ buf = <<>> /\ extradata = <<>> /\ calls = <<>>
      /\ live = {} /\ freed = <<>> /\ returned = FALSE
  BY DEF Init
<1>2. Nals = {}
  BY <1>1 DEF Nals
<1>3. TypeOK /\ LengthInv
  <2>1. <<>> \in Seq(Packets) /\ <<>> \in Seq(Numbers) /\ <<>> \in Seq(Seq(Numbers)) /\ Len(<<>>) = 0
    OBVIOUS
  <2>2. TypeOK
    BY <1>1, <2>1 DEF TypeOK
  <2>3. LengthInv
    BY <1>1, MaxPacketsAssumption DEF LengthInv
  <2> QED
    BY <2>2, <2>3
<1>4. OnlyWholeNals
  <2>1. Range(0 + 1, 0) = <<>>
    BY EmptyRange
  <2>2. OpenAt(0)
    BY <1>1, <2>1 DEF OpenAt, EndsNal
  <2>3. 0 \in 0..Len(stream)
    BY <1>1
  <2> QED
    BY <1>1, <2>2, <2>3 DEF OnlyWholeNals, OpenAt
<1>5. ParameterInv /\ ExtradataInv /\ WrittenIffParametersKnown
  BY <1>1, <1>2 DEF ParameterInv, LatestIs, ExtradataInv, WrittenIffParametersKnown
<1>6. FreedInv /\ FreedOnce
  BY <1>1 DEF FreedInv, FreedOnce
<1>7. LiveInv
  BY <1>1, <1>2 DEF LiveInv, HeldBuf, HeldSets, Blocks, Lasts
<1> QED
  BY <1>3, <1>4, <1>5, <1>6, <1>7 DEF IInv

\* What both kinds of packet have in common.
LEMMA PacketAdded ==
  ASSUME TypeOK, LengthInv, Len(stream) < MaxPackets, NEW p \in Packets, stream' = Append(stream, p)
  PROVE  /\ stream \in Seq(Packets) /\ stream' \in Seq(Packets) /\ Len(stream) \in Nat
         /\ Len(stream') = n /\ n = Len(stream) + 1 /\ n \in Numbers /\ LengthInv'
         /\ \A nal \in Nals : stream'[nal[1]] = stream[nal[1]]
         /\ \A k \in 0..Len(stream) : EndsNal(k)' <=> EndsNal(k)
<1>1. PICK m \in Nat : m = Len(stream)
  BY DEF TypeOK
<1>2. /\ stream \in Seq(Packets) /\ stream' \in Seq(Packets) /\ Len(stream') = m + 1
      /\ (\A k \in 1..m : stream'[k] = stream[k]) /\ \A k \in 0..m : EndsNal(k)' <=> EndsNal(k)
  BY <1>1, EndsAppended DEF TypeOK
<1>3. \A nal \in Nals : nal[1] \in 1..m
  BY <1>1, NalFacts
<1>4. n = m + 1 /\ m + 1 \in Numbers /\ LengthInv'
  BY <1>1, <1>2, MaxPacketsAssumption DEF n, Numbers, LengthInv
<1> QED
  BY <1>1, <1>2, <1>3, <1>4

LEMMA Keep_write_partial ==
  ASSUME IInv, Len(stream) < MaxPackets, NEW p \in Packets, write_partial(p)
  PROVE  IInv'
<1>1. /\ ~p.end_of_nal /\ stream' = Append(stream, p) /\ buf' = Append(buf, n)
      /\ calls' = IF flush_framebuf THEN Append(calls, <<>>) ELSE calls
      /\ live' = IF buf = <<>> THEN live \cup {Buf(n)} ELSE live
      /\ freed' = Append(freed, Data(n))
      /\ sps' = sps /\ pps' = pps /\ extradata' = extradata /\ returned' = returned
  BY DEF write_partial
<1>2. /\ TypeOK /\ LengthInv /\ OnlyWholeNals /\ ParameterInv /\ ExtradataInv
      /\ WrittenIffParametersKnown /\ FreedInv /\ FreedOnce /\ LiveInv
  BY DEF IInv
<1>3. PICK m \in Nat :
        /\ m = Len(stream) /\ n = m + 1 /\ stream \in Seq(Packets) /\ stream' \in Seq(Packets)
        /\ Len(stream') = m + 1 /\ m + 1 \in Numbers /\ LengthInv'
        /\ \A nal \in Nals : stream'[nal[1]] = stream[nal[1]]
        /\ \A k \in 0..m : EndsNal(k)' <=> EndsNal(k)
  BY <1>1, <1>2, PacketAdded
<1>4. Nals' = Nals
  BY <1>1, <1>3, PieceAdded
<1>5. /\ buf \in Seq(Numbers) /\ calls \in Seq(Seq(Numbers))
      /\ buf' \in Seq(Numbers) /\ calls' \in Seq(Seq(Numbers))
  <2>1. buf \in Seq(Numbers) /\ calls \in Seq(Seq(Numbers)) /\ <<>> \in Seq(Numbers)
    BY <1>2 DEF TypeOK
  <2>2. buf' \in Seq(Numbers)
    BY <1>1, <1>3, <2>1
  <2>3. calls' \in Seq(Seq(Numbers))
    BY <1>1, <2>1
  <2> QED
    BY <2>1, <2>2, <2>3
<1>6. TypeOK'
  <2>1. live' \subseteq {Data(k) : k \in Numbers} \cup {Buf(k) : k \in Numbers} \cup {Copy(sps), Copy(pps)}
    BY <1>1, <1>2, <1>3 DEF TypeOK
  <2>2. {sps, pps, extradata} \subseteq Seq(Numbers) /\ returned \in BOOLEAN
    BY <1>2 DEF TypeOK
  <2> QED
    BY <1>1, <1>3, <1>5, <2>1, <2>2 DEF TypeOK, Data, Buf, Copy, Numbers
<1>7. /\ Len(calls) \in Nat /\ Len(calls') >= Len(calls) /\ Len(calls') \in Nat
      /\ \A i \in 1..Len(calls') : \/ i \in 1..Len(calls) /\ calls'[i] = calls[i]
                                   \/ i \notin 1..Len(calls) /\ calls'[i] = <<>>
      /\ \A i \in 1..Len(calls) : i \in 1..Len(calls') /\ calls'[i] = calls[i]
  BY <1>1, <1>5
<1>8. OnlyWholeNals'
  <2>1. \A i \in 1..Len(calls') : calls'[i] = <<>> \/ calls'[i] \in Nals
    BY <1>2, <1>7 DEF OnlyWholeNals
  <2>2. \A i, j \in 1..Len(calls') :
          i < j /\ calls'[i] # <<>> /\ calls'[j] # <<>> => calls'[i][1] < calls'[j][1]
    BY <1>2, <1>7 DEF OnlyWholeNals
  <2>3. PICK a \in 0..m : OpenAt(a)
    BY <1>2, <1>3 DEF OnlyWholeNals, OpenAt
  <2>4. OpenAt(a)'
    <3>1. buf = Range(a + 1, m) /\ EndsNal(a) /\ \A k \in (a + 1)..m : ~EndsNal(k)
      BY <1>3, <2>3 DEF OpenAt
    <3>2. a + 1 \in Nat /\ a + 1 <= m + 1
      BY <1>3
    <3>3. buf' = Range(a + 1, m + 1)
      BY <1>1, <1>3, <3>1, <3>2, RangeAppend, Zenon
    <3>4. ~EndsNal(m + 1)'
      BY <1>1, <1>3, EndsAppended
    <3>5. \A k \in (a + 1)..(m + 1) : k = m + 1 \/ (k \in 0..m /\ k \in (a + 1)..m)
      BY <1>3
    <3>6. EndsNal(a)' /\ \A k \in (a + 1)..(m + 1) : ~EndsNal(k)'
      BY <1>3, <3>1, <3>4, <3>5
    <3>7. buf' = Range(a + 1, Len(stream'))
      BY <1>3, <3>3
    <3> QED
      BY <1>3, <3>6, <3>7 DEF OpenAt, Range
  <2>5. a \in 0..Len(stream')
    BY <1>3
  <2> QED
    BY <1>4, <2>1, <2>2, <2>4, <2>5 DEF OnlyWholeNals, OpenAt
<1>9. ParameterInv' /\ ExtradataInv'
  BY <1>1, <1>2, <1>3, <1>4 DEF ParameterInv, LatestIs, ExtradataInv, KindOf
<1>10. WrittenIffParametersKnown'
  <2>1. \A nal \in Nals : nal # <<>>
    BY <1>2, NalFacts
  <2>2. \A nal \in Nals : (\E i \in 1..Len(calls') : calls'[i] = nal)
                             <=> \E i \in 1..Len(calls) : calls[i] = nal
    BY <1>7, <2>1
  <2> QED
    BY <1>2, <1>3, <1>4, <2>2 DEF WrittenIffParametersKnown, KindOf
<1>11. /\ Len(freed) \in Nat /\ Len(freed') = Len(freed) + 1 /\ freed'[Len(freed) + 1] = Data(m + 1)
       /\ \A i \in 1..Len(freed) : freed'[i] = freed[i]
       /\ freed' \in Seq({Data(k) : k \in Nat} \cup {Copy(s) : s \in Seq(Nat)})
  <2>1. Data(m + 1) \in {Data(k) : k \in Nat} \cup {Copy(s) : s \in Seq(Nat)}
    BY <1>3
  <2>2. freed \in Seq({Data(k) : k \in Nat} \cup {Copy(s) : s \in Seq(Nat)})
    BY <1>2 DEF FreedInv
  <2>3. freed' = Append(freed, Data(m + 1))
    BY <1>1, <1>3
  <2> QED
    BY <2>1, <2>2, <2>3
<1>12. FreedInv'
  <2>1. ASSUME NEW i \in 1..Len(freed')
        PROVE  \/ \E k \in 1..(m + 1) : freed'[i] = Data(k) /\ ~EndsNal(k)'
               \/ \E s \in Nals : freed'[i] = Copy(s) /\ (returned \/ s \notin {sps, pps})
    <3>1. CASE i = Len(freed) + 1
      <4>1. ~EndsNal(m + 1)' /\ m + 1 \in 1..(m + 1)
        BY <1>1, <1>3, EndsAppended
      <4> QED
        BY <1>11, <3>1, <4>1
    <3>2. CASE i \in 1..Len(freed)
      <4>1. \/ \E k \in 1..m : freed[i] = Data(k) /\ ~EndsNal(k)
            \/ \E s \in Nals : freed[i] = Copy(s) /\ (returned \/ s \notin {sps, pps})
        BY <1>2, <1>3, <3>2 DEF FreedInv
      <4>2. \A k \in 1..m : k \in 1..(m + 1) /\ (EndsNal(k)' <=> EndsNal(k))
        BY <1>3
      <4> QED
        BY <1>11, <3>2, <4>1, <4>2
    <3> QED
      BY <1>11, <3>1, <3>2
  <2> QED
    BY <1>1, <1>3, <1>4, <1>11, <2>1 DEF FreedInv, Data, Copy
<1>13. FreedOnce'
  <2>1. \A i \in 1..Len(freed) : \/ \E k \in 1..m : freed[i] = Data(k)
                                 \/ \E s : freed[i] = Copy(s)
    BY <1>2, <1>3 DEF FreedInv
  <2>2. \A k \in 1..m : k # m + 1
    BY <1>3
  <2>3. \A i \in 1..Len(freed) : freed[i] # Data(m + 1)
    BY <2>1, <2>2, BlocksApart, Zenon
  <2> QED
    BY <1>2, <1>11, <2>3 DEF FreedOnce
<1>14. LiveInv'
  <2>1. Muxed' = Muxed
    <3>1. \A e : e \in Muxed' <=> \E i \in 1..Len(calls') : calls'[i] # <<>> /\ e = BlockOf(calls'[i])
      BY DEF Muxed, BlockOf, Data, Buf
    <3>2. \A e : e \in Muxed <=> \E i \in 1..Len(calls) : calls[i] # <<>> /\ e = BlockOf(calls[i])
      BY DEF Muxed
    <3> QED
      BY <1>7, <3>1, <3>2
  <2>2. Blocks' = Blocks /\ Lasts' = Lasts
    BY <1>4 DEF Blocks, Lasts, BlockOf, Data, Buf
  <2>3. HeldSets' = HeldSets
    BY <1>1 DEF HeldSets, Copy
  <2>4. HeldBuf' = IF buf = <<>> THEN {Buf(m + 1)} ELSE HeldBuf
    <3>1. buf' # <<>> /\ buf'[1] = IF buf = <<>> THEN m + 1 ELSE buf[1]
      BY <1>1, <1>3, <1>5
    <3> QED
      BY <3>1 DEF HeldBuf, Buf
  <2>5. buf = <<>> => HeldBuf = {}
    BY DEF HeldBuf
  <2>6. live = (HeldBuf \cup HeldSets) \cup ((Blocks \ Muxed) \cup Lasts)
    BY <1>2 DEF LiveInv
  <2>7. live' = (HeldBuf' \cup HeldSets') \cup ((Blocks' \ Muxed') \cup Lasts')
    BY <1>1, <1>3, <2>1, <2>2, <2>3, <2>4, <2>5, <2>6
  <2> QED
    BY <2>7 DEF LiveInv
<1> QED
  BY <1>3, <1>6, <1>8, <1>9, <1>10, <1>12, <1>13, <1>14 DEF IInv
\* Written, with both parameter sets complete.
LEMMA WrittenNew ==
  ASSUME TypeOK, LengthInv, ParameterInv
  PROVE  flush_framebuf <=> \A t \in {SPS, PPS} : \E set \in Nals : KindOf(set) = t
<1>1. \A nal \in Nals : nal # <<>>
  BY NalFacts
<1> QED
  BY <1>1 DEF flush_framebuf, ParameterInv, LatestIs

LEMMA Keep_write_end ==
  ASSUME IInv, ~returned, Len(stream) < MaxPackets, NEW p \in Packets, write_end(p)
  PROVE  IInv'
<1>1. PICK d : d = Append(buf, n)
  OBVIOUS
<1> DEFINE written == flush_framebuf /\ ~IsParameterSet(d)
           old == OldCopy(d)
<1>2. /\ p.end_of_nal /\ stream' = Append(stream, p) /\ buf' = <<>>
      /\ extract_pps_ssp_packet(d)
      /\ calls' = IF written THEN Append(calls, d) ELSE calls
      /\ live' = ((live \cup {Data(n)}) \cup (IF IsParameterSet(d) THEN {Copy(d)} ELSE {}))
                   \ ({old[k] : k \in 1..Len(old)} \cup (IF written THEN {BlockOf(d)} ELSE {}))
      /\ freed' = freed \o old
      /\ returned' = returned
  BY <1>1 DEF write_end, EndOfNal
<1>3. /\ TypeOK /\ LengthInv /\ OnlyWholeNals /\ ParameterInv /\ ExtradataInv
      /\ WrittenIffParametersKnown /\ FreedInv /\ FreedOnce /\ LiveInv
  BY DEF IInv
<1>4. PICK m \in Nat :
        /\ m = Len(stream) /\ n = m + 1 /\ stream \in Seq(Packets) /\ stream' \in Seq(Packets)
        /\ Len(stream') = m + 1 /\ m + 1 \in Numbers /\ LengthInv'
        /\ \A nal \in Nals : stream'[nal[1]] = stream[nal[1]]
        /\ \A k \in 0..m : EndsNal(k)' <=> EndsNal(k)
  BY <1>2, <1>3, PacketAdded
<1>5. NewUnit(d)
  BY <1>1, <1>3, NewUnitIs
<1>6. Nals' = Nals \cup {d}
  <2>1. PICK a \in 0..Len(stream) : OpenAt(a)
    BY <1>3 DEF OnlyWholeNals, OpenAt
  <2> QED
    BY <1>1, <1>2, <1>4, <2>1, UnitAdded
<1>7. TypeOf(d) \in {SPS, PPS, "slice"} /\ (IsParameterSet(d) <=> TypeOf(d) # "slice")
      /\ SPS # PPS /\ SPS # "slice" /\ PPS # "slice"
  <2>1. d[1] \in 1..(m + 1)
    BY <1>4, <1>5 DEF NewUnit
  <2>2. stream'[d[1]] \in Packets
    BY <1>4, <2>1
  <2> QED
    BY <2>2 DEF TypeOf, IsParameterSet, Packets, SPS, PPS
<1>8. /\ d \in Seq(Numbers) /\ d # <<>> /\ d \notin Nals /\ \A nal \in Nals : nal[1] < d[1]
  BY <1>5 DEF NewUnit
\* The parameter sets.
<1>9. /\ sps' = IF TypeOf(d) = SPS THEN d ELSE sps
      /\ pps' = IF TypeOf(d) = PPS THEN d ELSE pps
  BY <1>2, <1>7 DEF extract_pps_ssp_packet
<1>10. ExtradataInv'
  <2>1. CASE IsParameterSet(d)
    BY <1>2, <2>1 DEF extract_pps_ssp_packet, init_stream_extra_data, ExtradataInv
  <2>2. CASE ~IsParameterSet(d)
    BY <1>2, <1>3, <2>2 DEF extract_pps_ssp_packet, ExtradataInv
  <2> QED
    BY <2>1, <2>2
<1>11. ParameterInv'
  <2>1. \A nal \in Nals : nal[1] \in Nat /\ d[1] \in Nat
    BY <1>3, <1>4, <1>5, NalFacts DEF NewUnit, Numbers
  <2>2. LatestIs(sps, SPS)'
    <3>1. CASE TypeOf(d) = SPS
      <4>1. sps' = d
        BY <1>9, <3>1
      <4>2. \A nal \in Nals \cup {d} : nal[1] <= d[1]
        BY <1>4, <1>5, <1>8, <2>1 DEF NewUnit
      <4> QED
        BY <1>6, <3>1, <4>1, <4>2 DEF LatestIs, KindOf, TypeOf
    <3>2. CASE TypeOf(d) # SPS
      <4>1. sps' = sps
        BY <1>9, <3>2
      <4> QED
        BY <1>3, <1>4, <1>6, <3>2, <4>1 DEF ParameterInv, LatestIs, KindOf, TypeOf, SPS
    <3> QED
      BY <3>1, <3>2
  <2>3. LatestIs(pps, PPS)'
    <3>1. CASE TypeOf(d) = PPS
      <4>1. pps' = d
        BY <1>9, <3>1
      <4>2. \A nal \in Nals \cup {d} : nal[1] <= d[1]
        BY <1>4, <1>5, <1>8, <2>1 DEF NewUnit
      <4> QED
        BY <1>6, <3>1, <4>1, <4>2 DEF LatestIs, KindOf, TypeOf
    <3>2. CASE TypeOf(d) # PPS
      <4>1. pps' = pps
        BY <1>9, <3>2
      <4> QED
        BY <1>3, <1>4, <1>6, <3>2, <4>1 DEF ParameterInv, LatestIs, KindOf, TypeOf, PPS
    <3> QED
      BY <3>1, <3>2
  <2> QED
    BY <2>2, <2>3 DEF ParameterInv
\* The muxer.
<1>12. /\ calls \in Seq(Seq(Numbers)) /\ calls' \in Seq(Seq(Numbers)) /\ Len(calls) \in Nat
       /\ Len(calls') \in Nat
       /\ \A i \in 1..Len(calls') : \/ i \in 1..Len(calls) /\ calls'[i] = calls[i]
                                    \/ i = Len(calls) + 1 /\ calls'[i] = d /\ written
       /\ \A i \in 1..Len(calls) : i \in 1..Len(calls') /\ calls'[i] = calls[i]
       /\ written => \E i \in 1..Len(calls') : calls'[i] = d
  <2>1. calls \in Seq(Seq(Numbers))
    BY <1>3 DEF TypeOK
  <2> HIDE DEF written
  <2>2. CASE written
    BY <1>2, <1>8, <2>1, <2>2
  <2>3. CASE ~written
    BY <1>2, <2>1, <2>3
  <2> QED
    BY <2>2, <2>3
<1> HIDE DEF written
<1>13. OnlyWholeNals'
  <2>1. \A i \in 1..Len(calls') : calls'[i] = <<>> \/ calls'[i] \in Nals \cup {d}
    BY <1>3, <1>12 DEF OnlyWholeNals
  <2>2. \A i, j \in 1..Len(calls') :
          i < j /\ calls'[i] # <<>> /\ calls'[j] # <<>> => calls'[i][1] < calls'[j][1]
    <3> SUFFICES ASSUME NEW i \in 1..Len(calls'), NEW j \in 1..Len(calls'), i < j,
                        calls'[i] # <<>>, calls'[j] # <<>>
                 PROVE  calls'[i][1] < calls'[j][1]
      OBVIOUS
    <3>1. i \in 1..Len(calls) /\ calls'[i] = calls[i] /\ calls[i] \in Nals
      <4>1. j \in 1..Len(calls) \/ j = Len(calls) + 1
        BY <1>12
      <4>2. i # Len(calls) + 1
        BY <1>12, <4>1
      <4>3. i \in 1..Len(calls) /\ calls'[i] = calls[i]
        BY <1>12, <4>2
      <4> QED
        BY <1>3, <4>3 DEF OnlyWholeNals
    <3>2. CASE calls'[j] = d
      BY <1>8, <3>1, <3>2
    <3>3. CASE j \in 1..Len(calls) /\ calls'[j] = calls[j]
      BY <1>3, <3>1, <3>3 DEF OnlyWholeNals
    <3> QED
      BY <1>12, <3>2, <3>3
  <2>3. OpenAt(m + 1)'
    <3>1. Range((m + 1) + 1, m + 1) = <<>>
      BY <1>4, EmptyRange
    <3>2. EndsNal(m + 1)'
      BY <1>2, <1>4, EndsAppended
    <3>3. \A k \in ((m + 1) + 1)..(m + 1) : FALSE
      BY <1>4
    <3> QED
      BY <1>2, <1>4, <3>1, <3>2, <3>3 DEF OpenAt, Range
  <2>4. m + 1 \in 0..Len(stream')
    BY <1>4
  <2> QED
    BY <1>6, <2>1, <2>2, <2>3, <2>4 DEF OnlyWholeNals, OpenAt
<1>14. WrittenIffParametersKnown'
  <2>1. \A i \in 1..Len(calls) : calls[i] # d
    BY <1>3, <1>8 DEF OnlyWholeNals
  <2>2. /\ \A nal \in Nals : (\E i \in 1..Len(calls') : calls'[i] = nal)
                                <=> \E i \in 1..Len(calls) : calls[i] = nal
        /\ (\E i \in 1..Len(calls') : calls'[i] = d) <=> written
    BY <1>8, <1>12, <2>1
  <2>3. ASSUME NEW nal \in Nals, NEW t
        PROVE  (\E set \in Nals' : set[1] < nal[1] /\ KindOf(set)' = t)
                 <=> \E set \in Nals : set[1] < nal[1] /\ KindOf(set) = t
    <3>1. ~(d[1] < nal[1])
      <4>1. nal[1] \in Nat /\ d[1] \in Nat /\ nal[1] < d[1]
        BY <1>3, <1>4, <1>5, NalFacts DEF NewUnit
      <4> QED
        BY <4>1
    <3> QED
      BY <1>4, <1>6, <3>1 DEF KindOf
  <2>4. written <=> /\ KindOf(d)' = "slice"
                    /\ \A t \in {SPS, PPS} : \E set \in Nals' : set[1] < d[1] /\ KindOf(set)' = t
    <3>1. written <=> TypeOf(d) = "slice" /\ \A t \in {SPS, PPS} : \E set \in Nals : KindOf(set) = t
      BY <1>3, <1>7, WrittenNew DEF written
    <3>2. ~(d[1] < d[1])
      BY <1>4, <1>5 DEF NewUnit
    <3>3. ASSUME NEW t
          PROVE  (\E set \in Nals' : set[1] < d[1] /\ KindOf(set)' = t) <=> \E set \in Nals : KindOf(set) = t
      BY <1>4, <1>6, <1>8, <3>2 DEF KindOf
    <3> QED
      BY <3>1, <3>3 DEF KindOf, TypeOf
  <2>5. ASSUME NEW nal \in Nals
        PROVE  (\E i \in 1..Len(calls') : calls'[i] = nal) <=>
                 /\ KindOf(nal)' = "slice"
                 /\ \A t \in {SPS, PPS} : \E set \in Nals' : set[1] < nal[1] /\ KindOf(set)' = t
    <3>1. KindOf(nal)' = KindOf(nal)
      BY <1>4 DEF KindOf
    <3>2. (\E i \in 1..Len(calls) : calls[i] = nal) <=>
             /\ KindOf(nal) = "slice"
             /\ \A t \in {SPS, PPS} : \E set \in Nals : set[1] < nal[1] /\ KindOf(set) = t
      BY <1>3 DEF WrittenIffParametersKnown
    <3> QED
      BY <2>2, <2>3, <3>1, <3>2
  <2>6. ASSUME NEW nal \in Nals'
        PROVE  (\E i \in 1..Len(calls') : calls'[i] = nal) <=>
                 /\ KindOf(nal)' = "slice"
                 /\ \A t \in {SPS, PPS} : \E set \in Nals' : set[1] < nal[1] /\ KindOf(set)' = t
    <3>1. nal \in Nals \/ nal = d
      BY <1>6
    <3> QED
      BY <2>2, <2>4, <2>5, <3>1 DEF KindOf
  <2> QED
    BY <2>6 DEF WrittenIffParametersKnown, KindOf, SPS, PPS
\* Memory.
<1>15. \/ old = <<>> /\ (TypeOf(d) = SPS => sps = <<>>) /\ (TypeOf(d) = PPS => pps = <<>>)
       \/ old = <<Copy(sps)>> /\ TypeOf(d) = SPS /\ sps # <<>>
       \/ old = <<Copy(pps)>> /\ TypeOf(d) = PPS /\ pps # <<>>
  BY <1>7 DEF OldCopy, CopyOf
<1> HIDE DEF old
<1>16. /\ (sps = <<>> \/ sps \in Nals) /\ (pps = <<>> \/ pps \in Nals)
       /\ sps = pps => sps = <<>>
  <2>1. \A nal \in Nals : nal # <<>>
    BY <1>3, NalFacts
  <2> QED
    BY <1>3, <1>7, <2>1 DEF ParameterInv, LatestIs
<1>17. \/ old = <<>>
       \/ \E s \in Nals : old = <<Copy(s)>> /\ s \in {sps, pps} /\ s \notin {sps', pps'}
  BY <1>7, <1>8, <1>9, <1>15, <1>16
<1>18. /\ freed \in Seq({Data(k) : k \in Nat} \cup {Copy(s) : s \in Seq(Nat)}) /\ Len(freed) \in Nat
       /\ \A i \in 1..Len(freed) :
            \/ \E k \in 1..m : freed[i] = Data(k) /\ ~EndsNal(k)
            \/ \E s \in Nals : freed[i] = Copy(s) /\ s \notin {sps, pps}
  <2>1. freed \in Seq({Data(k) : k \in Nat} \cup {Copy(s) : s \in Seq(Nat)})
    BY <1>3 DEF FreedInv
  <2>2. Len(freed) \in Nat
    BY <2>1
  <2>3. \A i \in 1..Len(freed) :
          \/ \E k \in 1..Len(stream) : freed[i] = Data(k) /\ ~EndsNal(k)
          \/ \E s \in Nals : freed[i] = Copy(s) /\ (returned \/ s \notin {sps, pps})
    BY <1>3, Zenon DEF FreedInv
  <2> QED
    BY <1>4, <2>1, <2>2, <2>3, Zenon
<1>19. ASSUME NEW i \in 1..Len(freed)
       PROVE  \/ \E k \in 1..(m + 1) : freed[i] = Data(k) /\ ~EndsNal(k)'
              \/ \E s \in Nals' : freed[i] = Copy(s) /\ s \notin {sps', pps'}
  <2>1. ASSUME NEW k \in 1..m, freed[i] = Data(k), ~EndsNal(k)
        PROVE  \E l \in 1..(m + 1) : freed[i] = Data(l) /\ ~EndsNal(l)'
    <3>1. k \in 1..(m + 1) /\ k \in 0..m
      BY <1>4
    <3> QED
      BY <1>4, <2>1, <3>1
  <2>2. ASSUME NEW s \in Nals, freed[i] = Copy(s), s \notin {sps, pps}
        PROVE  \E u \in Nals' : freed[i] = Copy(u) /\ u \notin {sps', pps'}
    BY <1>6, <1>8, <1>9, <2>2
  <2> QED
    BY <1>18, <2>1, <2>2
<1>20. FreedInv' /\ FreedOnce'
  <2>1. CASE old = <<>>
    <3>1. freed' = freed
      BY <1>2, <1>18, <2>1
    <3> QED
      BY <1>2, <1>3, <1>4, <1>18, <1>19, <3>1 DEF FreedInv, FreedOnce, Data, Copy
  <2>2. CASE old # <<>>
    <3>1. PICK s \in Nals : old = <<Copy(s)>> /\ s \in {sps, pps} /\ s \notin {sps', pps'}
      BY <1>17, <2>2
    <3>2. Copy(s) \in {Data(k) : k \in Nat} \cup {Copy(u) : u \in Seq(Nat)}
      <4>1. s \in Seq(Nat)
        <5>1. s \in Seq(Numbers)
          BY <1>3, NalFacts
        <5>2. \A e \in Numbers : e \in Nat
          BY DEF Numbers
        <5>3. Len(s) \in Nat /\ \A i \in 1..Len(s) : s[i] \in Nat
          BY <5>1, <5>2
        <5>4. s = [i \in 1..Len(s) |-> s[i]]
          BY <5>1
        <5> QED
          BY <5>3, <5>4
      <4> QED
        BY <4>1
    <3>3. /\ freed' \in Seq({Data(k) : k \in Nat} \cup {Copy(u) : u \in Seq(Nat)})
          /\ Len(freed') = Len(freed) + 1 /\ freed'[Len(freed) + 1] = Copy(s)
          /\ \A i \in 1..Len(freed) : freed'[i] = freed[i]
      <4>1. freed' = freed \o <<Copy(s)>>
        BY <1>2, <3>1
      <4> QED
        BY <1>18, <3>2, <4>1
    <3>4. \A i \in 1..Len(freed) : freed[i] # Copy(s)
      BY <1>18, <3>1, BlocksApart
    <3>5. FreedOnce'
      BY <1>3, <1>18, <3>3, <3>4 DEF FreedOnce
    <3>6. s \in Nals'
      BY <1>6
    <3>7. ASSUME NEW i \in 1..Len(freed')
          PROVE  \/ \E k \in 1..(m + 1) : freed'[i] = Data(k) /\ ~EndsNal(k)'
                 \/ \E u \in Nals' : freed'[i] = Copy(u) /\ u \notin {sps', pps'}
      <4>1. CASE i = Len(freed) + 1
        BY <3>1, <3>3, <3>6, <4>1
      <4>2. CASE i \in 1..Len(freed)
        BY <1>19, <3>3, <4>2
      <4> QED
        BY <1>18, <3>3, <4>1, <4>2
    <3> QED
      BY <1>2, <1>4, <3>3, <3>5, <3>7 DEF FreedInv, Data, Copy
  <2> QED
    BY <2>1, <2>2
<1> DEFINE R == {old[k] : k \in 1..Len(old)}
           C == IF IsParameterSet(d) THEN {Copy(d)} ELSE {}
           W == IF written THEN {BlockOf(d)} ELSE {}
<1>21. R = IF old = <<>> THEN {} ELSE {old[1]}
  BY <1>17
<1>22. HeldSets' = (HeldSets \ R) \cup C
  <2>1. /\ HeldSets = {Copy(s) : s \in {sps, pps} \ {<<>>}}
        /\ HeldSets' = {Copy(s) : s \in {sps', pps'} \ {<<>>}}
    BY <1>2 DEF HeldSets, Copy
  <2> HIDE DEF R
  <2>2. CASE TypeOf(d) = SPS
    <3>1. sps' = d /\ pps' = pps /\ C = {Copy(d)}
      BY <1>7, <1>9, <2>2
    <3>2. R = IF sps = <<>> THEN {} ELSE {Copy(sps)}
      <4>1. CASE sps = <<>>
        BY <1>7, <1>15, <1>21, <2>2, <4>1
      <4>2. CASE sps # <<>>
        <5>1. old = <<Copy(sps)>>
          BY <1>7, <1>15, <2>2, <4>2
        <5>2. old # <<>> /\ old[1] = Copy(sps)
          BY <5>1
        <5> QED
          BY <1>21, <4>2, <5>2
      <4> QED
        BY <4>1, <4>2
    <3> QED
      BY <1>8, <1>16, <2>1, <3>1, <3>2, BlocksApart
  <2>3. CASE TypeOf(d) = PPS
    <3>1. pps' = d /\ sps' = sps /\ C = {Copy(d)}
      BY <1>7, <1>9, <2>3
    <3>2. R = IF pps = <<>> THEN {} ELSE {Copy(pps)}
      <4>1. CASE pps = <<>>
        BY <1>7, <1>15, <1>21, <2>3, <4>1
      <4>2. CASE pps # <<>>
        <5>1. old = <<Copy(pps)>>
          BY <1>7, <1>15, <2>3, <4>2
        <5>2. old # <<>> /\ old[1] = Copy(pps)
          BY <5>1
        <5> QED
          BY <1>21, <4>2, <5>2
      <4> QED
        BY <4>1, <4>2
    <3> QED
      BY <1>8, <1>16, <2>1, <3>1, <3>2, BlocksApart
  <2>4. CASE TypeOf(d) = "slice"
    <3>1. pps' = pps /\ sps' = sps /\ C = {}
      BY <1>7, <1>9, <2>4
    <3>2. R = {}
      BY <1>7, <1>15, <1>21, <2>4
    <3> QED
      BY <2>1, <3>1, <3>2
  <2> QED
    BY <1>7, <2>2, <2>3, <2>4
<1>23. /\ \A e \in R : \E s \in Nals : e = Copy(s)
       /\ \A e \in C : e = Copy(d)
       /\ \A e \in HeldSets : \E s : e = Copy(s)
  <2>1. \A e \in R : \E s \in Nals : e = Copy(s)
    BY <1>17, <1>21
  <2>2. \A e \in HeldSets : \E s : e = Copy(s)
    BY DEF HeldSets
  <2> QED
    BY <2>1, <2>2
<1>24. Muxed' = Muxed \cup W
  <2>1. \A e : e \in Muxed' <=> \E i \in 1..Len(calls') : calls'[i] # <<>> /\ e = BlockOf(calls'[i])
    BY DEF Muxed, BlockOf, Data, Buf
  <2>2. \A e : e \in Muxed <=> \E i \in 1..Len(calls) : calls[i] # <<>> /\ e = BlockOf(calls[i])
    BY DEF Muxed
  <2>3. \A e : e \in W <=> written /\ e = BlockOf(d)
    OBVIOUS
  <2> HIDE DEF W
  <2>4. ASSUME NEW e PROVE e \in Muxed' <=> e \in Muxed \/ e \in W
    <3>1. ASSUME e \in Muxed' PROVE e \in Muxed \/ e \in W
      <4>1. PICK i \in 1..Len(calls') : calls'[i] # <<>> /\ e = BlockOf(calls'[i])
        BY <2>1, <3>1
      <4> QED
        BY <1>12, <2>2, <2>3, <4>1
    <3>2. ASSUME e \in Muxed PROVE e \in Muxed'
      BY <1>12, <2>1, <2>2, <3>2
    <3>3. ASSUME e \in W PROVE e \in Muxed'
      <4>1. PICK i \in 1..Len(calls') : calls'[i] = d /\ e = BlockOf(d)
        BY <1>12, <2>3, <3>3
      <4> QED
        BY <1>8, <2>1, <4>1
    <3> QED
      BY <3>1, <3>2, <3>3
  <2> QED
    BY <2>4
<1>25. Blocks' = Blocks \cup {BlockOf(d)}
  BY <1>6 DEF Blocks, BlockOf, Data, Buf
<1>26. Lasts' = Lasts \cup (IF Len(d) > 1 THEN {Data(m + 1)} ELSE {})
  <2>1. d[Len(d)] = m + 1
    BY <1>4, <1>5 DEF NewUnit
  <2> QED
    BY <1>6, <2>1 DEF Lasts, Data
<1>27. HeldBuf' = {}
  BY <1>2 DEF HeldBuf
<1>28. /\ \A e \in Blocks : \E nal \in Nals : e = Data(nal[1]) \/ e = Buf(nal[1])
       /\ \A e \in Lasts : \E nal \in Nals : e = Data(nal[Len(nal)])
       /\ Muxed \subseteq Blocks
  BY <1>3 DEF Blocks, Lasts, Muxed, BlockOf, OnlyWholeNals
<1>29. \A nal \in Nals : nal[1] # m + 1 /\ nal[Len(nal)] # m + 1 /\ nal[1] # d[1]
  <2> TAKE nal \in Nals
  <2>1. nal[1] \in 1..m /\ nal[Len(nal)] \in 1..m /\ nal[1] < d[1] /\ d[1] \in Nat
    BY <1>3, <1>4, <1>5, NalFacts DEF NewUnit
  <2> QED
    BY <1>4, <2>1
<1>30. Data(m + 1) \notin Blocks \cup Lasts \cup HeldBuf \cup HeldSets \cup R \cup C
  <2> HIDE DEF R, C
  <2>1. Data(m + 1) \notin HeldBuf
    BY BlocksApart DEF HeldBuf
  <2>2. ASSUME Data(m + 1) \in Blocks PROVE FALSE
    <3>1. PICK nal \in Nals : Data(m + 1) = Data(nal[1]) \/ Data(m + 1) = Buf(nal[1])
      BY <1>28, <2>2, Zenon
    <3>2. m + 1 = nal[1]
      BY <3>1, BlocksApart, Zenon
    <3> QED
      BY <1>29, <3>2, Zenon
  <2>3. Data(m + 1) \notin Lasts
    BY <1>28, <1>29, BlocksApart, Zenon
  <2>4. Data(m + 1) \notin HeldSets /\ Data(m + 1) \notin R /\ Data(m + 1) \notin C
    BY <1>23, BlocksApart, Zenon
  <2> QED
    BY <2>1, <2>2, <2>3, <2>4
<1>31. /\ R \cap (Blocks \cup Lasts \cup HeldBuf) = {} /\ C \cap (Blocks \cup Lasts \cup HeldBuf \cup R) = {}
  <2>1. \A e \in HeldBuf : \E k : e = Buf(k)
    BY DEF HeldBuf
  <2>2. \A s \in Nals : s # d
    BY <1>8
  <2> HIDE DEF R, C
  <2>3. ASSUME NEW s PROVE Copy(s) \notin Blocks \cup Lasts \cup HeldBuf
    <3>1. Copy(s) \notin Blocks
      BY <1>28, BlocksApart, Zenon
    <3>2. Copy(s) \notin Lasts
      BY <1>28, BlocksApart, Zenon
    <3>3. Copy(s) \notin HeldBuf
      BY <2>1, BlocksApart, Zenon
    <3> QED
      BY <3>1, <3>2, <3>3
  <2>4. ASSUME NEW e \in R PROVE e \notin C
    BY <1>23, <2>2, <2>4, BlocksApart, Zenon
  <2>5. ASSUME NEW e \in R \cup C PROVE \E s : e = Copy(s)
    BY <1>23, <2>5
  <2> QED
    BY <2>3, <2>4, <2>5
<1>32. live = (HeldBuf \cup HeldSets) \cup ((Blocks \ Muxed) \cup Lasts)
  BY <1>3 DEF LiveInv
<1>33. live' = ((live \cup {Data(m + 1)}) \cup C) \ (R \cup W)
  BY <1>2, <1>4 DEF old, written
<1>34. W \subseteq {BlockOf(d)}
  OBVIOUS
<1> HIDE DEF R, C, W
<1>35. LiveInv'
  <2>1. PICK l \in Nat : l = Len(d) /\ l >= 1
    BY <1>5 DEF NewUnit
  <2>2. CASE l = 1
    <3>1. BlockOf(d) = Data(m + 1) /\ HeldBuf = {}
      BY <1>4, <1>5, <2>2, <2>1 DEF BlockOf, NewUnit, HeldBuf
    <3>2. Lasts' = Lasts
      <4>1. ~(l > 1)
        BY <2>2
      <4>2. Lasts' = Lasts \cup {}
        BY <1>26, <2>1, <4>1, Zenon
      <4> QED
        BY <4>2
    <3>3. live' = (HeldBuf' \cup HeldSets') \cup ((Blocks' \ Muxed') \cup Lasts')
      BY <1>22, <1>24, <1>25, <1>27, <1>28, <1>30, <1>31, <1>32, <1>33, <1>34, <3>1, <3>2
    <3> QED
      BY <3>3 DEF LiveInv
  <2>3. CASE l > 1
    <3>1. buf # <<>> /\ d[1] = buf[1] /\ Len(d) # 1
      BY <1>5, <2>3, <2>1 DEF NewUnit
    <3>2. BlockOf(d) = Buf(d[1]) /\ HeldBuf = {BlockOf(d)}
      BY <3>1, Zenon DEF BlockOf, HeldBuf
    <3>3. Lasts' = Lasts \cup {Data(m + 1)}
      BY <1>26, <2>3, <2>1
    <3>4. BlockOf(d) \notin Blocks \cup Lasts \cup HeldSets /\ BlockOf(d) # Data(m + 1)
      <4>1. BlockOf(d) = Buf(d[1])
        BY <3>2
      <4>2. ASSUME Buf(d[1]) \in Blocks PROVE FALSE
        <5>1. PICK nal \in Nals : Buf(d[1]) = Data(nal[1]) \/ Buf(d[1]) = Buf(nal[1])
          BY <1>28, <4>2, Zenon
        <5>2. d[1] = nal[1]
          BY <5>1, BlocksApart, Zenon
        <5> QED
          BY <1>29, <5>2, Zenon
      <4>3. Buf(d[1]) \notin Lasts
        BY <1>28, BlocksApart, Zenon
      <4>4. Buf(d[1]) \notin HeldSets /\ Buf(d[1]) # Data(m + 1)
        BY <1>23, BlocksApart, Zenon
      <4> QED
        BY <4>1, <4>2, <4>3, <4>4
    <3>5. live' = (HeldBuf' \cup HeldSets') \cup ((Blocks' \ Muxed') \cup Lasts')
      BY <1>22, <1>24, <1>25, <1>27, <1>28, <1>30, <1>31, <1>32, <1>33, <1>34, <3>2, <3>3, <3>4
    <3> QED
      BY <3>5 DEF LiveInv
  <2>4. l = 1 \/ l > 1
    BY <2>1
  <2> QED
    BY <2>2, <2>3, <2>4
<1>36. TypeOK'
  <2>1. {sps', pps'} \subseteq Seq(Numbers) /\ buf' \in Seq(Numbers)
    BY <1>2, <1>3, <1>8, <1>9 DEF TypeOK
  <2>2. extradata' \in Seq(Numbers)
    <3>1. sps' \o pps' \in Seq(Numbers) /\ <<>> \in Seq(Numbers)
      BY <2>1
    <3> QED
      BY <1>10, <3>1 DEF ExtradataInv
  <2>3. live' \subseteq {Data(k) : k \in Numbers} \cup {Buf(k) : k \in Numbers} \cup {Copy(sps'), Copy(pps')}
    <3>1. HeldSets' \subseteq {Copy(sps'), Copy(pps')}
      BY DEF HeldSets, Copy
    <3>2. Data(m + 1) \in {Data(k) : k \in Numbers}
      BY <1>4
    <3>3. C \subseteq HeldSets'
      BY <1>22
    <3>4. HeldSets \ R \subseteq HeldSets'
      BY <1>22
    <3>5. HeldBuf \cup Blocks \cup Lasts \subseteq {Data(k) : k \in Numbers} \cup {Buf(k) : k \in Numbers}
      <4>1. \A nal \in Nals : nal[1] \in Numbers /\ nal[Len(nal)] \in Numbers
        BY <1>3, NalFacts
      <4>2. Blocks \cup Lasts \subseteq {Data(k) : k \in Numbers} \cup {Buf(k) : k \in Numbers}
        BY <1>28, <4>1
      <4>3. buf # <<>> => buf[1] \in Numbers
        BY <1>3 DEF TypeOK
      <4>4. HeldBuf \subseteq {Buf(k) : k \in Numbers}
        BY <4>3 DEF HeldBuf
      <4> QED
        BY <4>2, <4>4
    <3> QED
      BY <1>32, <1>33, <3>1, <3>2, <3>3, <3>4, <3>5
  <2> QED
    BY <1>2, <1>3, <1>4, <1>12, <2>1, <2>2, <2>3 DEF TypeOK, Data, Buf, Copy, Numbers
<1> QED
  BY <1>4, <1>10, <1>11, <1>13, <1>14, <1>20, <1>35, <1>36 DEF IInv
LEMMA Keep_writer_cleanup ==
  ASSUME IInv, ~returned, writer_cleanup
  PROVE  IInv'
<1>1. /\ returned' = TRUE /\ freed' = freed \o CopyOf(pps) \o CopyOf(sps)
      /\ live' = live \ {Copy(pps), Copy(sps)}
      /\ stream' = stream /\ sps' = sps /\ pps' = pps /\ buf' = buf
      /\ extradata' = extradata /\ calls' = calls
  BY DEF writer_cleanup, mux_state
<1>2. /\ TypeOK /\ LengthInv /\ OnlyWholeNals /\ ParameterInv /\ ExtradataInv
      /\ WrittenIffParametersKnown /\ FreedInv /\ FreedOnce /\ LiveInv
  BY DEF IInv
<1>3. Nals' = Nals /\ \A k : EndsNal(k)' <=> EndsNal(k)
  BY <1>1 DEF Nals, IsNal, EndsNal, Range
<1>4. TypeOK' /\ LengthInv'
  BY <1>1, <1>2 DEF TypeOK, LengthInv, Data, Buf, Copy, Numbers
<1>5. OnlyWholeNals'
  BY <1>1, <1>2, <1>3 DEF OnlyWholeNals, EndsNal, Range
<1>6. ParameterInv' /\ ExtradataInv' /\ WrittenIffParametersKnown'
  BY <1>1, <1>2, <1>3 DEF ParameterInv, LatestIs, ExtradataInv, WrittenIffParametersKnown, KindOf, SPS, PPS
<1>7. /\ (sps = <<>> \/ sps \in Nals) /\ (pps = <<>> \/ pps \in Nals)
      /\ sps = pps => sps = <<>>
  <2>1. \A nal \in Nals : nal # <<>>
    BY <1>2, NalFacts
  <2> QED
    BY <1>2, <2>1 DEF ParameterInv, LatestIs, SPS, PPS
\* The copies are freed one after the other, and neither has been freed before.
<1> DEFINE B == {Data(k) : k \in Nat} \cup {Copy(s) : s \in Seq(Nat)}
           Right(f, t) ==
             /\ f \in Seq(B)
             /\ \A i \in 1..Len(f) : \/ \E k \in 1..Len(stream) : f[i] = Data(k) /\ ~EndsNal(k)
                                     \/ \E s \in Nals : f[i] = Copy(s) /\ s \notin t
             /\ \A j, k \in 1..Len(f) : f[j] = f[k] => j = k
<1>8. Right(freed, {sps, pps})
  <2>1. freed \in Seq(B)
    BY <1>2 DEF FreedInv
  <2>2. \A i \in 1..Len(freed) :
          \/ \E k \in 1..Len(stream) : freed[i] = Data(k) /\ ~EndsNal(k)
          \/ \E s \in Nals : freed[i] = Copy(s) /\ (returned \/ s \notin {sps, pps})
    BY <1>2, Zenon DEF FreedInv
  <2>3. \A j, k \in 1..Len(freed) : freed[j] = freed[k] => j = k
    BY <1>2 DEF FreedOnce
  <2> HIDE DEF B
  <2> QED
    BY <2>1, <2>2, <2>3, Zenon
<1>9. ASSUME NEW f, NEW t, NEW u, NEW set, Right(f, t), set \in t, u \subseteq t, set \notin u,
             set = <<>> \/ set \in Nals
      PROVE  Right(f \o CopyOf(set), u)
  <2>1. f \in Seq(B) /\ Len(f) \in Nat
    BY <1>9
  <2>2. ASSUME NEW i \in 1..Len(f)
        PROVE  \/ \E k \in 1..Len(stream) : f[i] = Data(k) /\ ~EndsNal(k)
               \/ \E s \in Nals : f[i] = Copy(s) /\ s \notin u
    BY <1>9, Zenon
  <2>3. CASE set = <<>>
    <3>1. f \o CopyOf(set) = f
      BY <2>1, <2>3 DEF CopyOf
    <3>2. Right(f, u)
      BY <1>9, <2>1, <2>2, Zenon
    <3> QED
      BY <3>1, <3>2
  <2>4. CASE set # <<>>
    <3>1. set \in Nals /\ CopyOf(set) = <<Copy(set)>>
      BY <1>9, <2>4 DEF CopyOf
    <3>2. Copy(set) \in B
      <4>1. set \in Seq(Numbers)
        BY <1>2, <3>1, NalFacts
      <4>2. \A e \in Numbers : e \in Nat
        BY DEF Numbers
      <4>3. Len(set) \in Nat /\ \A i \in 1..Len(set) : set[i] \in Nat
        BY <4>1, <4>2
      <4>4. set = [i \in 1..Len(set) |-> set[i]]
        BY <4>1
      <4>5. set \in Seq(Nat)
        BY <4>3, <4>4
      <4> QED
        BY <4>5
    <3> HIDE DEF B
    <3>3. PICK g : g = f \o CopyOf(set)
      OBVIOUS
    <3>4. /\ g \in Seq(B) /\ Len(g) = Len(f) + 1 /\ g[Len(f) + 1] = Copy(set)
          /\ \A i \in 1..Len(f) : g[i] = f[i]
      <4>1. g = f \o <<Copy(set)>>
        BY <3>1, <3>3
      <4> QED
        BY <2>1, <3>2, <4>1
    <3>5. \A i \in 1..Len(f) : f[i] # Copy(set)
      BY <1>9, BlocksApart, Zenon
    <3>6. \A j, k \in 1..Len(g) : g[j] = g[k] => j = k
      <4>1. \A j, k \in 1..Len(f) : f[j] = f[k] => j = k
        BY <1>9, Zenon
      <4> QED
        BY <2>1, <3>4, <3>5, <4>1
    <3>7. ASSUME NEW i \in 1..Len(g)
          PROVE  \/ \E k \in 1..Len(stream) : g[i] = Data(k) /\ ~EndsNal(k)
                 \/ \E s \in Nals : g[i] = Copy(s) /\ s \notin u
      <4>1. i = Len(f) + 1 \/ i \in 1..Len(f)
        BY <2>1, <3>4
      <4> QED
        BY <1>9, <2>2, <3>1, <3>4, <4>1, Zenon
    <3> QED
      BY <3>3, <3>4, <3>6, <3>7, Zenon
  <2> QED
    BY <2>3, <2>4
<1> HIDE DEF Right
<1>10. Right(freed', {})
  <2>1. CASE pps # sps
    <3>1. Right(freed \o CopyOf(pps), {sps})
      BY <1>7, <1>8, <1>9, <2>1
    <3>2. Right((freed \o CopyOf(pps)) \o CopyOf(sps), {})
      BY <1>7, <1>9, <3>1
    <3> QED
      BY <1>1, <3>2, Zenon
  <2>2. CASE pps = sps
    <3>1. CopyOf(pps) = <<>> /\ CopyOf(sps) = <<>>
      BY <1>7, <2>2 DEF CopyOf
    <3>2. freed \in Seq(B)
      BY <1>8 DEF Right
    <3>3. freed' = freed
      BY <1>1, <3>1, <3>2
    <3>4. Right(freed, {})
      BY <1>8, Zenon DEF Right
    <3> QED
      BY <3>3, <3>4, Zenon
  <2> QED
    BY <2>1, <2>2
<1>11. FreedInv' /\ FreedOnce'
  BY <1>1, <1>3, <1>10 DEF Right, FreedInv, FreedOnce, Data, Copy
<1>12. LiveInv'
  <2>1. Muxed' = Muxed /\ Blocks' = Blocks /\ Lasts' = Lasts /\ HeldBuf' = HeldBuf
    BY <1>1, <1>3 DEF Muxed, Blocks, Lasts, HeldBuf, BlockOf, Data, Buf
  <2>2. HeldSets' = {} /\ HeldSets = {Copy(s) : s \in {sps, pps} \ {<<>>}}
    BY <1>1 DEF HeldSets
  <2>3. HeldSets \subseteq {Copy(pps), Copy(sps)}
    BY <2>2
  <2>4. ASSUME NEW s PROVE Copy(s) \notin HeldBuf \cup Blocks \cup Lasts
    <3>1. Copy(s) \notin HeldBuf
      BY BlocksApart DEF HeldBuf
    <3>2. Copy(s) \notin Blocks
      BY BlocksApart DEF Blocks, BlockOf
    <3>3. Copy(s) \notin Lasts
      BY BlocksApart DEF Lasts
    <3> QED
      BY <3>1, <3>2, <3>3
  <2>5. live = (HeldBuf \cup HeldSets) \cup ((Blocks \ Muxed) \cup Lasts)
    BY <1>2 DEF LiveInv
  <2>6. Copy(sps) \notin HeldBuf \cup Blocks \cup Lasts /\ Copy(pps) \notin HeldBuf \cup Blocks \cup Lasts
    BY <2>4
  <2>7. live' = (HeldBuf' \cup HeldSets') \cup ((Blocks' \ Muxed') \cup Lasts')
    BY <1>1, <2>1, <2>2, <2>3, <2>5, <2>6
  <2> QED
    BY <2>7 DEF LiveInv
<1> QED
  BY <1>4, <1>5, <1>6, <1>11, <1>12 DEF IInv

LEMMA NextIInv == IInv /\ [Next]_vars => IInv'
<1> SUFFICES ASSUME IInv, [Next]_vars PROVE IInv'
  OBVIOUS
<1>1. CASE ~returned /\ Len(stream) < MaxPackets /\ \E p \in Packets : write_video_frame(p)
  BY <1>1, Keep_write_partial, Keep_write_end DEF write_video_frame
<1>2. CASE ~returned /\ writer_cleanup
  BY <1>2, Keep_writer_cleanup
<1>3. CASE UNCHANGED vars
  <2>1. /\ stream' = stream /\ sps' = sps /\ pps' = pps /\ buf' = buf /\ extradata' = extradata
        /\ calls' = calls /\ live' = live /\ freed' = freed /\ returned' = returned
    BY <1>3 DEF vars, mux_state, heap
  <2>2. Nals' = Nals
    BY <2>1 DEF Nals, IsNal, EndsNal, Range
  <2>3. TypeOK' /\ LengthInv'
    BY <2>1 DEF IInv, TypeOK, LengthInv, Data, Buf, Copy, Numbers
  <2>4. OnlyWholeNals'
    BY <2>1, <2>2 DEF IInv, OnlyWholeNals, EndsNal, Range
  <2>5. ParameterInv' /\ ExtradataInv' /\ WrittenIffParametersKnown'
    BY <2>1, <2>2 DEF IInv, ParameterInv, LatestIs, ExtradataInv, WrittenIffParametersKnown, KindOf, SPS, PPS
  <2>6. FreedInv' /\ FreedOnce'
    BY <2>1, <2>2 DEF IInv, FreedInv, FreedOnce, EndsNal, Data, Copy
  <2>7. Muxed' = Muxed /\ Blocks' = Blocks /\ Lasts' = Lasts /\ HeldBuf' = HeldBuf /\ HeldSets' = HeldSets
    BY <2>1, <2>2 DEF Muxed, Blocks, Lasts, HeldBuf, HeldSets, BlockOf, Data, Buf, Copy
  <2>8. LiveInv'
    BY <2>1, <2>7 DEF IInv, LiveInv
  <2> QED
    BY <2>3, <2>4, <2>5, <2>6, <2>8 DEF IInv
<1> QED
  BY <1>1, <1>2, <1>3 DEF Next

-----------------------------------------------------------------------------
(* The theorems *)

\* The inductive invariant: besides the properties, mux_state holds the latest sets, and what is
\* freed is known block by block.
THEOREM InvariantHolds == Spec => []IInv
BY InitIInv, NextIInv, PTL DEF Spec

\* Buffers hold packets of the stream, and no block is live but theirs.
THEOREM TypeCorrect == Spec => []TypeOK
<1>1. IInv => TypeOK
  BY DEF IInv
<1> QED
  BY <1>1, InvariantHolds, PTL

\* write_video_frame passes whole NAL units on, in the order of the stream, however the encoder
\* cuts them and however long the stream is; buf holds the open unit.
THEOREM OnlyWholeNalsHolds == Spec => []OnlyWholeNals
<1>1. IInv => OnlyWholeNals
  BY DEF IInv
<1> QED
  BY <1>1, InvariantHolds, PTL

\* A unit is written exactly if it is a slice and both parameter sets came before it.
THEOREM WrittenIffParametersKnownHolds == Spec => []WrittenIffParametersKnown
<1>1. IInv => WrittenIffParametersKnown
  BY DEF IInv
<1> QED
  BY <1>1, InvariantHolds, PTL

\* The extradata is the latest SPS followed by the latest PPS.
THEOREM ExtradataIsLatestHolds == Spec => []ExtradataIsLatest
<1>1. IInv => ExtradataIsLatest
  <2> SUFFICES ASSUME IInv, NEW x \in Nals, NEW y \in Nals, KindOf(x) = SPS, KindOf(y) = PPS,
                      \A s \in Nals : KindOf(s) = SPS => s[1] <= x[1],
                      \A s \in Nals : KindOf(s) = PPS => s[1] <= y[1]
               PROVE  extradata = x \o y
    BY DEF ExtradataIsLatest
  <2>1. /\ sps \in Nals /\ KindOf(sps) = SPS /\ x[1] <= sps[1]
        /\ pps \in Nals /\ KindOf(pps) = PPS /\ y[1] <= pps[1]
    BY DEF IInv, ParameterInv, LatestIs
  <2>2. \A nal \in Nals : nal # <<>> /\ nal[1] \in Nat
    BY NalFacts DEF IInv
  <2>3. sps[1] = x[1] /\ pps[1] = y[1]
    BY <2>1, <2>2
  <2>4. sps = x /\ pps = y
    BY <2>1, <2>3, NalsApart DEF IInv, TypeOK
  <2>5. extradata = sps \o pps
    BY <2>1, <2>2 DEF IInv, ExtradataInv
  <2> QED
    BY <2>4, <2>5
<1> QED
  BY <1>1, InvariantHolds, PTL

\* write_video_frame and the end of writer_thread free nothing twice and nothing that is in use,
\* and lose exactly the units that are not written and the last pieces of those put together.
THEOREM DataCustodyHolds == Spec => []DataCustody
<1>1. IInv => DataCustody
  BY CustodyHasParts, CustodyIs DEF IInv
<1> QED
  BY <1>1, InvariantHolds, PTL
=============================================================================
