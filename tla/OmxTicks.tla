------------------------------ MODULE OmxTicks ------------------------------
(***************************************************************************)
(* The time stamps of OpenMAX (omx.c): OMX_TICKS is a pair of 32-bit words, *)
(* the PTS of a packet a signed 64-bit number that is converted to an      *)
(* unsigned one when it is passed to pts_to_omx and back when the result   *)
(* of omx_to_pts is stored.  The width of a word is a parameter.           *)
(***************************************************************************)
EXTENDS Integers

CONSTANT Word  \* the number of values of a word, 2^32 in the program

ASSUME WordAssumption == Word \in Nat \ {0} /\ Word % 2 = 0

Int64  == -((Word * Word) \div 2) .. ((Word * Word) \div 2 - 1)
UInt64 == 0 .. (Word * Word - 1)

\* The conversions of C between int64_t and uint64_t.
ToUnsigned(pts) == IF pts < 0 THEN pts + Word * Word ELSE pts
ToSigned(pts)   == IF pts < (Word * Word) \div 2 THEN pts ELSE pts - Word * Word

pts_to_omx(pts) == [nLowPart |-> pts % Word, nHighPart |-> (pts \div Word) % Word]

omx_to_pts(ticks) == ticks.nHighPart * Word + ticks.nLowPart
=============================================================================
