----------------------------- MODULE MCMipsFpu -----------------------------
(* MipsFpu with words of four bits, so that a 32-bit integer is -8 .. 7 and a *)
(* 64-bit one -128 .. 127, and four registers.  The sixteen singles and the   *)
(* doubles lie on halves, just inside and just outside of both ranges.        *)
EXTENDS MipsFpu, Sequences

MCRegs == 0 .. 3
Quarters == <<0, 2, 6, 10, -2, -6, -10, 31, 32, 33, -32, -33, -34, 4000, -4000, NaN>>
MCSingle == [w \in 0 .. 15 |-> Quarters[w + 1]]
Doubles == <<508, 509, 510, 512, -512, -513, -514, -516, 30, 29, -35, 1, -1, 3, 4, NaN>>
MCDouble ==
  [d \in [hi : 0 .. 15, lo : 0 .. 15] |->
     IF d.hi = 15 THEN Doubles[d.lo + 1]
     ELSE IF d.hi = 14 THEN MCSingle[d.lo]
     ELSE 16 * (d.hi - 7) + d.lo]

D(h, l) == [hi |-> h, lo |-> l]
MCFprs == {<<D(15, 0), D(14, 3), D(15, 4), D(2, 15)>>,
           <<D(15, 6), D(15, 10), D(5, 13), D(9, 7)>>}
MCFiles == {[r \in MCRegs |-> f[r + 1]] : f \in MCFprs}
MCGprs == {D(15, 2), D(12, 9)}
MCResults == {1, 11}
=============================================================================
