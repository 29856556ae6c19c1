----------------------------- MODULE MCMipsAlu -----------------------------
(* MipsAlu with words of four bits, immediates of two and three registers;  *)
(* the values are the ends and the neighbours of the ends of both widths,    *)
(* and some doublewords that are not sign-extended words.                    *)
EXTENDS MipsAlu

MCRegs == 0 .. 2
MCValues == {0, 1, 7, 248, 251, 255} \cup {8, 15, 127, 128}
MCHiLos == {<<251, 7>>, <<8, 255>>}
=============================================================================
