-------------------------- MODULE MCMipsLoadStore --------------------------
(* Every byte of memory and of the register is different, and the upper half *)
(* of memory holds bytes whose sign bit is set.                              *)
EXTENDS MipsLoadStore

MCMem == [a \in 0 .. MemBytes - 1 |-> 5 + 15 * a]
MCGpr == <<1, 2, 3, 4, 251, 252, 253, 254>>
MCGpr0 == [k \in 0 .. 7 |-> MCGpr[k + 1]]
=============================================================================
