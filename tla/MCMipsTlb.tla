----------------------------- MODULE MCMipsTlb -----------------------------
(* MipsTlb with 64 pages of 4 KB: kuseg is 0-63 in units of SegPages = 16, *)
(* kseg0 64-79, kseg1 80-95, kseg2 from 96.  Page 6 differs from 102 only in *)
(* bits the probe does not compare; a pair of large pages is 96-99, 100-103. *)
EXTENDS MipsTlb

MCAsids == {0, 1}
Frame(g, n) == [g |-> g, v |-> TRUE, d |-> n % 2 = 0, pfn |-> n]
MCLos == {Frame(TRUE, 6), Frame(FALSE, 9)}
MCMasks == {1, 4}
MCHiVpns == {102}
MCWired == {1}
MCIndices == {1}
MCAccessed == {103}
MCPages == {0, 6, 97, 102, 103}

\* One address space and one page size.
OneAsid == {0}
OneLo == {Frame(TRUE, 6)}
OneMask == {1}
=============================================================================
