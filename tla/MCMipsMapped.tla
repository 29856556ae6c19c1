---------------------------- MODULE MCMipsMapped ----------------------------
(* Two frames of four words, two lines each, mapped in any way to two pages *)
(* side by side.                                                            *)
EXTENDS MipsMapped

MCOps  == {"add", "jump", "sys"}
MCKind == [o \in MCOps |-> CASE o = "jump" -> "branch" [] o = "sys" -> "trap"
                             [] OTHER -> "plain"]

\* 0: add   1: jump   2: (delay slot) add   3: jump      4: jump   5: add
\* 6: add   7: syscall, or add once the kernel has patched it.  Blocks cross
\* from page 0 into page 1 or run out of it, with the delay slot of the jump at
\* the end of frame 0 or with the straight-line code at the end of frame 1,
\* which, patched, fills a block up to the jump at the start of either page.
MCProg == [w \in 0 .. 7 |-> CASE w \in {1, 3, 4} -> "jump" [] w = 7 -> "sys"
                              [] OTHER -> "add"]
MCPatches == {<<7, "add">>}
MCEntry == {0, 6}
=============================================================================
