---------------------------- MODULE MCMipsCache ----------------------------
(* Instances of MipsCache for TLC. *)
EXTENDS MipsCache

CONSTANTS kseg0, kseg1

\* Opcodes: two instructions that can replace each other, two traps that can,
\* and a branch.
MCOps  == {"add", "sub", "jump", "sys", "break"}
MCKind == [o \in MCOps |-> CASE o = "jump" -> "branch"
                             [] o \in {"sys", "break"} -> "trap"
                             [] OTHER -> "plain"]

In(seg, ws) == {[seg |-> seg, word |-> w] : w \in ws}

\* 0: add   1: add   2: jump   3: (delay slot) add   4: add   5: syscall
\* With blocks of three places the code at 0 is cut before the jump; the blocks
\* at 4 and 5 overlap and end together; 4 is entered through both windows; and
\* the block at 2 lies across the two lines of three words.
MCProg == [w \in 0 .. 5 |-> CASE w = 2 -> "jump" [] w = 5 -> "sys"
                              [] OTHER -> "add"]
MCPatches == {<<3, "break">>, <<5, "break">>}
MCSegs == {kseg0, kseg1}
MCEntry == In(kseg0, {0, 4, 5}) \cup In(kseg1, {4})

\* 0: add   1: jump   2: (delay slot) add   3: syscall
TinyProg == [w \in 0 .. 3 |-> CASE w = 1 -> "jump" [] w = 3 -> "sys"
                                [] OTHER -> "add"]
TinyPatches == {<<0, "sub">>, <<2, "sub">>}
TinySegs == {kseg0}
TinyEntry == In(kseg0, {0, 3})

\* Straight-line code longer than a block: 0-4: add   5: syscall.
LongProg == [w \in 0 .. 5 |-> IF w = 5 THEN "sys" ELSE "add"]
LongPatches == {<<3, "sub">>}
LongEntry == In(kseg0, {0, 1})

\* Where blocks of MCProg begin: at the entries, after the block cut at word 2, and at
\* the word after the one that is reached through both windows.
MCStarts == In(kseg0, {0, 2, 4, 5}) \cup In(kseg1, {4, 5})

\* The instances are such code as the theorems are about, but for LongProg.
ASSUME CodeIsPlaced ==
  /\ Prog = MCProg => WellPlaced(MCStarts)
  /\ Prog = TinyProg => PlainCode
=============================================================================
