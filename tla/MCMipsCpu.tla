----------------------------- MODULE MCMipsCpu -----------------------------
(* Guest programs for MipsCpu. *)
EXTENDS MipsCpu, Sequences

MCRegs == 0 .. 2
Inc == [r \in MCRegs |-> (r + 1) % 3]
Enabled(e) == [ie |-> e, exl |-> FALSE, erl |-> FALSE, im |-> Lines]
Same == [r \in MCRegs |-> r]
Linked(S) == [r \in MCRegs |-> IF r \in S THEN r ELSE 2]
Nop == [kind |-> "alu", f |-> Same, cond |-> {}, target |-> 0,
        sr |-> Enabled(TRUE), sw |-> {}]

AluOp          == [Nop EXCEPT !.f = Inc]
Jump(t)        == [Nop EXCEPT !.kind = "jump", !.target = t]
Branch(c, t)   == [Nop EXCEPT !.kind = "branch", !.cond = c, !.target = t]
Likely(c, t)   == [Nop EXCEPT !.kind = "likely", !.cond = c, !.target = t]
Linking(op, S) == [op EXCEPT !.f = Linked(S)]
TrapOp         == [Nop EXCEPT !.kind = "trap"]
MtSr(e)        == [Nop EXCEPT !.kind = "mtsr", !.sr = Enabled(e)]
MtCause(s)     == [Nop EXCEPT !.kind = "mtcause", !.sw = s]
ServeOp        == [Nop EXCEPT !.kind = "serve"]
EretOp         == [Nop EXCEPT !.kind = "eret"]

AsCode(s) == [a \in 0 .. Len(s) - 1 |-> s[a + 1]]

\* Two guests and their kernel, 21 and 22.  The first uses every kind of
\* instruction; the second enables interrupts and never enters the kernel of its
\* own accord.
MCCode == AsCode(<<
  AluOp, Linking(Branch({0}, 4), {0}), AluOp, TrapOp,
  Likely({1}, 8), AluOp, MtSr(FALSE), AluOp,
  MtSr(TRUE), MtCause({"sw"}), Jump(0), AluOp,
  MtSr(TRUE), AluOp, Branch({0}, 17), AluOp, AluOp,
  Likely({1}, 13), AluOp, Linking(Jump(13), {}), AluOp,
  ServeOp, EretOp>>)
MCAddr == DOMAIN MCCode
MCStarts == {0, 12}
ASSUME MCWellBehaved == Code = MCCode => WellBehaved(0 .. 10 \cup 12 .. 19)

\* A system call in the delay slot of a jump; 4 and 5 are the kernel.
SlotCode == AsCode(<<MtSr(TRUE), Jump(0), TrapOp, AluOp, ServeOp, EretOp>>)
SlotAddr == DOMAIN SlotCode
SlotStarts == {0}
=============================================================================
