---------------------------- MODULE UserProgram ----------------------------
(***************************************************************************)
(* What a guest program may rely on: its instructions run one after the    *)
(* other, a taken branch together with the instruction in its delay slot,  *)
(* and a system call is over in one step.  Interrupts are not to be seen.  *)
(***************************************************************************)
EXTENDS Integers

CONSTANTS Code, Starts, InitRegs

VARIABLES at, regs    \* the next instruction; the contents of the registers

vars == <<at, regs>>

Init == at \in Starts /\ regs = InitRegs

Op == Code[at]
Taken ==
  \/ Op.kind = "jump"
  \/ Op.kind \in {"branch", "likely"} /\ regs \in Op.cond

Plain ==
  /\ Op.kind = "alu"
  /\ at' = at + 1 /\ regs' = Op.f[regs]

\* A branch may write its link register before anything else happens; it does so
\* again when it is carried out, to no further effect.
Link ==
  /\ Op.kind \in {"jump", "branch", "likely"}
  /\ at' = at /\ regs' = Op.f[regs]

BranchAndSlot ==
  /\ Taken
  /\ at' = Op.target /\ regs' = Code[at + 1].f[Op.f[regs]]

NotTaken ==
  /\ Op.kind \in {"branch", "likely"} /\ ~Taken
  /\ at' = IF Op.kind = "likely" THEN at + 2 ELSE at + 1
  /\ regs' = Op.f[regs]

\* A system call, or a write to the interrupt enables.
Supervisor ==
  /\ Op.kind \in {"trap", "mtsr", "mtcause"}
  /\ at' = at + 1 /\ regs' = regs

\* The host starts over.
Restart == at' \in Starts /\ regs' = InitRegs

Next == Plain \/ Link \/ BranchAndSlot \/ NotTaken \/ Supervisor \/ Restart

Spec == Init /\ [][Next]_vars
=============================================================================
