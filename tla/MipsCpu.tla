------------------------------ MODULE MipsCpu ------------------------------
(***************************************************************************)
(* The control flow of the uncached interpreter: Run polls the interrupt   *)
(* lines and then runs instructions (RunInst), branches wait one delay     *)
(* slot, TriggerException saves the place to return to, ERET goes back.    *)
(*                                                                         *)
(* The configuration is the N64 core with exceptions enabled: 64-bit, COP0 *)
(* present, kLazyInterruptPolling and kEnablePsxSpecific false.            *)
(*                                                                         *)
(* The guest is a program Code: user instructions, and at Vector a kernel  *)
(* that serves the exception ("serve") and returns (ERET).  Addresses are  *)
(* counted in instructions; what an instruction computes is a function of  *)
(* the registers, whose contents are abstract.                             *)
(***************************************************************************)
EXTENDS Integers

CONSTANTS
  Addr,       \* the addresses that hold an instruction
  Code,       \* the instruction at each address
  Starts,     \* where the host may start the user program
  Vector,     \* 0x80000180
  Regs,       \* the possible contents of the registers
  InitRegs    \* all zero

\* Interrupt lines: Cause.IP0-1 (written by software), IP2 (the bus), IP7
\* (the timer).
Lines == {"sw", "bus", "cmp"}
Kinds == {"alu", "jump", "branch", "likely", "trap", "mtsr", "mtcause",
          "serve", "eret"}
Causes == {"none", "Int", "Sys"}   \* ExcCode; "none" is 31, after a reset
NoAddr == -1                       \* an address that is not the program's
Sr == [ie : BOOLEAN, exl : BOOLEAN, erl : BOOLEAN, im : SUBSET Lines]
Instr == [kind : Kinds, f : [Regs -> Regs], cond : SUBSET Regs,
          target : Addr, sr : Sr, sw : SUBSET {"sw"}]

HasDelaySlot(op) == op.kind \in {"jump", "branch", "likely"}

ASSUME CodeAssumption ==
  /\ Addr \subseteq Nat
  /\ Code \in [Addr -> Instr]
  /\ Starts \subseteq Addr /\ Vector \in Addr
  /\ InitRegs \in Regs

VARIABLES
  pc,       \* pc_
  delay,    \* has_branch_delay_
  dst,      \* branch_delay_dst_
  sr,       \* Status: IE, EXL, ERL and the mask IM
  cause,    \* Cause: ExcCode, BD and IP
  epc, errorEpc,
  compare,  \* compare_interrupt_
  bus,      \* what bus_->GetInterrupt() returns
  regs,
  panic     \* "NON BRANCH ON BD"

cpu  == <<pc, delay, dst, sr, cause, epc, errorEpc, compare, panic>>
vars == <<cpu, bus, regs>>

State == [pc |-> pc, delay |-> delay, sr |-> sr, cause |-> cause, epc |-> epc,
          compare |-> compare, panic |-> panic]

Become(s) ==
  /\ pc' = s.pc /\ delay' = s.delay /\ sr' = s.sr /\ cause' = s.cause
  /\ epc' = s.epc /\ compare' = s.compare /\ panic' = s.panic

\* MipsCop0::Reset: 0x34000000 in Status and 0xB000007C in Cause.
ResetSr == [ie |-> FALSE, exl |-> FALSE, erl |-> FALSE, im |-> {}]
ResetCause == [exc |-> "none", bd |-> TRUE, ip |-> {}]

\* The host has reset the processor and set its program counter.
Init ==
  /\ pc \in Starts /\ delay = FALSE /\ dst = NoAddr
  /\ sr = ResetSr /\ cause = ResetCause
  /\ epc = NoAddr /\ errorEpc = NoAddr
  /\ compare = FALSE /\ bus = FALSE
  /\ regs = InitRegs
  /\ panic = FALSE

-----------------------------------------------------------------------------
(* Exceptions.  These operators take and return the part of the state that *)
(* the C++ functions read and write, because Run calls them in sequence.   *)

Pending(s) ==
  (s.cause.ip \cap {"sw"})
    \cup (IF bus THEN {"bus"} ELSE {})
    \cup (IF s.compare THEN {"cmp"} ELSE {})

\* Variant: the instruction itself, wherever it stands.
ReturnTo_Itself(s) == s.pc

\* In a delay slot the branch is what is returned to.
ReturnTo(s) == IF s.delay THEN s.pc - 1 ELSE s.pc

FollowsBranch(s) == s.pc - 1 \in Addr /\ HasDelaySlot(Code[s.pc - 1])

TriggerException(s, exc) ==
  [pc      |-> Vector,
   delay   |-> FALSE,
   sr      |-> [s.sr EXCEPT !.exl = TRUE],
   cause   |-> [exc |-> exc, bd |-> s.delay, ip |-> Pending(s)],
   epc     |-> IF s.sr.exl THEN s.epc ELSE ReturnTo(s),
   compare |-> s.compare,
   panic   |-> s.panic \/ (s.delay /\ ~FollowsBranch(s))]

CheckInterrupt(s) ==
  IF s.sr.ie /\ ~s.sr.exl /\ ~s.sr.erl /\ s.sr.im \cap Pending(s) # {}
  THEN TriggerException(s, "Int")
  ELSE s

\* Variant: IP7 is left out when Cause is refreshed.
CheckCompare_NoTimerBit(s, crossed) ==
  LET t == [s EXCEPT !.cause = [s.cause EXCEPT !.ip = Pending(s) \ {"cmp"}]]
  IN  IF crossed THEN CheckInterrupt([t EXCEPT !.compare = TRUE]) ELSE t

\* crossed: COP0 found that Count has passed Compare (see MipsTimer).
CheckCompare(s, crossed) ==
  LET t == [s EXCEPT !.cause = [s.cause EXCEPT !.ip = Pending(s)]]
  IN  IF crossed THEN CheckInterrupt([t EXCEPT !.compare = TRUE]) ELSE t

\* Run, before its first instruction.  A call of Run may end after any
\* instruction, so this happens between any two.
Poll ==
  /\ \E crossed \in BOOLEAN :
       Become(CheckCompare(CheckInterrupt(State), crossed))
  /\ UNCHANGED <<dst, errorEpc, bus, regs>>

-----------------------------------------------------------------------------
(* RunInst.  next_pc_ and has_branch_delay_ are settled first; the handler *)
(* may then replace either.                                                *)

Op == Code[pc]
NextPc == IF delay THEN dst ELSE pc + 1

\* Variant: has_branch_delay_ survives the instruction in the slot.
Alu_KeepsDelay ==
  /\ Op.kind = "alu"
  /\ pc' = NextPc
  /\ regs' = Op.f[regs]
  /\ UNCHANGED <<delay, dst, sr, cause, epc, errorEpc, compare, bus, panic>>

Alu ==
  /\ Op.kind = "alu"
  /\ pc' = NextPc /\ delay' = FALSE
  /\ regs' = Op.f[regs]
  /\ UNCHANGED <<dst, sr, cause, epc, errorEpc, compare, bus, panic>>

\* JumpRel, Jump32, Jump64.
Taken ==
  \/ Op.kind = "jump"
  \/ Op.kind \in {"branch", "likely"} /\ regs \in Op.cond

\* LinkForJump, taken or not, in the branches that link; the condition and the
\* target are read before it.
LinkForJump == regs' = Op.f[regs]

BranchTaken ==
  /\ Taken
  /\ pc' = NextPc /\ delay' = TRUE /\ dst' = Op.target
  /\ LinkForJump
  /\ UNCHANGED <<sr, cause, epc, errorEpc, compare, bus, panic>>

BranchNotTaken ==
  /\ Op.kind \in {"branch", "likely"} /\ ~Taken
  /\ pc' = IF Op.kind = "likely" THEN pc + 2 ELSE NextPc
  /\ delay' = FALSE
  /\ LinkForJump
  /\ UNCHANGED <<dst, sr, cause, epc, errorEpc, compare, bus, panic>>

\* SYSCALL, or any instruction that raises an exception.  has_branch_delay_ has
\* been cleared by the time the handler runs.
Trap ==
  /\ Op.kind = "trap"
  /\ Become(TriggerException([State EXCEPT !.delay = FALSE], "Sys"))
  /\ UNCHANGED <<dst, errorEpc, bus, regs>>

\* MTC0 to Status and to Cause: no interrupt is looked for.
MoveToSr ==
  /\ Op.kind = "mtsr"
  /\ sr' = Op.sr
  /\ pc' = NextPc /\ delay' = FALSE
  /\ UNCHANGED <<dst, cause, epc, errorEpc, compare, bus, regs, panic>>

MoveToCause ==
  /\ Op.kind = "mtcause"
  /\ cause' = [cause EXCEPT !.ip = (@ \ {"sw"}) \cup Op.sw]
  /\ pc' = NextPc /\ delay' = FALSE
  /\ UNCHANGED <<dst, sr, epc, errorEpc, compare, bus, regs, panic>>

\* Variant: the four bytes RunInst adds to pc_ are added here, too.
Eret_NextInst ==
  /\ Op.kind = "eret"
  /\ IF sr.erl
     THEN pc' = errorEpc + 1 /\ sr' = [sr EXCEPT !.erl = FALSE]
     ELSE pc' = epc + 1 /\ sr' = [sr EXCEPT !.exl = FALSE]
  /\ delay' = FALSE
  /\ UNCHANGED <<dst, cause, epc, errorEpc, compare, bus, regs, panic>>

\* Variant: EXL is not cleared.
Eret_KeepsExl ==
  /\ Op.kind = "eret"
  /\ IF sr.erl
     THEN pc' = errorEpc /\ sr' = [sr EXCEPT !.erl = FALSE]
     ELSE pc' = epc /\ UNCHANGED sr
  /\ delay' = FALSE
  /\ UNCHANGED <<dst, cause, epc, errorEpc, compare, bus, regs, panic>>

\* SetPcDuringInst replaces next_pc_.
Eret ==
  /\ Op.kind = "eret"
  /\ IF sr.erl
     THEN pc' = errorEpc /\ sr' = [sr EXCEPT !.erl = FALSE]
     ELSE pc' = epc /\ sr' = [sr EXCEPT !.exl = FALSE]
  /\ delay' = FALSE
  /\ UNCHANGED <<dst, cause, epc, errorEpc, compare, bus, regs, panic>>

\* The guest's kernel: it acknowledges what Cause shows (a device register, a
\* write to Compare, a write to Cause), or steps over the system call.
Serve ==
  /\ Op.kind = "serve"
  /\ IF cause.exc = "Int"
     THEN /\ bus' = (bus /\ "bus" \notin cause.ip)
          /\ compare' = (compare /\ "cmp" \notin cause.ip)
          /\ cause' = [cause EXCEPT !.ip = @ \ {"sw"}]
          /\ UNCHANGED epc
     ELSE /\ epc' = epc + 1
          /\ UNCHANGED <<bus, compare, cause>>
  /\ pc' = NextPc /\ delay' = FALSE
  /\ UNCHANGED <<dst, sr, errorEpc, regs, panic>>

RunInst ==
  \/ Alu \/ BranchTaken \/ BranchNotTaken \/ Trap
  \/ MoveToSr \/ MoveToCause \/ Eret \/ Serve

-----------------------------------------------------------------------------
(* The outside. *)

RaiseBus == ~bus /\ bus' = TRUE /\ UNCHANGED <<cpu, regs>>

\* Variant: a pending delay slot is not forgotten.
Restart_KeepsDelay ==
  /\ pc' \in Starts
  /\ sr' = ResetSr /\ cause' = ResetCause
  /\ epc' = NoAddr /\ errorEpc' = NoAddr
  /\ compare' = FALSE
  /\ regs' = InitRegs
  /\ UNCHANGED <<delay, dst, bus, panic>>

\* Between two calls of Run the host calls Reset and SetPc.
Restart ==
  /\ pc' \in Starts /\ delay' = FALSE /\ dst' = NoAddr
  /\ sr' = ResetSr /\ cause' = ResetCause
  /\ epc' = NoAddr /\ errorEpc' = NoAddr
  /\ compare' = FALSE
  /\ regs' = InitRegs
  /\ UNCHANGED <<bus, panic>>

Next == Poll \/ RunInst \/ RaiseBus \/ Restart

\* The host keeps calling Run, and each call polls and runs instructions.
Spec == Init /\ [][Next]_vars /\ WF_vars(Poll) /\ WF_vars(RunInst)

-----------------------------------------------------------------------------
(* Guests that keep to the architecture's rules.  Heads are the addresses  *)
(* the user program may stand on other than in a jump's delay slot.  A     *)
(* branch must not test the register it links to, since it runs again when *)
(* an interrupt has come before its slot.                                  *)

UserInst(a, Heads) ==
  LET op == Code[a]
      next == a + 1
      Repeatable(r) == op.f[op.f[r]] = op.f[r] /\ (op.f[r] \in op.cond <=> r \in op.cond)
  IN  /\ op.kind \notin {"serve", "eret"}
      /\ op.target \in Heads
      /\ ~op.sr.exl /\ ~op.sr.erl
      /\ op.kind # "jump" => next \in Heads
      /\ op.kind = "likely" => a + 2 \in Heads
      /\ HasDelaySlot(op) => next \in Addr /\ Code[next].kind = "alu"
      /\ HasDelaySlot(op) => \A r \in Regs : Repeatable(r)

WellBehaved(Heads) ==
  /\ Heads \subseteq Addr /\ Starts \subseteq Heads
  /\ \A a \in Heads : UserInst(a, Heads)
  /\ Code[Vector].kind = "serve"
  /\ Vector + 1 \in Addr /\ Code[Vector + 1].kind = "eret"

-----------------------------------------------------------------------------
TypeOK ==
  /\ pc \in Addr /\ delay \in BOOLEAN /\ dst \in Addr \cup {NoAddr}
  /\ sr \in Sr
  /\ cause \in [exc : Causes, bd : BOOLEAN, ip : SUBSET Lines]
  /\ epc \in Addr \cup {NoAddr} /\ errorEpc \in Addr \cup {NoAddr}
  /\ compare \in BOOLEAN /\ bus \in BOOLEAN
  /\ regs \in Regs /\ panic \in BOOLEAN

\* "NON BRANCH ON BD" (TriggerException lines 972-975): when an exception finds
\* a delay slot pending, the instruction before pc_ is the branch it belongs to.
NonBranchOnBd == ~panic

\* A kernel entered for an interrupt finds the reason in Cause, also after the
\* polls that rewrite Cause while it runs (CheckCompare lines 447-452).
KernelSeesReason ==
  sr.exl /\ cause.exc = "Int" /\ pc = Vector => sr.im \cap cause.ip # {}

\* An exception raised by the instruction in a delay slot reports it and
\* returns to the branch (TriggerException lines 966-971, 990).
SlotExceptionReturnsToBranch ==
  [][Trap /\ delay /\ ~sr.exl => cause'.bd /\ epc' = pc - 1]_vars

\* From when on a guest leaves interrupts enabled and makes no system call, every
\* interrupt the bus raises is served, although Run looks for it only at times of
\* its own: never in a kernel that has yet to return (Run, CheckInterrupt, ERET).
BusServed ==
  <>[](sr.ie /\ "bus" \in sr.im /\ (sr.exl => cause.exc = "Int")) => (bus ~> ~bus)

\* To the user program interrupts are invisible: whenever they come, also
\* between a branch and its delay slot, it computes what it would have computed
\* without them, from each reset on (TriggerException, ERET, Reset).
User == INSTANCE UserProgram WITH
          at <- IF sr.exl THEN epc ELSE IF delay THEN pc - 1 ELSE pc
Transparent == User!Spec
=============================================================================
