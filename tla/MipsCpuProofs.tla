--------------------------- MODULE MipsCpuProofs ---------------------------
(***************************************************************************)
(* Proofs about MipsCpu: for every well-behaved guest program, whatever it *)
(* computes and whenever interrupts come.                                  *)
(***************************************************************************)
EXTENDS MipsCpu, TLAPS

-----------------------------------------------------------------------------
(* The inductive invariant.  H is the program's Heads. *)

\* A pending delay slot belongs to the branch before it, which the registers
\* still say is taken, and which would link once more to no effect.
InSlot(H) ==
  /\ pc - 1 \in H
  /\ HasDelaySlot(Code[pc - 1])
  /\ dst = Code[pc - 1].target
  /\ Code[pc - 1].kind = "jump" \/ regs \in Code[pc - 1].cond
  /\ Code[pc - 1].f[regs] = regs

InUser(H) == ~sr.exl => IF delay THEN InSlot(H) ELSE pc \in H

InKernel(H) ==
  sr.exl =>
    /\ ~delay /\ epc \in H
    /\ pc = Vector \/ pc = Vector + 1
    /\ pc = Vector => cause.exc = "Int" \/ Code[epc].kind = "trap"

\* The reason for the interrupt is in Cause and would be found again.
Reason ==
  sr.exl /\ cause.exc = "Int" /\ pc = Vector =>
    sr.im \cap cause.ip # {} /\ sr.im \cap Pending(State) # {}

IInv(H) ==
  /\ TypeOK /\ ~panic /\ ~sr.erl
  /\ InUser(H) /\ InKernel(H) /\ Reason

-----------------------------------------------------------------------------
(* The operators that CheckInterrupt and CheckCompare are made of. *)

CauseType == [exc : Causes, bd : BOOLEAN, ip : SUBSET Lines]
StateType ==
  [pc : Addr, delay : BOOLEAN, sr : Sr, cause : CauseType,
   epc : Addr \cup {NoAddr}, compare : BOOLEAN, panic : BOOLEAN]

LEMMA PendingType ==
  ASSUME NEW s \in StateType
  PROVE  Pending(s) \in SUBSET Lines
BY DEF StateType, Pending, Lines

LEMMA SetExl ==
  ASSUME NEW r \in Sr
  PROVE  LET q == [r EXCEPT !.exl = TRUE] IN
         q \in Sr /\ q.exl /\ q.erl = r.erl /\ q.im = r.im
BY DEF Sr

LEMMA ClearExl ==
  ASSUME NEW r \in Sr
  PROVE  LET q == [r EXCEPT !.exl = FALSE] IN
         q \in Sr /\ ~q.exl /\ q.erl = r.erl
BY DEF Sr

\* What taking an interrupt does, when a pending delay slot follows a branch.
LEMMA TriggerInt ==
  ASSUME NEW s \in StateType, ~s.panic, Vector \in Addr,
         s.delay => FollowsBranch(s)
  PROVE  LET t == TriggerException(s, "Int") IN
         /\ t \in StateType /\ ~t.panic /\ ~t.delay
         /\ t.pc = Vector /\ t.cause.exc = "Int" /\ t.cause.ip = Pending(s)
         /\ t.sr.exl /\ t.sr.erl = s.sr.erl /\ t.sr.im = s.sr.im
         /\ t.compare = s.compare
         /\ ~s.sr.exl => t.epc = ReturnTo(s)
<1> DEFINE q == [s.sr EXCEPT !.exl = TRUE]
<1>0. /\ s.sr \in Sr /\ s.delay \in BOOLEAN /\ s.compare \in BOOLEAN
      /\ s.epc \in Addr \cup {NoAddr} /\ s.pc \in Addr
  BY DEF StateType
<1>1. Pending(s) \in SUBSET Lines
  BY PendingType
<1>2. ReturnTo(s) \in Addr
  BY <1>0 DEF ReturnTo, FollowsBranch
<1>3. q \in Sr /\ q.exl /\ q.erl = s.sr.erl /\ q.im = s.sr.im
  BY <1>0, SetExl
<1> HIDE DEF q
<1> DEFINE p == s.panic \/ (s.delay /\ ~FollowsBranch(s))
           e == IF s.sr.exl THEN s.epc ELSE ReturnTo(s)
<1>4. ~p /\ p \in BOOLEAN /\ e \in Addr \cup {NoAddr} /\ (~s.sr.exl => e = ReturnTo(s))
  BY <1>0, <1>2
<1> DEFINE c == [exc |-> "Int", bd |-> s.delay, ip |-> Pending(s)]
<1>5. c \in CauseType /\ c.exc = "Int" /\ c.ip = Pending(s)
  BY <1>0, <1>1 DEF CauseType, Causes
<1> DEFINE t == TriggerException(s, "Int")
<1>6. t = [pc |-> Vector, delay |-> FALSE, sr |-> q, cause |-> c,
           epc |-> e, compare |-> s.compare, panic |-> p]
  BY DEF TriggerException, q
<1> HIDE DEF p, e, c, t
<1>7. t \in StateType
  BY <1>0, <1>3, <1>4, <1>5, <1>6 DEF StateType
<1>8. /\ t.panic = p /\ t.delay = FALSE /\ t.pc = Vector /\ t.cause = c
      /\ t.sr = q /\ t.compare = s.compare /\ t.epc = e
  BY <1>6
<1> QED BY <1>3, <1>4, <1>5, <1>7, <1>8 DEF t

\* The interrupt is taken: from user code, to the kernel, with its reason.
Interrupted(s, t) ==
  /\ ~s.sr.exl /\ t.sr.exl /\ t.sr.erl = s.sr.erl /\ t.sr.im = s.sr.im
  /\ t.pc = Vector /\ ~t.delay /\ t.epc = ReturnTo(s)
  /\ t.cause.exc = "Int"
  /\ t.sr.im \cap t.cause.ip # {} /\ t.sr.im \cap Pending(t) # {}

\* Nothing happens but that Cause and the timer's line may be brought up to date.
Refreshed(s, t) ==
  /\ t.sr = s.sr /\ t.pc = s.pc /\ t.delay = s.delay /\ t.epc = s.epc
  /\ t.cause.exc = s.cause.exc
  /\ t.cause.ip = Pending(s)
  /\ Pending(s) \subseteq Pending(t)

LEMMA PendingGrows ==
  ASSUME NEW s \in StateType, NEW t \in StateType,
         t.cause.ip = Pending(s), s.compare => t.compare
  PROVE  Pending(s) \subseteq Pending(t)
BY DEF Pending

LEMMA CheckInterruptEffect ==
  ASSUME NEW s \in StateType, ~s.panic, Vector \in Addr,
         s.delay /\ ~s.sr.exl => FollowsBranch(s)
  PROVE  LET t == CheckInterrupt(s) IN
         t \in StateType /\ ~t.panic /\ (t = s \/ Interrupted(s, t))
<1> DEFINE t == CheckInterrupt(s)
<1>1. CASE s.sr.ie /\ ~s.sr.exl /\ ~s.sr.erl /\ s.sr.im \cap Pending(s) # {}
  <2>1. t = TriggerException(s, "Int")
    BY <1>1 DEF CheckInterrupt
  <2>2. /\ t \in StateType /\ ~t.panic /\ ~t.delay
        /\ t.pc = Vector /\ t.cause.exc = "Int" /\ t.cause.ip = Pending(s)
        /\ t.sr.exl /\ t.sr.erl = s.sr.erl /\ t.sr.im = s.sr.im
        /\ t.compare = s.compare
        /\ ~s.sr.exl => t.epc = ReturnTo(s)
    BY <1>1, <2>1, TriggerInt
  <2> HIDE DEF t
  <2>3. Pending(s) \subseteq Pending(t)
    BY <2>2, PendingGrows
  <2>4. t.sr.im \cap t.cause.ip # {} /\ t.sr.im \cap Pending(t) # {}
    BY <1>1, <2>2, <2>3
  <2> QED BY <1>1, <2>2, <2>4 DEF Interrupted, t
<1>2. CASE ~(s.sr.ie /\ ~s.sr.exl /\ ~s.sr.erl /\ s.sr.im \cap Pending(s) # {})
  BY <1>2 DEF CheckInterrupt
<1> QED BY <1>1, <1>2

LEMMA SetIp ==
  ASSUME NEW c \in CauseType, NEW ip \in SUBSET Lines
  PROVE  LET d == [c EXCEPT !.ip = ip] IN
         d \in CauseType /\ d.exc = c.exc /\ d.ip = ip
BY DEF CauseType

LEMMA SetCause ==
  ASSUME NEW s \in StateType, NEW c \in CauseType
  PROVE  LET t == [s EXCEPT !.cause = c] IN
         /\ t \in StateType /\ t.cause = c
         /\ t.sr = s.sr /\ t.pc = s.pc /\ t.delay = s.delay /\ t.epc = s.epc
         /\ t.compare = s.compare /\ t.panic = s.panic
BY DEF StateType

LEMMA SetCompare ==
  ASSUME NEW s \in StateType
  PROVE  LET t == [s EXCEPT !.compare = TRUE] IN
         /\ t \in StateType /\ t.cause = s.cause
         /\ t.sr = s.sr /\ t.pc = s.pc /\ t.delay = s.delay /\ t.epc = s.epc
         /\ t.compare /\ t.panic = s.panic
BY DEF StateType

LEMMA CheckCompareEffect ==
  ASSUME NEW s \in StateType, ~s.panic, Vector \in Addr, NEW crossed \in BOOLEAN,
         s.delay /\ ~s.sr.exl => FollowsBranch(s)
  PROVE  LET t == CheckCompare(s, crossed) IN
         /\ t \in StateType /\ ~t.panic
         /\ Refreshed(s, t) \/ Interrupted(s, t)
         /\ s.sr.exl => Refreshed(s, t)
<1> DEFINE c == [s.cause EXCEPT !.ip = Pending(s)]
           u == [s EXCEPT !.cause = c]
           v == [u EXCEPT !.compare = TRUE]
           t == CheckCompare(s, crossed)
<1>1. c \in CauseType /\ c.exc = s.cause.exc /\ c.ip = Pending(s)
  <2>1. s.cause \in CauseType
    BY DEF StateType
  <2> QED BY <2>1, PendingType, SetIp
<1>2. t = IF crossed THEN CheckInterrupt(v) ELSE u
  BY DEF CheckCompare
<1> HIDE DEF c, t
<1>3. /\ u \in StateType /\ u.cause = c
      /\ u.sr = s.sr /\ u.pc = s.pc /\ u.delay = s.delay /\ u.epc = s.epc
      /\ u.compare = s.compare /\ u.panic = s.panic
  BY <1>1, SetCause
<1> HIDE DEF u
<1>4. /\ v \in StateType /\ v.cause = u.cause
      /\ v.sr = u.sr /\ v.pc = u.pc /\ v.delay = u.delay /\ v.epc = u.epc
      /\ v.compare /\ v.panic = u.panic
  BY <1>3, SetCompare
<1> HIDE DEF v
<1>5. Refreshed(s, u)
  BY <1>1, <1>3, PendingGrows DEF Refreshed
<1>6. Refreshed(s, v)
  BY <1>1, <1>3, <1>4, PendingGrows DEF Refreshed
<1>7. ReturnTo(v) = ReturnTo(s) /\ (FollowsBranch(v) <=> FollowsBranch(s))
  BY <1>3, <1>4 DEF ReturnTo, FollowsBranch
<1>8. /\ CheckInterrupt(v) \in StateType /\ ~CheckInterrupt(v).panic
      /\ CheckInterrupt(v) = v \/ Interrupted(v, CheckInterrupt(v))
  BY <1>3, <1>4, <1>7, CheckInterruptEffect
<1>9. Interrupted(v, CheckInterrupt(v)) => Interrupted(s, CheckInterrupt(v)) /\ ~s.sr.exl
  BY <1>3, <1>4, <1>7 DEF Interrupted
<1>10. CASE crossed
  BY <1>2, <1>6, <1>8, <1>9, <1>10 DEF t
<1>11. CASE ~crossed
  BY <1>2, <1>3, <1>5, <1>11 DEF t
<1> QED BY <1>10, <1>11

\* The whole poll: the state is refreshed, or the interrupt is taken.
LEMMA PollEffect ==
  ASSUME NEW s \in StateType, ~s.panic, Vector \in Addr, NEW crossed \in BOOLEAN,
         s.delay /\ ~s.sr.exl => FollowsBranch(s)
  PROVE  LET t == CheckCompare(CheckInterrupt(s), crossed) IN
         t \in StateType /\ ~t.panic /\ (Refreshed(s, t) \/ Interrupted(s, t))
<1> DEFINE i == CheckInterrupt(s)
           t == CheckCompare(i, crossed)
<1>1. i \in StateType /\ ~i.panic /\ (i = s \/ Interrupted(s, i))
  BY CheckInterruptEffect
<1>2. CASE i = s
  BY <1>2, CheckCompareEffect
<1>3. CASE Interrupted(s, i)
  <2>1. i.sr.exl
    BY <1>3 DEF Interrupted
  <2> HIDE DEF i
  <2>2. t \in StateType /\ ~t.panic /\ Refreshed(i, t)
    BY <1>1, <2>1, CheckCompareEffect
  <2> HIDE DEF t
  <2>3. Interrupted(s, t)
    BY <1>3, <2>2 DEF Interrupted, Refreshed
  <2> QED BY <2>2, <2>3 DEF i, t
<1> QED BY <1>1, <1>2, <1>3

-----------------------------------------------------------------------------
(* The invariant is inductive. *)

\* What a program's Heads promise of the instruction on one of them.
LEMMA HeadFacts ==
  ASSUME NEW H, WellBehaved(H), NEW a \in H
  PROVE  /\ a \in Addr /\ a \in Nat /\ Code[a] \in Instr
         /\ Code[a].kind \notin {"serve", "eret"}
         /\ Code[a].target \in H
         /\ Code[a].sr \in Sr /\ ~Code[a].sr.exl /\ ~Code[a].sr.erl
         /\ Code[a].kind # "jump" => a + 1 \in H
         /\ Code[a].kind = "likely" => a + 2 \in H
         /\ HasDelaySlot(Code[a]) => a + 1 \in Addr /\ Code[a + 1].kind = "alu"
         /\ Code[a].f \in [Regs -> Regs]
         /\ HasDelaySlot(Code[a]) => \A r \in Regs :
              /\ Code[a].f[Code[a].f[r]] = Code[a].f[r]
              /\ Code[a].f[r] \in Code[a].cond <=> r \in Code[a].cond
<1>1. UserInst(a, H) /\ a \in Addr
  BY DEF WellBehaved
<1>2. Code[a] \in Instr /\ a \in Nat
  BY <1>1, CodeAssumption
<1>3. Code[a].sr \in Sr /\ Code[a].f \in [Regs -> Regs]
  BY <1>2 DEF Instr
<1> QED BY <1>1, <1>2, <1>3 DEF UserInst

LEMMA KernelFacts ==
  ASSUME NEW H, WellBehaved(H)
  PROVE  /\ H \subseteq Addr /\ Starts \subseteq H
         /\ Vector \in Addr /\ Vector \in Nat /\ Vector + 1 \in Addr
         /\ Code[Vector].kind = "serve" /\ Code[Vector + 1].kind = "eret"
BY CodeAssumption DEF WellBehaved

\* Where pc_ stands tells what it stands on.
LEMMA Modes ==
  ASSUME NEW H, WellBehaved(H), IInv(H)
  PROVE  /\ sr.exl => Op.kind = IF pc = Vector THEN "serve" ELSE "eret"
         /\ ~sr.exl => Op.kind \notin {"serve", "eret"}
         /\ delay => ~sr.exl /\ Op.kind = "alu" /\ FollowsBranch(State)
<1>1. pc \in Addr /\ pc \in Nat /\ sr.exl \in BOOLEAN
  BY CodeAssumption DEF IInv, TypeOK, Sr
<1>2. CASE sr.exl
  BY <1>2, KernelFacts DEF IInv, InKernel, Op
<1>3. CASE ~sr.exl /\ delay
  <2>1. pc - 1 \in H /\ HasDelaySlot(Code[pc - 1])
    BY <1>3 DEF IInv, InUser, InSlot
  <2>2. pc - 1 \in Addr /\ Code[(pc - 1) + 1].kind = "alu"
    BY <2>1, HeadFacts
  <2>3. (pc - 1) + 1 = pc
    BY <1>1
  <2> QED BY <1>3, <2>1, <2>2, <2>3 DEF Op, FollowsBranch, State
<1>4. CASE ~sr.exl /\ ~delay
  BY <1>4, HeadFacts DEF IInv, InUser, Op
<1> QED BY <1>1, <1>2, <1>3, <1>4

LEMMA StateTyped ==
  ASSUME TypeOK
  PROVE  State \in StateType
BY DEF TypeOK, State, StateType, CauseType

LEMMA ResetTypes ==
  /\ ResetSr \in Sr /\ ~ResetSr.exl /\ ~ResetSr.erl
  /\ ResetCause \in [exc : Causes, bd : BOOLEAN, ip : SUBSET Lines]
BY DEF ResetSr, ResetCause, Sr, Causes

\* A processor that has just been reset, whatever it was doing before.
LEMMA ResetIInv ==
  ASSUME NEW H, WellBehaved(H),
         pc \in Starts, ~delay, delay \in BOOLEAN, dst = NoAddr,
         sr = ResetSr, cause = ResetCause, epc = NoAddr, errorEpc = NoAddr,
         compare = FALSE, bus \in BOOLEAN, regs = InitRegs, panic = FALSE
  PROVE  IInv(H)
<1>1. TypeOK
  BY ResetTypes, CodeAssumption DEF TypeOK
<1>2. InUser(H) /\ InKernel(H) /\ Reason
  BY ResetTypes, KernelFacts DEF InUser, InKernel, Reason
<1> QED BY <1>1, <1>2, ResetTypes DEF IInv

LEMMA InitIInv ==
  ASSUME NEW H, WellBehaved(H)
  PROVE  Init => IInv(H)
BY ResetIInv DEF Init

LEMMA RestartIInv ==
  ASSUME NEW H, WellBehaved(H), IInv(H), Restart
  PROVE  IInv(H)'
<1>1. /\ pc' \in Starts /\ delay' = FALSE /\ dst' = NoAddr
      /\ sr' = ResetSr /\ cause' = ResetCause
      /\ epc' = NoAddr /\ errorEpc' = NoAddr /\ compare' = FALSE
      /\ regs' = InitRegs /\ bus' = bus /\ panic' = panic
  BY DEF Restart
<1>2. TypeOK'
  BY <1>1, ResetTypes, CodeAssumption DEF IInv, TypeOK
<1>3. InUser(H)' /\ InKernel(H)' /\ Reason'
  BY <1>1, ResetTypes, KernelFacts DEF InUser, InKernel, Reason
<1> QED BY <1>1, <1>2, <1>3, ResetTypes DEF IInv

LEMMA PollIInv ==
  ASSUME NEW H, WellBehaved(H), IInv(H), Poll
  PROVE  IInv(H)'
<1>1. PICK crossed \in BOOLEAN : Become(CheckCompare(CheckInterrupt(State), crossed))
  BY DEF Poll
<1> DEFINE t == CheckCompare(CheckInterrupt(State), crossed)
<1>2. State \in StateType
  BY StateTyped DEF IInv
<1>3. /\ State.pc = pc /\ State.delay = delay /\ State.sr = sr
      /\ State.epc = epc /\ State.panic = panic /\ State.cause = cause
  BY DEF State
<1>4. delay => FollowsBranch(State)
  BY Modes
<1>5. t \in StateType /\ ~t.panic /\ (Refreshed(State, t) \/ Interrupted(State, t))
  BY <1>2, <1>3, <1>4, CodeAssumption, PollEffect DEF IInv
<1> HIDE DEF t
<1>6. /\ pc' = t.pc /\ delay' = t.delay /\ sr' = t.sr /\ cause' = t.cause
      /\ epc' = t.epc /\ compare' = t.compare /\ panic' = t.panic
      /\ UNCHANGED <<dst, errorEpc, bus, regs>>
  BY <1>1 DEF Become, Poll, t
<1>7. TypeOK'
  BY <1>5, <1>6 DEF StateType, CauseType, TypeOK, IInv
<1>8. Pending(State)' = Pending(t)
  BY <1>6 DEF Pending, State
<1>9. CASE Refreshed(State, t)
  <2>1. /\ pc' = pc /\ delay' = delay /\ sr' = sr /\ epc' = epc
        /\ cause'.exc = cause.exc /\ cause'.ip = Pending(State)
        /\ Pending(State) \subseteq Pending(State)'
    BY <1>3, <1>6, <1>8, <1>9 DEF Refreshed
  <2>2. InUser(H)' /\ InKernel(H)'
    BY <1>6, <2>1 DEF IInv, InUser, InSlot, InKernel
  <2>3. Reason'
    BY <2>1 DEF IInv, Reason
  <2> QED BY <1>5, <1>6, <1>7, <2>1, <2>2, <2>3 DEF IInv
<1>10. CASE Interrupted(State, t)
  <2>1. /\ ~sr.exl /\ sr'.exl /\ sr'.erl = sr.erl /\ pc' = Vector /\ ~delay'
        /\ epc' = IF delay THEN pc - 1 ELSE pc
        /\ cause'.exc = "Int"
        /\ sr'.im \cap cause'.ip # {} /\ sr'.im \cap Pending(State)' # {}
    BY <1>3, <1>6, <1>8, <1>10 DEF Interrupted, ReturnTo
  <2>2. epc' \in H
    BY <2>1 DEF IInv, InUser, InSlot
  <2> QED
    BY <1>5, <1>6, <1>7, <2>1, <2>2 DEF IInv, InUser, InKernel, Reason
<1> QED BY <1>5, <1>9, <1>10

\* After an instruction of the user program that is no jump, pc_ is on a head.
LEMMA NextOnHead ==
  ASSUME NEW H, WellBehaved(H), IInv(H), ~sr.exl, Op.kind # "jump"
  PROVE  NextPc \in H
<1>1. CASE delay
  BY <1>1, HeadFacts DEF IInv, InUser, InSlot, NextPc
<1>2. CASE ~delay
  BY <1>2, HeadFacts DEF IInv, InUser, NextPc, Op
<1> QED BY <1>1, <1>2 DEF IInv, TypeOK

LEMMA UserStepIInv ==
  ASSUME NEW H, WellBehaved(H), IInv(H), ~sr.exl, pc' \in H, delay' = FALSE,
         sr' \in Sr, ~sr'.exl, ~sr'.erl, regs' \in Regs,
         cause' \in [exc : Causes, bd : BOOLEAN, ip : SUBSET Lines],
         UNCHANGED <<dst, epc, errorEpc, compare, bus, panic>>
  PROVE  IInv(H)'
<1>1. TypeOK'
  BY KernelFacts DEF IInv, TypeOK
<1> QED BY <1>1 DEF IInv, InUser, InKernel, Reason

LEMMA RunInstIInv ==
  ASSUME NEW H, WellBehaved(H), IInv(H), RunInst
  PROVE  IInv(H)'
<1> USE DEF IInv
<1>k. /\ sr.exl \in BOOLEAN /\ delay \in BOOLEAN
      /\ sr.exl => Op.kind \in {"serve", "eret"}
      /\ ~sr.exl => Op.kind \notin {"serve", "eret"}
  BY Modes DEF TypeOK, Sr
<1>o. ~sr.exl /\ ~delay => pc \in H
  BY DEF InUser
<1>1. CASE Alu
  <2>1. ~sr.exl /\ NextPc \in H
    BY <1>1, <1>k, NextOnHead DEF Alu
  <2>2. regs' \in Regs
    <3>1. Op \in Instr
      BY CodeAssumption DEF TypeOK, Op
    <3>2. Op.f \in [Regs -> Regs]
      BY <3>1 DEF Instr
    <3> QED BY <1>1, <3>2 DEF Alu, TypeOK
  <2> QED BY <1>1, <2>1, <2>2, UserStepIInv DEF Alu, TypeOK
<1>2. CASE BranchTaken
  <2>1. HasDelaySlot(Op) /\ ~sr.exl /\ ~delay
    BY <1>2, <1>k, Modes DEF BranchTaken, Taken, HasDelaySlot
  <2>2. pc \in H /\ pc \in Nat /\ pc + 1 \in Addr /\ Op.target \in H
    BY <2>1, <1>o, HeadFacts DEF Op
  <2>3. pc' = pc + 1 /\ delay' = TRUE /\ dst' = Op.target /\ regs' = Op.f[regs]
        /\ UNCHANGED <<sr, cause, epc, errorEpc, compare, bus, panic>>
    BY <1>2, <2>1 DEF BranchTaken, LinkForJump, NextPc
  <2>r. /\ regs' \in Regs /\ Op.f[regs'] = regs'
        /\ regs' \in Op.cond <=> regs \in Op.cond
    BY <2>1, <2>2, <2>3, HeadFacts DEF TypeOK, Op
  <2>4. pc' - 1 = pc
    BY <2>2, <2>3
  <2>5. TypeOK'
    BY <2>2, <2>3, <2>r, KernelFacts DEF TypeOK
  <2>6. Op.kind = "jump" \/ regs' \in Op.cond
    BY <1>2, <2>r DEF BranchTaken, Taken
  <2>7. InUser(H)'
    BY <2>1, <2>2, <2>3, <2>4, <2>6, <2>r DEF InUser, InSlot, Op
  <2> QED BY <2>1, <2>3, <2>5, <2>7 DEF InKernel, Reason
<1>3. CASE BranchNotTaken
  <2>1. HasDelaySlot(Op) /\ Op.kind # "jump" /\ ~sr.exl /\ ~delay
    BY <1>3, <1>k, Modes DEF BranchNotTaken, HasDelaySlot
  <2>2. pc \in H /\ pc' \in H
    BY <1>3, <1>o, <2>1, HeadFacts DEF BranchNotTaken, NextPc, Op
  <2>3. regs' \in Regs
    BY <1>3, <2>2, HeadFacts DEF BranchNotTaken, LinkForJump, TypeOK, Op
  <2> QED BY <1>3, <2>1, <2>2, <2>3, UserStepIInv DEF BranchNotTaken, TypeOK
<1>4. CASE Trap
  <2>1. ~sr.exl /\ ~delay /\ Op.kind = "trap"
    BY <1>4, <1>k, Modes DEF Trap
  <2> DEFINE s == [State EXCEPT !.delay = FALSE]
             t == TriggerException(s, "Sys")
  <2>2. /\ s.pc = pc /\ s.delay = FALSE /\ s.sr = sr /\ s.cause = cause
        /\ s.epc = epc /\ s.compare = compare /\ s.panic = panic
    BY DEF State
  <2> HIDE DEF s
  <2>3. /\ pc' = Vector /\ delay' = FALSE /\ sr' = [sr EXCEPT !.exl = TRUE]
        /\ cause' = [exc |-> "Sys", bd |-> FALSE, ip |-> Pending(s)]
        /\ epc' = pc /\ compare' = compare /\ panic' = panic
        /\ UNCHANGED <<dst, errorEpc, bus, regs>>
    <3>1. Become(t) /\ UNCHANGED <<dst, errorEpc, bus, regs>>
      BY <1>4 DEF Trap, s
    <3>2. /\ t.pc = Vector /\ t.delay = FALSE /\ t.sr = [sr EXCEPT !.exl = TRUE]
          /\ t.cause = [exc |-> "Sys", bd |-> FALSE, ip |-> Pending(s)]
          /\ t.epc = pc /\ t.compare = compare
          /\ t.panic = (panic \/ (FALSE /\ ~FollowsBranch(s)))
      BY <2>1, <2>2 DEF TriggerException, ReturnTo
    <3>3. (panic \/ (FALSE /\ ~FollowsBranch(s))) = panic
      BY DEF TypeOK
    <3> HIDE DEF t
    <3> QED BY <3>1, <3>2, <3>3 DEF Become
  <2>4. Pending(s) \in SUBSET Lines
    BY DEF Pending, Lines
  <2>5. cause' \in [exc : Causes, bd : BOOLEAN, ip : SUBSET Lines]
        /\ cause'.exc = "Sys"
    BY <2>3, <2>4 DEF Causes
  <2>6. sr' \in Sr /\ sr'.exl /\ sr'.erl = sr.erl
    BY <2>3, SetExl DEF TypeOK
  <2>7. pc \in H /\ Code[pc].kind = "trap"
    BY <1>o, <2>1 DEF Op
  <2>8. TypeOK'
    BY <2>3, <2>5, <2>6, KernelFacts DEF TypeOK
  <2> QED
    BY <2>3, <2>5, <2>6, <2>7, <2>8 DEF InUser, InKernel, Reason
<1>5. CASE MoveToSr
  <2>1. ~sr.exl /\ ~delay /\ NextPc \in H /\ pc \in H
    BY <1>5, <1>k, <1>o, Modes, NextOnHead DEF MoveToSr
  <2>2. Op.sr \in Sr /\ ~Op.sr.exl /\ ~Op.sr.erl
    BY <2>1, HeadFacts DEF Op
  <2> QED BY <1>5, <2>1, <2>2, UserStepIInv DEF MoveToSr, TypeOK
<1>6. CASE MoveToCause
  <2>1. ~sr.exl /\ NextPc \in H
    BY <1>6, <1>k, NextOnHead DEF MoveToCause
  <2>2. Op.sw \in SUBSET {"sw"}
    <3>1. Op \in Instr
      BY CodeAssumption DEF TypeOK, Op
    <3> QED BY <3>1 DEF Instr
  <2>3. cause' \in [exc : Causes, bd : BOOLEAN, ip : SUBSET Lines]
    <3> DEFINE ip == (cause.ip \ {"sw"}) \cup Op.sw
    <3>1. cause \in CauseType
      BY DEF TypeOK, CauseType
    <3>2. ip \in SUBSET Lines
      BY <2>2, <3>1 DEF CauseType, Lines
    <3>3. cause' = [cause EXCEPT !.ip = ip]
      BY <1>6 DEF MoveToCause
    <3> HIDE DEF ip
    <3> QED BY <3>1, <3>2, <3>3, SetIp DEF CauseType
  <2> QED BY <1>6, <2>1, <2>3, UserStepIInv DEF MoveToCause, TypeOK
<1>7. CASE Eret
  <2>1. sr.exl /\ ~sr.erl
    BY <1>7, <1>k DEF Eret
  <2>2. pc' = epc /\ epc \in H /\ delay' = FALSE /\ sr' = [sr EXCEPT !.exl = FALSE]
        /\ UNCHANGED <<dst, cause, epc, errorEpc, compare, bus, regs, panic>>
    BY <1>7, <2>1 DEF Eret, InKernel
  <2>3. sr' \in Sr /\ ~sr'.exl /\ sr'.erl = sr.erl
    BY <2>2, ClearExl DEF TypeOK
  <2>4. TypeOK'
    BY <2>2, <2>3, KernelFacts DEF TypeOK
  <2> QED BY <2>1, <2>2, <2>3, <2>4 DEF InUser, InKernel, Reason
<1>8. CASE Serve
  <2>1. sr.exl /\ ~delay /\ pc = Vector /\ epc \in H
    BY <1>8, <1>k, Modes DEF Serve, InKernel
  <2>2. pc' = Vector + 1 /\ delay' = FALSE /\ UNCHANGED <<dst, sr, errorEpc, regs, panic>>
    BY <1>8, <2>1 DEF Serve, NextPc
  <2>3. epc' \in H
    <3>1. CASE cause.exc = "Int"
      BY <1>8, <2>1, <3>1 DEF Serve
    <3>2. CASE cause.exc # "Int"
      <4>1. Code[epc].kind = "trap"
        BY <2>1, <3>2 DEF InKernel, TypeOK
      <4> QED BY <1>8, <2>1, <3>2, <4>1, HeadFacts DEF Serve
    <3> QED BY <3>1, <3>2
  <2>4. cause' \in [exc : Causes, bd : BOOLEAN, ip : SUBSET Lines]
        /\ bus' \in BOOLEAN /\ compare' \in BOOLEAN
    <3>1. CASE cause.exc = "Int"
      <4> DEFINE ip == cause.ip \ {"sw"}
      <4>1. cause \in CauseType
        BY DEF TypeOK, CauseType
      <4>2. ip \in SUBSET Lines
        BY <4>1 DEF CauseType
      <4>3. cause' = [cause EXCEPT !.ip = ip]
        BY <1>8, <3>1 DEF Serve
      <4> HIDE DEF ip
      <4>4. cause' \in CauseType
        BY <4>1, <4>2, <4>3, SetIp
      <4>5. bus' \in BOOLEAN /\ compare' \in BOOLEAN
        BY <1>8, <3>1 DEF Serve
      <4> QED BY <4>4, <4>5 DEF CauseType
    <3>2. CASE cause.exc # "Int"
      BY <1>8, <3>2 DEF Serve, TypeOK
    <3> QED BY <3>1, <3>2
  <2>5. TypeOK'
    BY <2>2, <2>3, <2>4, KernelFacts DEF TypeOK
  <2>6. pc' # Vector
    BY <2>2, KernelFacts
  <2> QED BY <2>1, <2>2, <2>3, <2>5, <2>6 DEF InUser, InKernel, Reason
<1> QED
  BY <1>1, <1>2, <1>3, <1>4, <1>5, <1>6, <1>7, <1>8 DEF RunInst

LEMMA NextIInv ==
  ASSUME NEW H, WellBehaved(H)
  PROVE  IInv(H) /\ [Next]_vars => IInv(H)'
<1> SUFFICES ASSUME IInv(H), [Next]_vars PROVE IInv(H)'
  OBVIOUS
<1>1. CASE Poll
  BY <1>1, PollIInv
<1>2. CASE RunInst
  BY <1>2, RunInstIInv
<1>3. CASE RaiseBus
  <2>1. bus' = TRUE /\ UNCHANGED <<pc, delay, dst, sr, cause, epc, errorEpc,
                                   compare, panic, regs>>
    BY <1>3 DEF RaiseBus, cpu
  <2>2. Pending(State) \subseteq Pending(State)'
    BY <2>1 DEF Pending, State
  <2> QED
    BY <2>1, <2>2 DEF IInv, TypeOK, InUser, InSlot, InKernel, Reason
<1>4. CASE Restart
  BY <1>4, RestartIInv
<1>5. CASE UNCHANGED vars
  <2>1. Pending(State)' = Pending(State)
    BY <1>5 DEF vars, cpu, Pending, State
  <2> QED
    BY <1>5, <2>1
    DEF vars, cpu, IInv, TypeOK, InUser, InSlot, InKernel, Reason
<1> QED BY <1>1, <1>2, <1>3, <1>4, <1>5 DEF Next

-----------------------------------------------------------------------------
(* The results. *)

\* In every reachable state of a well-behaved program a pending delay slot
\* belongs to a taken branch, and a saved EPC is a place to go on from.
THEOREM InvariantHolds ==
  ASSUME NEW CONSTANT H, WellBehaved(H)
  PROVE  Spec => []IInv(H)
<1>1. Init => IInv(H)
  BY InitIInv
<1>2. IInv(H) /\ [Next]_vars => IInv(H)'
  BY NextIInv
<1> QED BY <1>1, <1>2, PTL DEF Spec

\* Every part of the state keeps its type: the program counter never leaves the
\* program, and no reset, trap or return makes an illegal Status or Cause.
THEOREM TypesAreRight ==
  ASSUME NEW CONSTANT H, WellBehaved(H)
  PROVE  Spec => []TypeOK
<1>1. IInv(H) => TypeOK
  BY DEF IInv
<1> QED BY <1>1, InvariantHolds, PTL

\* The assertion in TriggerException ("NON BRANCH ON BD") never fires.
THEOREM SlotsFollowBranches ==
  ASSUME NEW CONSTANT H, WellBehaved(H)
  PROVE  Spec => []NonBranchOnBd
<1>1. IInv(H) => NonBranchOnBd
  BY DEF IInv, NonBranchOnBd
<1> QED BY <1>1, InvariantHolds, PTL

\* A kernel entered for an interrupt finds the line that caused it in Cause.
THEOREM ReasonIsSeen ==
  ASSUME NEW CONSTANT H, WellBehaved(H)
  PROVE  Spec => []KernelSeesReason
<1>1. IInv(H) => KernelSeesReason
  BY DEF IInv, Reason, KernelSeesReason
<1> QED BY <1>1, InvariantHolds, PTL

\* Where the uninterrupted program stands.
UserAt == IF sr.exl THEN epc ELSE IF delay THEN pc - 1 ELSE pc

LEMMA InitUser == Init => User!Init
BY ResetTypes DEF Init, User!Init, UserAt

\* A step of the processor is a step of the uninterrupted program or none of it.
LEMMA NextUser ==
  ASSUME NEW H, WellBehaved(H), IInv(H), [Next]_vars
  PROVE  [User!Next]_User!vars
<1>0. sr.exl \in BOOLEAN /\ delay \in BOOLEAN /\ pc \in Nat
  BY CodeAssumption DEF IInv, TypeOK, Sr
<1>k. /\ sr.exl => Op.kind \in {"serve", "eret"} /\ ~delay
      /\ ~sr.exl => Op.kind \notin {"serve", "eret"}
  BY Modes, <1>0
<1>1. ASSUME UserAt' = UserAt, regs' = regs
      PROVE  UNCHANGED User!vars
  BY <1>1 DEF UserAt, User!vars
<1>2. CASE Poll
  <2>1. PICK crossed \in BOOLEAN :
          Become(CheckCompare(CheckInterrupt(State), crossed))
    BY <1>2 DEF Poll
  <2> DEFINE t == CheckCompare(CheckInterrupt(State), crossed)
  <2>2. /\ State.pc = pc /\ State.delay = delay /\ State.sr = sr
        /\ State.epc = epc /\ State.panic = panic
    BY DEF State
  <2>3. Refreshed(State, t) \/ Interrupted(State, t)
    BY <2>2, StateTyped, Modes, CodeAssumption, PollEffect DEF IInv
  <2> HIDE DEF t
  <2>4. pc' = t.pc /\ delay' = t.delay /\ sr' = t.sr /\ epc' = t.epc /\ regs' = regs
    BY <1>2, <2>1 DEF Become, Poll, t
  <2>5. UserAt' = UserAt
    <3>1. CASE Refreshed(State, t)
      BY <2>2, <2>4, <3>1 DEF Refreshed, UserAt
    <3>2. CASE Interrupted(State, t)
      BY <2>2, <2>4, <3>2 DEF Interrupted, ReturnTo, UserAt
    <3> QED BY <2>3, <3>1, <3>2
  <2> QED BY <1>1, <2>4, <2>5
<1>3. CASE Alu
  <2>1. ~sr.exl /\ sr' = sr /\ pc' = NextPc /\ delay' = FALSE /\ regs' = Op.f[regs]
    BY <1>3, <1>k DEF Alu
  <2>2. UserAt' = NextPc
    BY <2>1 DEF UserAt
  <2>3. CASE delay
    <3>1. UserAt = pc - 1 /\ (pc - 1) + 1 = pc
      BY <2>1, <2>3, <1>0 DEF UserAt
    <3>2. /\ Code[UserAt].kind = "jump"
             \/ (Code[UserAt].kind \in {"branch", "likely"} /\ regs \in Code[UserAt].cond)
          /\ dst = Code[UserAt].target /\ Code[UserAt].f[regs] = regs
      BY <2>1, <2>3, <3>1 DEF IInv, InUser, InSlot, HasDelaySlot
    <3>3. User!BranchAndSlot
      BY <2>1, <2>2, <2>3, <3>1, <3>2
      DEF User!BranchAndSlot, User!Taken, User!Op, UserAt, NextPc, Op
    <3> QED BY <3>3 DEF User!Next
  <2>4. CASE ~delay
    <3>1. User!Plain
      BY <1>3, <2>1, <2>2, <2>4 DEF User!Plain, User!Op, UserAt, NextPc, Op, Alu
    <3> QED BY <3>1 DEF User!Next
  <2> QED BY <1>0, <2>3, <2>4
<1>4. CASE BranchTaken
  <2>1. ~sr.exl /\ ~delay
    BY <1>4, <1>k, Modes DEF BranchTaken, Taken
  <2>2. UserAt' = UserAt /\ UserAt = pc /\ regs' = Op.f[regs]
    BY <1>4, <2>1, <1>0 DEF BranchTaken, LinkForJump, NextPc, UserAt
  <2>3. User!Link
    BY <1>4, <2>2 DEF BranchTaken, Taken, Op, User!Link, User!Op, UserAt
  <2> QED BY <2>3 DEF User!Next
<1>5. CASE BranchNotTaken
  <2>1. ~sr.exl /\ ~delay
    BY <1>5, <1>k, Modes DEF BranchNotTaken
  <2>2. User!NotTaken
    BY <1>5, <2>1
    DEF BranchNotTaken, LinkForJump, Taken, NextPc, Op,
        User!NotTaken, User!Taken, User!Op
  <2> QED BY <2>2 DEF User!Next
<1>6. CASE Trap
  <2>1. ~sr.exl /\ ~delay
    BY <1>6, <1>k, Modes DEF Trap
  <2> DEFINE s == [State EXCEPT !.delay = FALSE]
             t == TriggerException(s, "Sys")
  <2>2. s.pc = pc /\ s.delay = FALSE /\ s.sr = sr
    BY DEF State
  <2> HIDE DEF s
  <2>3. t.epc = pc /\ t.sr = [sr EXCEPT !.exl = TRUE]
    BY <2>1, <2>2 DEF TriggerException, ReturnTo
  <2> HIDE DEF t
  <2>4. epc' = t.epc /\ sr' = t.sr /\ regs' = regs
    BY <1>6 DEF Trap, Become, s, t
  <2>5. sr'.exl
    BY <2>3, <2>4, SetExl DEF IInv, TypeOK
  <2> QED BY <1>1, <2>1, <2>3, <2>4, <2>5 DEF UserAt
<1>7. CASE MoveToSr \/ MoveToCause
  <2>1. ~sr.exl /\ ~delay /\ pc \in H
    BY <1>7, <1>k, Modes DEF MoveToSr, MoveToCause, IInv, InUser
  <2>2. ~sr'.exl
    BY <1>7, <2>1, HeadFacts DEF MoveToSr, MoveToCause, Op
  <2>3. User!Supervisor
    BY <1>7, <2>1, <2>2
    DEF MoveToSr, MoveToCause, NextPc, Op, User!Supervisor, User!Op
  <2> QED BY <2>3 DEF User!Next
<1>8. CASE Eret
  <2>1. sr.exl /\ ~sr.erl
    BY <1>8, <1>k DEF Eret, IInv
  <2>2. pc' = epc /\ delay' = FALSE /\ sr' = [sr EXCEPT !.exl = FALSE] /\ regs' = regs
    BY <1>8, <2>1 DEF Eret
  <2>3. ~sr'.exl
    BY <2>2, ClearExl DEF IInv, TypeOK
  <2> QED BY <1>1, <2>1, <2>2, <2>3 DEF UserAt
<1>9. CASE Serve
  <2>1. sr.exl /\ sr' = sr /\ regs' = regs /\ pc = Vector
    BY <1>9, <1>k, Modes DEF Serve
  <2>2. CASE cause.exc = "Int"
    <3>1. UserAt' = UserAt
      BY <1>9, <2>1, <2>2 DEF Serve, UserAt
    <3> QED BY <1>1, <2>1, <3>1
  <2>3. CASE cause.exc # "Int"
    <3>1. Code[epc].kind = "trap"
      BY <2>1, <2>3 DEF IInv, InKernel, TypeOK
    <3>2. User!Supervisor
      BY <1>9, <2>1, <2>3, <3>1 DEF Serve, User!Supervisor, User!Op
    <3> QED BY <3>2 DEF User!Next
  <2> QED BY <2>2, <2>3
<1>10. CASE RaiseBus
  BY <1>1, <1>10 DEF RaiseBus, cpu, UserAt
<1>11. CASE Restart
  <2>1. UserAt' \in Starts /\ regs' = InitRegs
    BY <1>11, ResetTypes DEF Restart, UserAt
  <2>2. User!Restart
    BY <2>1 DEF User!Restart, UserAt
  <2> QED BY <2>2 DEF User!Next
<1>12. CASE UNCHANGED vars
  BY <1>1, <1>12 DEF vars, cpu, UserAt
<1> QED
  BY <1>2, <1>3, <1>4, <1>5, <1>6, <1>7, <1>8, <1>9, <1>10, <1>11, <1>12
  DEF Next, RunInst

\* Interrupts are invisible to a well-behaved program, whenever they come: the
\* processor implements the one that has none.
THEOREM InterruptsTransparent ==
  ASSUME NEW CONSTANT H, WellBehaved(H)
  PROVE  Spec => Transparent
<1>1. IInv(H) /\ [Next]_vars => [User!Next]_User!vars
  BY NextUser
<1> QED
  BY <1>1, InitUser, InvariantHolds, PTL DEF Spec, Transparent, User!Spec
=============================================================================
