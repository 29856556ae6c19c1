------------------------------- MODULE MipsAlu -------------------------------
(***************************************************************************)
(* Integer arithmetic of the 64-bit interpreter: addition and subtraction  *)
(* with and without traps, logic, comparison, shifts, and multiplication   *)
(* and division into HI and LO, over the general registers.                *)
(*                                                                         *)
(* A register is an unsigned number below 2^(2 * Bits), a word one below   *)
(* 2^Bits.  Every handler is modelled with the width it reads its operands *)
(* at, the width it computes at, and the way it extends its result.  An    *)
(* overflow here is only noted; the exception it raises is in MipsCpu.     *)
(***************************************************************************)
EXTENDS Integers

CONSTANTS
  Bits,        \* of a word: 32
  ImmBits,     \* of an immediate operand: 16
  Regs,        \* the general registers: 0 .. 31
  Values,      \* what the registers may hold at first,
  HiLos,       \* and HI and LO
  MaxInsts     \* bound: the instructions run

Pow(n) == 2 ^ n
W32 == Pow(Bits)
W64 == Pow(2 * Bits)
Word == 0 .. W32 - 1
DWord == 0 .. W64 - 1
Imm == 0 .. Pow(ImmBits) - 1
ShiftField == 0 .. Bits - 1

ASSUME AluAssumption ==
  /\ Bits \in Nat /\ ImmBits \in 1 .. Bits - 1
  /\ 0 \in Regs
  /\ Values \subseteq DWord /\ HiLos \subseteq DWord \X DWord
  /\ MaxInsts \in Nat

\* What a power of two is.
ASSUME PowerAssumption ==
  Pow(0) = 1 /\ \A n \in 0 .. 2 * Bits - 1 : Pow(n + 1) = 2 * Pow(n)

VARIABLES
  gpr, hi, lo,
  hasException,    \* config_.has_exception_
  ovf,             \* the last instruction overflowed, with an exception
  insts,           \* how many instructions have run
  last,            \* history: the last instruction, its operands, and gpr before it
  narrow           \* history: 32-bit instructions on 32-bit values only, so far

vars == <<gpr, hi, lo, hasException, ovf, insts, last, narrow>>

-----------------------------------------------------------------------------
(* Widths and signs. *)

Msb(x, size) == 2 * x >= size
Signed(x, size) == IF Msb(x, size) THEN x - size ELSE x

\* sext_i32_to_i64 and the conversions to int64_t.
Sext(w) == Signed(w, W32) % W64
SextImm(i, size) == Signed(i, Pow(ImmBits)) % size

ReadGpr32(r) == gpr[r] % W32
ReadGpr64(r) == gpr[r]

Canon(v) == v = Sext(v % W32)

\* Register 0 stays 0.
WriteGpr64(r, v) == gpr' = IF r = 0 THEN gpr ELSE [gpr EXCEPT ![r] = v]
WriteGpr32Sext(r, w) == WriteGpr64(r, Sext(w))
WriteGpr32(r, w) == WriteGpr64(r, w)

\* The bit tricks: the sign of the result against those of the operands.
OverflowAdd(res, lhs, rhs, size) ==
  Msb(lhs, size) # Msb(res, size) /\ Msb(rhs, size) # Msb(res, size)

\* Variant: the signs compared as for an addition.
OverflowSub_AsAdd(res, lhs, rhs, size) == OverflowAdd(res, lhs, rhs, size)

OverflowSub(res, lhs, rhs, size) ==
  Msb(lhs, size) # Msb(rhs, size) /\ Msb(lhs, size) # Msb(res, size)

Bit(x, i) == (x \div Pow(i)) % 2

-----------------------------------------------------------------------------
Init ==
  /\ gpr \in [Regs -> Values \cup {0}] /\ gpr[0] = 0
  /\ \E p \in HiLos : hi = p[1] /\ lo = p[2]
  /\ hasException \in BOOLEAN
  /\ ovf = FALSE /\ insts = 0
  /\ last = [op |-> "", x |-> 0, y |-> 0, dst |-> 0, file |-> gpr]
  /\ narrow = (Canon(hi) /\ Canon(lo) /\ \A r \in Regs : Canon(gpr[r]))

\* One instruction, by name, of one width, with its operands.
Inst(op, wide, x, y, dst) ==
  /\ insts' = insts + 1
  /\ last' = [op |-> op, x |-> x, y |-> y, dst |-> dst, file |-> gpr]
  /\ narrow' = (narrow /\ ~wide)
  /\ UNCHANGED hasException

Plain == ovf' = FALSE /\ UNCHANGED <<hi, lo>>

\* A result, unless it overflowed.
Trapping(overflows, Write) ==
  /\ ovf' = overflows
  /\ IF overflows THEN UNCHANGED gpr ELSE Write
  /\ UNCHANGED <<hi, lo>>

Add32(op, x, y, dst) ==
  LET sum == (x + y) % W32
  IN  Inst(op, FALSE, x, y, dst)
      /\ Trapping(hasException /\ OverflowAdd(sum, x, y, W32), WriteGpr32Sext(dst, sum))
Sub32(op, x, y, dst) ==
  LET diff == (x - y) % W32
  IN  Inst(op, FALSE, x, y, dst)
      /\ Trapping(hasException /\ OverflowSub(diff, x, y, W32), WriteGpr32Sext(dst, diff))

\* The doubleword instructions trap whatever the configuration says.
Add64(op, x, y, dst) ==
  LET sum == (x + y) % W64
  IN  Inst(op, TRUE, x, y, dst)
      /\ Trapping(OverflowAdd(sum, x, y, W64), WriteGpr64(dst, sum))
Sub64(op, x, y, dst) ==
  LET diff == (x - y) % W64
  IN  Inst(op, TRUE, x, y, dst)
      /\ Trapping(OverflowSub(diff, x, y, W64), WriteGpr64(dst, diff))

InstAdd(rd, rs, rt) == Add32("ADD", ReadGpr32(rs), ReadGpr32(rt), rd)
InstAddi(rt, rs, i) == Add32("ADDI", ReadGpr32(rs), SextImm(i, W32), rt)
InstSub(rd, rs, rt) == Sub32("SUB", ReadGpr32(rs), ReadGpr32(rt), rd)
InstDadd(rd, rs, rt) == Add64("DADD", ReadGpr64(rs), ReadGpr64(rt), rd)
InstDaddi(rt, rs, i) == Add64("DADDI", ReadGpr64(rs), SextImm(i, W64), rt)
InstDsub(rd, rs, rt) == Sub64("DSUB", ReadGpr64(rs), ReadGpr64(rt), rd)

\* Results without a trap, at the width they are written.
Result32(op, x, y, dst, w) == Inst(op, FALSE, x, y, dst) /\ Plain /\ WriteGpr32Sext(dst, w)
Result64(op, wide, x, y, dst, v) == Inst(op, wide, x, y, dst) /\ Plain /\ WriteGpr64(dst, v)

InstAddu(rd, rs, rt) ==
  LET x == ReadGpr32(rs) y == ReadGpr32(rt) IN Result32("ADDU", x, y, rd, (x + y) % W32)
InstAddiu(rt, rs, i) ==
  LET x == ReadGpr32(rs) y == SextImm(i, W32) IN Result32("ADDIU", x, y, rt, (x + y) % W32)
InstSubu(rd, rs, rt) ==
  LET x == ReadGpr32(rs) y == ReadGpr32(rt) IN Result32("SUBU", x, y, rd, (x - y) % W32)
InstDaddu(rd, rs, rt) ==
  LET x == ReadGpr64(rs) y == ReadGpr64(rt) IN Result64("DADDU", TRUE, x, y, rd, (x + y) % W64)
InstDaddiu(rt, rs, i) ==
  LET x == ReadGpr64(rs) y == SextImm(i, W64) IN Result64("DADDIU", TRUE, x, y, rt, (x + y) % W64)
InstDsubu(rd, rs, rt) ==
  LET x == ReadGpr64(rs) y == ReadGpr64(rt) IN Result64("DSUBU", TRUE, x, y, rd, (x - y) % W64)
InstLui(rt, i) == Result32("LUI", i, 0, rt, (i * Pow(ImmBits)) % W32)

-----------------------------------------------------------------------------
(* Logic, always on doublewords; immediates are not sign-extended. *)

Gate(op, p, q) ==
  CASE op \in {"AND", "ANDI"} -> p * q
    [] op \in {"OR", "ORI"}   -> p + q - p * q
    [] op \in {"XOR", "XORI"} -> (p + q) % 2
    [] op = "NOR"             -> 1 - (p + q - p * q)

\* The doubleword each bit of which comes from the same bits of two others.
Logic(op, x, y, dst) ==
  \E v \in DWord :
    /\ \A i \in 0 .. 2 * Bits - 1 : Bit(v, i) = Gate(op, Bit(x, i), Bit(y, i))
    /\ Result64(op, FALSE, x, y, dst, v)

InstAnd(rd, rs, rt) == Logic("AND", ReadGpr64(rs), ReadGpr64(rt), rd)
InstOr(rd, rs, rt) == Logic("OR", ReadGpr64(rs), ReadGpr64(rt), rd)
InstXor(rd, rs, rt) == Logic("XOR", ReadGpr64(rs), ReadGpr64(rt), rd)
InstNor(rd, rs, rt) == Logic("NOR", ReadGpr64(rs), ReadGpr64(rt), rd)
InstAndi(rt, rs, i) == Logic("ANDI", ReadGpr64(rs), i, rt)
InstOri(rt, rs, i) == Logic("ORI", ReadGpr64(rs), i, rt)
InstXori(rt, rs, i) == Logic("XORI", ReadGpr64(rs), i, rt)

(* Comparison, always of doublewords. *)

SetIf(op, x, y, dst, cond) ==
  Inst(op, FALSE, x, y, dst) /\ Plain /\ WriteGpr32(dst, IF cond THEN 1 ELSE 0)

InstSlt(rd, rs, rt) ==
  LET x == ReadGpr64(rs) y == ReadGpr64(rt) IN SetIf("SLT", x, y, rd, Signed(x, W64) < Signed(y, W64))
InstSltu(rd, rs, rt) ==
  LET x == ReadGpr64(rs) y == ReadGpr64(rt) IN SetIf("SLTU", x, y, rd, x < y)
InstSlti(rt, rs, i) ==
  LET x == ReadGpr64(rs) y == SextImm(i, W64) IN SetIf("SLTI", x, y, rt, Signed(x, W64) < Signed(y, W64))
InstSltiu(rt, rs, i) ==
  LET x == ReadGpr64(rs) y == SextImm(i, W64) IN SetIf("SLTIU", x, y, rt, x < y)

-----------------------------------------------------------------------------
(* Shifts.  By the field of the instruction, or by a register, of which    *)
(* only the bits of a shift amount count; the "32" forms add Bits.         *)

\* Variant: what is shifted out at the top is not cut off.
Left_Uncut(x, s, size) == x * Pow(s)

Left(x, s, size) == (x * Pow(s)) % size
Right(x, s) == x \div Pow(s)
Arith(x, s, size) == (Signed(x, size) \div Pow(s)) % size

Sll(op, rd, rt, s) == LET x == ReadGpr32(rt) IN Result32(op, x, s, rd, Left(x, s, W32))

\* Variant: the result is not extended.
Srl_Zero(op, rd, rt, s) ==
  LET x == ReadGpr32(rt) IN Result64(op, FALSE, x, s, rd, Right(x, s))

Srl(op, rd, rt, s) == LET x == ReadGpr32(rt) IN Result32(op, x, s, rd, Right(x, s))
Sra(op, rd, rt, s) == LET x == ReadGpr32(rt) IN Result32(op, x, s, rd, Arith(x, s, W32))
Dsll(op, rd, rt, s) == LET x == ReadGpr64(rt) IN Result64(op, TRUE, x, s, rd, Left(x, s, W64))
Dsrl(op, rd, rt, s) == LET x == ReadGpr64(rt) IN Result64(op, TRUE, x, s, rd, Right(x, s))
Dsra(op, rd, rt, s) == LET x == ReadGpr64(rt) IN Result64(op, TRUE, x, s, rd, Arith(x, s, W64))

Amount32(rs) == ReadGpr32(rs) % Bits
Amount64(rs) == ReadGpr64(rs) % (2 * Bits)

InstSll(rd, rt, f) == Sll("SLL", rd, rt, f)
InstSrl(rd, rt, f) == Srl("SRL", rd, rt, f)
InstSra(rd, rt, f) == Sra("SRA", rd, rt, f)
InstSllv(rd, rt, rs) == Sll("SLLV", rd, rt, Amount32(rs))
InstSrlv(rd, rt, rs) == Srl("SRLV", rd, rt, Amount32(rs))
InstSrav(rd, rt, rs) == Sra("SRAV", rd, rt, Amount32(rs))
InstDsll(rd, rt, f) == Dsll("DSLL", rd, rt, f)
InstDsrl(rd, rt, f) == Dsrl("DSRL", rd, rt, f)
InstDsra(rd, rt, f) == Dsra("DSRA", rd, rt, f)
InstDsll32(rd, rt, f) == Dsll("DSLL32", rd, rt, f + Bits)
InstDsrl32(rd, rt, f) == Dsrl("DSRL32", rd, rt, f + Bits)
InstDsra32(rd, rt, f) == Dsra("DSRA32", rd, rt, f + Bits)
InstDsllv(rd, rt, rs) == Dsll("DSLLV", rd, rt, Amount64(rs))
InstDsrlv(rd, rt, rs) == Dsrl("DSRLV", rd, rt, Amount64(rs))
InstDsrav(rd, rt, rs) == Dsra("DSRAV", rd, rt, Amount64(rs))

-----------------------------------------------------------------------------
(* Multiplication and division, into HI and LO. *)

Product32(op, x, y, p) ==
  /\ Inst(op, FALSE, x, y, 0)
  /\ hi' = Sext((p \div W32) % W32) /\ lo' = Sext(p % W32)
  /\ ovf' = FALSE /\ UNCHANGED gpr
Product64(op, x, y, p) ==
  /\ Inst(op, TRUE, x, y, 0)
  /\ hi' = (p \div W64) % W64 /\ lo' = p % W64
  /\ ovf' = FALSE /\ UNCHANGED gpr

InstMult(rs, rt) ==
  LET x == ReadGpr32(rs) y == ReadGpr32(rt) IN Product32("MULT", x, y, Signed(x, W32) * Signed(y, W32))
InstMultu(rs, rt) ==
  LET x == ReadGpr32(rs) y == ReadGpr32(rt) IN Product32("MULTU", x, y, x * y)
InstDmult(rs, rt) ==
  LET x == ReadGpr64(rs) y == ReadGpr64(rt) IN Product64("DMULT", x, y, Signed(x, W64) * Signed(y, W64))
InstDmultu(rs, rt) ==
  LET x == ReadGpr64(rs) y == ReadGpr64(rt) IN Product64("DMULTU", x, y, x * y)

Magnitude(n) == IF n < 0 THEN -n ELSE n

\* Variant: a quotient is rounded down.
Quotient_Floor(n, d) == IF d > 0 THEN n \div d ELSE (-n) \div (-d)

\* C's division, towards zero.
Quotient(n, d) ==
  LET q == Magnitude(n) \div Magnitude(d) IN IF (n < 0) = (d < 0) THEN q ELSE -q
Remainder(n, d) == n - d * Quotient(n, d)

\* The quotient and remainder of signed numbers of one width: a division by zero
\* leaves the dividend, and the most negative number divided by -1 is itself.
SignedDivision(n, d, size) ==
  IF d = 0 THEN [q |-> IF n < 0 THEN 1 ELSE -1, r |-> n]
  ELSE IF 2 * n = -size /\ d = -1 THEN [q |-> n, r |-> 0]
  ELSE [q |-> Quotient(n, d), r |-> Remainder(n, d)]
UnsignedDivision(n, d, size) ==
  IF d = 0 THEN [q |-> size - 1, r |-> n] ELSE [q |-> n \div d, r |-> n % d]

Division32(op, x, y, result) ==
  /\ Inst(op, FALSE, x, y, 0)
  /\ hi' = Sext(result.r % W32) /\ lo' = Sext(result.q % W32)
  /\ ovf' = FALSE /\ UNCHANGED gpr
Division64(op, x, y, result) ==
  /\ Inst(op, TRUE, x, y, 0)
  /\ hi' = result.r % W64 /\ lo' = result.q % W64
  /\ ovf' = FALSE /\ UNCHANGED gpr

InstDiv(rs, rt) ==
  LET x == ReadGpr32(rs) y == ReadGpr32(rt)
  IN  Division32("DIV", x, y, SignedDivision(Signed(x, W32), Signed(y, W32), W32))
InstDivu(rs, rt) ==
  LET x == ReadGpr32(rs) y == ReadGpr32(rt) IN Division32("DIVU", x, y, UnsignedDivision(x, y, W32))
InstDdiv(rs, rt) ==
  LET x == ReadGpr64(rs) y == ReadGpr64(rt)
  IN  Division64("DDIV", x, y, SignedDivision(Signed(x, W64), Signed(y, W64), W64))
InstDdivu(rs, rt) ==
  LET x == ReadGpr64(rs) y == ReadGpr64(rt) IN Division64("DDIVU", x, y, UnsignedDivision(x, y, W64))

InstMfhi(rd) == Result64("MFHI", FALSE, hi, 0, rd, hi)
InstMflo(rd) == Result64("MFLO", FALSE, lo, 0, rd, lo)
InstMthi(rs) ==
  Inst("MTHI", FALSE, ReadGpr64(rs), 0, 0) /\ hi' = ReadGpr64(rs) /\ ovf' = FALSE /\ UNCHANGED <<gpr, lo>>
InstMtlo(rs) ==
  Inst("MTLO", FALSE, ReadGpr64(rs), 0, 0) /\ lo' = ReadGpr64(rs) /\ ovf' = FALSE /\ UNCHANGED <<gpr, hi>>

-----------------------------------------------------------------------------
AddSub ==
  \/ \E rd, rs, rt \in Regs :
       \/ InstAdd(rd, rs, rt) \/ InstAddu(rd, rs, rt) \/ InstSub(rd, rs, rt)
       \/ InstSubu(rd, rs, rt) \/ InstDadd(rd, rs, rt) \/ InstDaddu(rd, rs, rt)
       \/ InstDsub(rd, rs, rt) \/ InstDsubu(rd, rs, rt)
  \/ \E rt, rs \in Regs, i \in Imm :
       \/ InstAddi(rt, rs, i) \/ InstAddiu(rt, rs, i) \/ InstDaddi(rt, rs, i)
       \/ InstDaddiu(rt, rs, i)
LogicCompare ==
  \/ \E rd, rs, rt \in Regs :
       \/ InstAnd(rd, rs, rt) \/ InstOr(rd, rs, rt) \/ InstXor(rd, rs, rt) \/ InstNor(rd, rs, rt)
       \/ InstSlt(rd, rs, rt) \/ InstSltu(rd, rs, rt)
  \/ \E rt, rs \in Regs, i \in Imm :
       \/ InstAndi(rt, rs, i) \/ InstOri(rt, rs, i) \/ InstXori(rt, rs, i)
       \/ InstSlti(rt, rs, i) \/ InstSltiu(rt, rs, i)
  \/ \E rt \in Regs, i \in Imm : InstLui(rt, i)
Shift ==
  \/ \E rd, rt \in Regs, f \in ShiftField :
       \/ InstSll(rd, rt, f) \/ InstSrl(rd, rt, f) \/ InstSra(rd, rt, f)
       \/ InstDsll(rd, rt, f) \/ InstDsrl(rd, rt, f) \/ InstDsra(rd, rt, f)
       \/ InstDsll32(rd, rt, f) \/ InstDsrl32(rd, rt, f) \/ InstDsra32(rd, rt, f)
  \/ \E rd, rt, rs \in Regs :
       \/ InstSllv(rd, rt, rs) \/ InstSrlv(rd, rt, rs) \/ InstSrav(rd, rt, rs)
       \/ InstDsllv(rd, rt, rs) \/ InstDsrlv(rd, rt, rs) \/ InstDsrav(rd, rt, rs)
MultDiv ==
  \/ \E rs, rt \in Regs :
       \/ InstMult(rs, rt) \/ InstMultu(rs, rt) \/ InstDmult(rs, rt) \/ InstDmultu(rs, rt)
       \/ InstDiv(rs, rt) \/ InstDivu(rs, rt) \/ InstDdiv(rs, rt) \/ InstDdivu(rs, rt)
  \/ \E r \in Regs : InstMfhi(r) \/ InstMflo(r) \/ InstMthi(r) \/ InstMtlo(r)

Next == insts < MaxInsts /\ (AddSub \/ LogicCompare \/ Shift \/ MultDiv)
Spec == Init /\ [][Next]_vars

-----------------------------------------------------------------------------
TypeOK ==
  /\ gpr \in [Regs -> DWord] /\ gpr[0] = 0
  /\ hi \in DWord /\ lo \in DWord
  /\ hasException \in BOOLEAN /\ ovf \in BOOLEAN /\ narrow \in BOOLEAN
  /\ insts \in 0 .. MaxInsts

InRange(n, size) == -size <= 2 * n /\ 2 * n < size

\* What the last instruction should have computed, if it is one that may trap.
IsTrapping(op) == op \in {"ADD", "ADDI", "SUB", "DADD", "DADDI", "DSUB"}
Size(op) == IF op \in {"ADD", "ADDI", "SUB"} THEN W32 ELSE W64
Exact(l) ==
  LET x == Signed(l.x, Size(l.op))
      y == Signed(l.y, Size(l.op))
  IN  IF l.op \in {"SUB", "DSUB"} THEN x - y ELSE x + y

\* An addition or subtraction that may trap overflows exactly when the signed
\* result does not fit, the 32-bit ones only where exceptions are enabled; if it
\* overflows no register changes, and if not the register holds that result
\* (get_overflow_*, InstAdd, InstAddi, InstSub, InstDadd, InstDaddi, InstDsub).
TrapsIffOverflows ==
  IsTrapping(last.op) =>
    LET fits == InRange(Exact(last), Size(last.op))
    IN  /\ ovf <=> ~fits /\ (Size(last.op) = W32 => hasException)
        /\ ovf => gpr = last.file
        /\ fits /\ last.dst # 0 => Signed(gpr[last.dst], W64) = Exact(last)

\* HI and LO hold the whole product; the quotient and the remainder give the
\* dividend back, the remainder being smaller than the divisor and of the
\* dividend's sign; and the two divisions without an answer leave what they should
\* (InstMult to InstDdivu).
DivMulExact ==
  LET wide == last.op \in {"DMULT", "DMULTU", "DDIV", "DDIVU"}
      size == IF wide THEN W64 ELSE W32
      Num(v, signed) == IF signed THEN Signed(v % size, size) ELSE v % size
  IN  \A signed \in BOOLEAN :
        LET x == Num(last.x, signed)
            y == Num(last.y, signed)
            h == Num(hi, signed)
            l == Num(lo, signed)
        IN  /\ last.op \in (IF signed THEN {"MULT", "DMULT"} ELSE {"MULTU", "DMULTU"})
               => h * size + (lo % size) = x * y
            /\ last.op \in (IF signed THEN {"DIV", "DDIV"} ELSE {"DIVU", "DDIVU"})
               => IF y = 0 THEN h = x /\ Signed(lo % size, size) = IF x < 0 THEN 1 ELSE -1
                  ELSE /\ h + l * y = x \/ (2 * x = -size /\ y = -1 /\ h = 0 /\ l = x)
                       /\ Magnitude(h) < Magnitude(y)
                       /\ h # 0 => (h < 0) = (x < 0)

\* As long as only 32-bit instructions have run on 32-bit values, every register,
\* HI and LO are sign-extended words: 32-bit code runs on the 64-bit processor
\* without noticing it (WriteGpr32, WriteGpr32Sext, the logic on doublewords, the
\* results of multiplication and division).
Canonical ==
  narrow => Canon(hi) /\ Canon(lo) /\ \A r \in Regs : Canon(gpr[r])
=============================================================================
