------------------------------- MODULE MipsFpu -------------------------------
(***************************************************************************)
(* The floating-point unit (MipsFpu) and the instructions that reach it:   *)
(* moves, loads and stores of coprocessor 1, its commands, and the         *)
(* branches on its condition.                                              *)
(*                                                                         *)
(* A 32-bit item is a word below 2 * Half, a 64-bit item a pair of         *)
(* words.  What a pattern of bits means as a floating-point number is a    *)
(* constant: a number of quarters, or NaN.  What arithmetic computes is    *)
(* left open; rounding, saturation and comparison are computed.  The       *)
(* host's own rounding mode is to nearest, as a C++ program finds it.      *)
(***************************************************************************)
EXTENDS Integers

CONSTANTS
  Half,        \* 2^31: a signed word is one of -Half .. Half - 1
  Regs,        \* the registers: 0 .. 31
  AsSingle,    \* the number a word means,
  AsDouble,    \* and the number a pair of words means
  NaN,
  Open,        \* no word: what is in half a register is not defined
  Results,     \* words that arithmetic may compute
  Revision,    \* what control register 0 reads as: 0xB00
  Fprs, Gprs,  \* what the registers may hold at first
  MaxInsts     \* bound: the instructions run

Word == 0 .. 2 * Half - 1
LongHalf == 2 * Half * Half   \* 2^63
Pair == [hi : Word, lo : Word]
Value == Int \cup {NaN}
Modes == 0 .. 3       \* FCR31.RM

ASSUME FpuAssumption ==
  /\ Half \in Nat /\ Half >= 4
  /\ Regs \subseteq Nat /\ \A r \in Regs : 2 * (r \div 2) \in Regs
  /\ NaN \notin Int /\ Open \notin Word
  /\ AsSingle \in [Word -> Value] /\ AsDouble \in [Pair -> Value]
  /\ Results \subseteq Word /\ Revision \in Word
  /\ Fprs \subseteq [Regs -> Pair] /\ Gprs \subseteq Pair
  /\ MaxInsts \in Nat

VARIABLES
  fpr,        \* fpr_; the constructor leaves it as it is
  fcr31,      \* the condition bit and the rounding mode of fcr31_
  fr, cu1,    \* Status.FR and Status.CU1
  gpr,        \* the general register the moves name
  mem,        \* the doubleword the loads and stores name
  exc,        \* the last instruction found coprocessor 1 unusable
  panic,      \* PANIC("FPU EXCEPTION") has been reached
  taken,      \* the last branch on the condition was taken
  insts,      \* how many instructions have run
  known,      \* history: the word last put in each half of a register, or Open
  ctl         \* history: the condition last computed or written, and the mode

files == <<fpr, known>>
data == <<files, fcr31, gpr, mem, taken, panic>>
vars == <<data, fr, cu1, exc, insts, ctl>>

Init ==
  /\ fpr \in Fprs /\ gpr \in Gprs /\ mem = gpr
  /\ fcr31 = [c |-> FALSE, rm |-> 0] /\ ctl = fcr31
  /\ fr \in BOOLEAN /\ cu1 \in BOOLEAN
  /\ exc = FALSE /\ panic = FALSE /\ taken = FALSE
  /\ insts = 0 /\ known = fpr

-----------------------------------------------------------------------------
(* The register file.  Without FR an odd register is the upper half of the *)
(* even one before it, and the odd physical ones are not used.             *)

Phys(r) == IF fr THEN r ELSE 2 * (r \div 2)
IsUpper(r) == ~fr /\ r % 2 = 1

\* Read32, ReadI32.
Read32(r) == IF IsUpper(r) THEN fpr[Phys(r)].hi ELSE fpr[Phys(r)].lo

\* Read64, ReadI64.
Read64(r) == fpr[Phys(r)]

\* Variant: a write to a half clears the other one in both modes.
WriteI32_Clears(r, w) ==
  [fpr EXCEPT ![Phys(r)] =
     IF IsUpper(r) THEN [hi |-> w, lo |-> 0] ELSE [hi |-> 0, lo |-> w]]

\* WriteI32: the other half stays.
WriteI32(r, w) ==
  [fpr EXCEPT ![Phys(r)] =
     IF IsUpper(r) THEN [@ EXCEPT !.hi = w] ELSE [@ EXCEPT !.lo = w]]

\* Write32: with FR the whole register is replaced.
Write32(r, w) ==
  IF fr THEN [fpr EXCEPT ![r] = [hi |-> 0, lo |-> w]] ELSE WriteI32(r, w)

\* Write64, WriteI64.
Write64(r, d) == [fpr EXCEPT ![Phys(r)] = d]

\* What the architecture says of it.  Without FR the registers are words, and an
\* odd one and the even one before it are a doubleword.  With FR each is a
\* doubleword, of which a 32-bit result defines the lower half alone: a move or a
\* load clears the upper one here, a command keeps it.
Even(r) == r - (r % 2)
Known64(r) == known[IF fr THEN r ELSE Even(r)]
Known32(r) == IF fr \/ r % 2 = 0 THEN Known64(r).lo ELSE Known64(r).hi

KnownSingle(r, w) ==
  IF fr THEN [known EXCEPT ![r] = [hi |-> Open, lo |-> w]]
  ELSE [known EXCEPT ![Even(r)] = [hi |-> IF r % 2 = 1 THEN w ELSE @.hi,
                                   lo |-> IF r % 2 = 1 THEN @.lo ELSE w]]
KnownDouble(r, d) == [known EXCEPT ![IF fr THEN r ELSE Even(r)] = d]

-----------------------------------------------------------------------------
(* Rounding, in quarters; truncation to a width; saturation. *)

Trunc(x) == IF x >= 0 THEN x \div 4 ELSE -((-x) \div 4)
Floor(x) == x \div 4
Ceil(x)  == -((-x) \div 4)

\* round, roundf: halves away from zero.
Round(x) == IF x >= 0 THEN (x + 2) \div 4 ELSE -((2 - x) \div 4)

\* Variant: halves away from zero here, too.
NearbyInt_Away(x) == Round(x)

\* nearbyint, nearbyintf: halves to even.
NearbyInt(x) ==
  LET f == x \div 4
      r == x % 4
  IN  IF r < 2 \/ (r = 2 /\ f % 2 = 0) THEN f ELSE f + 1

ByMode(x, rm) ==
  CASE rm = 0 -> NearbyInt(x)
    [] rm = 1 -> Trunc(x)
    [] rm = 2 -> Ceil(x)
    [] rm = 3 -> Floor(x)

\* The signed integers of half the given size.
Highest(half) == half - 1
Lowest(half)  == -half

\* clamp_f32_to_i32 and its kin: n is an integer or NaN.
Clamp(n, half) ==
  IF n = NaN THEN Highest(half)
  ELSE IF n > Highest(half) THEN Highest(half)
  ELSE IF n < Lowest(half) THEN Lowest(half)
  ELSE n

AsWord(n) == n % (2 * Half)
AsPair(n) == [hi |-> AsWord(n \div (2 * Half)), lo |-> AsWord(n)]

\* The operand of a command in the two floating-point formats.
Operand(fmt, r) == IF fmt = "S" THEN AsSingle[Read32(r)] ELSE AsDouble[Read64(r)]

-----------------------------------------------------------------------------
(* Every instruction of coprocessor 1 looks at Status.CU1 first; without   *)
(* it the instruction is an exception (its control flow is in MipsCpu).    *)

Step == insts < MaxInsts /\ insts' = insts + 1

IsCopEnabled(Work) ==
  /\ Step
  /\ exc' = ~cu1
  /\ IF cu1 THEN Work ELSE UNCHANGED <<data, fr, ctl>>
  /\ UNCHANGED cu1

\* What an instruction that only computes leaves alone.
Quiet == UNCHANGED <<fcr31, mem, taken, panic, fr, ctl>>

SetSingle(r, file, w) == fpr' = file /\ known' = KnownSingle(r, w) /\ UNCHANGED gpr
SetDouble(r, d) == fpr' = Write64(r, d) /\ known' = KnownDouble(r, d) /\ UNCHANGED gpr
SetGpr(d) == gpr' = d /\ UNCHANGED files

\* WriteGpr32Sext.
Sext(w) == [hi |-> IF w > Highest(Half) THEN 2 * Half - 1 ELSE 0, lo |-> w]

Mtc(r)  == IsCopEnabled(Quiet /\ SetSingle(r, Write32(r, gpr.lo), gpr.lo))
Mfc(r)  == IsCopEnabled(Quiet /\ SetGpr(Sext(Read32(r))))
Dmtc(r) == IsCopEnabled(Quiet /\ SetDouble(r, gpr))
Dmfc(r) == IsCopEnabled(Quiet /\ SetGpr(Read64(r)))

\* LWC1 and SWC1 on either word of the doubleword, LDC1 and SDC1 on all of it.
\* None of them looks at the alignment of its address.
Lwc(r) ==
  \E w \in {mem.hi, mem.lo} : IsCopEnabled(Quiet /\ SetSingle(r, Write32(r, w), w))
Ldc(r) == IsCopEnabled(Quiet /\ SetDouble(r, mem))
Store(m) ==
  IsCopEnabled(mem' = m /\ UNCHANGED <<files, fcr31, gpr, taken, panic, fr, ctl>>)
Swc(r) ==
  \/ Store([mem EXCEPT !.hi = Read32(r)])
  \/ Store([mem EXCEPT !.lo = Read32(r)])
Sdc(r) == Store(Read64(r))

\* FCR31 as a word; only its mode and its condition are looked at.
ControlWord == (IF fcr31.c THEN 4 ELSE 0) + fcr31.rm
ReadControl(r) == CASE r = 31 -> ControlWord [] r = 0 -> Revision [] OTHER -> 0
Cfc == \E r \in {0, 1, 31} : IsCopEnabled(Quiet /\ SetGpr(Sext(ReadControl(r))))

\* Variant: the mode is not cut to its two bits.
WrittenControl_Wide(w) == [c |-> (w \div 4) % 2 = 1, rm |-> w]

WrittenControl(w) == [c |-> (w \div 4) % 2 = 1, rm |-> w % 4]

\* CTC1; writes to other control registers are ignored.
Ctc ==
  \E f \in {WrittenControl(gpr.lo), fcr31} :
    IsCopEnabled(/\ fcr31' = f
                 /\ ctl' = IF f = fcr31 THEN ctl ELSE f
                 /\ UNCHANGED <<files, gpr, mem, taken, panic, fr>>)

-----------------------------------------------------------------------------
(* Commands. *)

\* WriteF32 and WriteF64 of a result that is left open.
SingleResult(fd) ==
  \E w \in Results : IsCopEnabled(Quiet /\ SetSingle(fd, WriteI32(fd, w), w))
DoubleResult(fd) ==
  \E h, l \in Results : IsCopEnabled(Quiet /\ SetDouble(fd, [hi |-> h, lo |-> l]))

\* ADD, SUB, MUL, DIV, SQRT and ABS; NEG; CVT.S and CVT.D; and a command or a
\* format that is not known, which is only reported.
InstArith(fd) == SingleResult(fd) \/ DoubleResult(fd)
InstNeg(fd) == SingleResult(fd) \/ DoubleResult(fd)
InstCvtS(fd) == SingleResult(fd)
InstCvtD(fd) == DoubleResult(fd)
Unknown == IsCopEnabled(Quiet /\ UNCHANGED <<files, gpr>>)

\* MOV copies.
MovSingle(fd, fs) ==
  LET w == Read32(fs) IN IsCopEnabled(Quiet /\ SetSingle(fd, WriteI32(fd, w), w))
MovDouble(fd, fs) == IsCopEnabled(Quiet /\ SetDouble(fd, Read64(fs)))

\* The integer a conversion yields: ROUND, TRUNC, CEIL and FLOOR have a rounding
\* of their own, CVT takes the mode of FCR31.
Explicit == {"round", "trunc", "ceil", "floor"}
Roundings == Explicit \cup {"cvt"}
Rounded(how, v) ==
  IF v = NaN THEN NaN
  ELSE CASE how = "round" -> Round(v)
         [] how = "trunc" -> Trunc(v)
         [] how = "ceil"  -> Ceil(v)
         [] how = "floor" -> Floor(v)
         [] how = "cvt"   -> ByMode(v, fcr31.rm)

Converted(how, fmt, fs, half) == Clamp(Rounded(how, Operand(fmt, fs)), half)

ToWord(how, fmt, fd, fs) ==
  LET w == AsWord(Converted(how, fmt, fs, Half))
  IN  IsCopEnabled(Quiet /\ SetSingle(fd, WriteI32(fd, w), w))

ToLong(how, fmt, fd, fs) ==
  IsCopEnabled(Quiet /\ SetDouble(fd, AsPair(Converted(how, fmt, fs, LongHalf))))

InstCvtW(fmt, fd, fs) == ToWord("cvt", fmt, fd, fs)
InstCvtL(fmt, fd, fs) == ToLong("cvt", fmt, fd, fs)

Less(a, b) == a # NaN /\ b # NaN /\ a < b
Equal(a, b) == a # NaN /\ a = b

\* Variant: NGE is taken for the opposite of "greater or equal" of numbers only.
Compare_NoUnordered(cond, a, b) ==
  LET gt == Less(b, a)
      lt == Less(a, b)
      eq == Equal(a, b)
  IN  \/ cond = 1 /\ ~gt /\ ~lt /\ ~eq
      \/ cond = 2 /\ eq
      \/ cond = 3 /\ ~gt /\ ~lt
      \/ cond = 4 /\ lt
      \/ cond = 5 /\ lt
      \/ cond = 6 /\ (lt \/ eq)
      \/ cond = 7 /\ ~gt

\* The eight conditions, as the code writes them; condition 0 never holds.
Compare(cond, a, b) ==
  LET gt == Less(b, a)
      lt == Less(a, b)
      eq == Equal(a, b)
  IN  \/ cond = 1 /\ ~gt /\ ~lt /\ ~eq
      \/ cond = 2 /\ eq
      \/ cond = 3 /\ ~gt /\ ~lt
      \/ cond = 4 /\ lt
      \/ cond = 5 /\ ~gt /\ ~eq
      \/ cond = 6 /\ (lt \/ eq)
      \/ cond = 7 /\ ~gt

\* What the architecture says of them: three bits, for less, equal and unordered.
Predicate(cond, a, b) ==
  \/ cond \div 4 = 1 /\ Less(a, b)
  \/ (cond \div 2) % 2 = 1 /\ Equal(a, b)
  \/ cond % 2 = 1 /\ (a = NaN \/ b = NaN)

\* C.cond: bit 3 of the command allows NaNs, else they panic.  PANIC raises SIGABRT;
\* if the host has a handler for it that returns, the comparison goes on.
InstC(cond, allow, fmt, fs, ft) ==
  LET a == Operand(fmt, fs)
      b == Operand(fmt, ft)
  IN  IsCopEnabled(
        /\ panic' = (panic \/ (~allow /\ (a = NaN \/ b = NaN)))
        /\ fcr31' = [fcr31 EXCEPT !.c = Compare(cond, a, b)]
        /\ ctl' = [ctl EXCEPT !.c = Predicate(cond, a, b)]
        /\ UNCHANGED <<files, gpr, mem, taken, fr>>)

\* A comparison in another format clears the condition.
InstCUnknown ==
  IsCopEnabled(/\ fcr31' = [fcr31 EXCEPT !.c = FALSE]
               /\ ctl' = [ctl EXCEPT !.c = FALSE]
               /\ UNCHANGED <<files, gpr, mem, taken, panic, fr>>)

\* BC1T and BC1F, likely or not; where the branch leads is in MipsCpu.
Branch(sense) ==
  IsCopEnabled(/\ taken' = (fcr31.c = sense)
               /\ UNCHANGED <<files, fcr31, gpr, mem, panic, fr, ctl>>)

\* A move to Status, allowed whatever CU1 is.
MoveToSr ==
  /\ Step
  /\ fr' \in BOOLEAN /\ cu1' \in BOOLEAN
  /\ exc' = FALSE
  /\ UNCHANGED <<data, ctl>>

\* The processor's Reset: Status becomes 0x34000000.
Reset ==
  /\ Step
  /\ fpr' = [r \in Regs |-> [hi |-> 0, lo |-> 0]] /\ known' = fpr'
  /\ fcr31' = [c |-> FALSE, rm |-> 0] /\ ctl' = fcr31'
  /\ fr' = TRUE /\ cu1' = TRUE /\ gpr' = [hi |-> 0, lo |-> 0]
  /\ exc' = FALSE
  /\ UNCHANGED <<mem, taken, panic>>

Move == \E r \in Regs : Mtc(r) \/ Mfc(r) \/ Dmtc(r) \/ Dmfc(r)
LoadStore == \E r \in Regs : Lwc(r) \/ Ldc(r) \/ Swc(r) \/ Sdc(r)
Command ==
  \/ \E fd \in Regs : InstArith(fd) \/ InstNeg(fd) \/ InstCvtS(fd) \/ InstCvtD(fd)
  \/ \E fd, fs \in Regs :
       \/ MovSingle(fd, fs) \/ MovDouble(fd, fs)
       \/ \E fmt \in {"S", "D"} :
            \/ \E how \in Explicit : ToWord(how, fmt, fd, fs) \/ ToLong(how, fmt, fd, fs)
            \/ InstCvtW(fmt, fd, fs) \/ InstCvtL(fmt, fd, fs)
  \/ \E cond \in 0 .. 7, allow \in BOOLEAN, fmt \in {"S", "D"}, fs, ft \in Regs :
       InstC(cond, allow, fmt, fs, ft)
  \/ InstCUnknown \/ Unknown

Next ==
  \/ Move \/ LoadStore \/ Cfc \/ Ctc \/ Command
  \/ \E sense \in BOOLEAN : Branch(sense)
  \/ MoveToSr \/ Reset

Spec == Init /\ [][Next]_vars

-----------------------------------------------------------------------------
TypeOK ==
  /\ fpr \in [Regs -> Pair] /\ gpr \in Pair /\ mem \in Pair
  /\ fcr31 \in [c : BOOLEAN, rm : Modes] /\ ctl \in [c : BOOLEAN, rm : Modes]
  /\ fr \in BOOLEAN /\ cu1 \in BOOLEAN
  /\ exc \in BOOLEAN /\ panic \in BOOLEAN /\ taken \in BOOLEAN
  /\ insts \in 0 .. MaxInsts
  /\ known \in [Regs -> [hi : Word \cup {Open}, lo : Word \cup {Open}]]

Holds(k, w) == k \in {Open, w}

\* An instruction of either width finds in a register what was last put there, by
\* whatever mixture of moves, loads and commands of both widths, also when Status.FR
\* has changed in between: without FR the halves of a doubleword are the two words
\* of a pair and the odd registers that FR gives access to keep what they held
\* (Read32 to Write64 lines 233-295, ReadI32 to WriteI64 lines 321-358).
ReadsLastWritten ==
  \A r \in Regs :
    /\ Holds(Known32(r), Read32(r))
    /\ Holds(Known64(r).hi, Read64(r).hi) /\ Holds(Known64(r).lo, Read64(r).lo)

Abs(x) == IF x < 0 THEN -x ELSE x

\* n is what the rounding makes of x quarters.
IsRounding(how, n, x) ==
  LET off == 4 * n - x
      mode == IF how = "cvt" THEN fcr31.rm ELSE 4
  IN  /\ how = "round" => Abs(off) <= 2 /\ (Abs(off) = 2 => Abs(4 * n) > Abs(x))
      /\ mode = 0 => Abs(off) <= 2 /\ (Abs(off) = 2 => n % 2 = 0)
      /\ how = "trunc" \/ mode = 1 => Abs(off) < 4 /\ Abs(4 * n) <= Abs(x)
      /\ how = "ceil" \/ mode = 2 => off \in 0 .. 3
      /\ how = "floor" \/ mode = 3 => -off \in 0 .. 3

\* Every conversion to an integer yields the integer its rounding asks for, to
\* even or away from zero at a half as the instruction has it, or the end of the
\* range beyond which that integer lies; NaN becomes the upper end (round_f32 and
\* round_f64, clamp_*, InstRoundL to InstFloorW, InstCvtW, InstCvtL).
ConvertsRight ==
  \A how \in Roundings, fmt \in {"S", "D"}, r \in Regs, half \in {Half, LongHalf} :
    LET x == Operand(fmt, r)
        n == Converted(how, fmt, r, half)
    IN  IF x = NaN
        THEN n = Highest(half)
        ELSE \E m \in {x \div 4, x \div 4 + 1} :
               /\ IsRounding(how, m, x)
               /\ \/ n = m /\ m \in Lowest(half) .. Highest(half)
                  \/ n = Highest(half) /\ m > n
                  \/ n = Lowest(half) /\ m < n

\* The condition a branch will see is what the architecture's predicate said of
\* the operands of the last comparison, or what was last moved to FCR31, and the
\* rounding mode the last one moved there, whatever ran in between (compare lines
\* 31-78, InstC, Write32 line 268).
ConditionIsLast == fcr31 = ctl
=============================================================================
