---------------------------- MODULE MipsFpuProofs ----------------------------
(***************************************************************************)
(* Theorems about MipsFpu.  The invariant adds to the types that the       *)
(* condition and mode agree with their history, and that each half of each *)
(* register is what was last put there, of the odd ones that cannot be     *)
(* named without FR, too: a change of FR brings them back.                 *)
(***************************************************************************)
EXTENDS MipsFpu, TLAPS

Recalls(k, f) ==
  \A r \in Regs : Holds(k[r].hi, f[r].hi) /\ Holds(k[r].lo, f[r].lo)
IInv == TypeOK /\ ConditionIsLast /\ Recalls(known, fpr)

KnownHalf == Word \cup {Open}
KnownType == [Regs -> [hi : KnownHalf, lo : KnownHalf]]

-----------------------------------------------------------------------------
(* The register file. *)

\* The physical register of a name is a register.
LEMMA PhysType ==
  ASSUME TypeOK, NEW r \in Regs
  PROVE  Phys(r) \in Regs
  BY FpuAssumption DEF TypeOK, Phys

\* What is read is a word or a pair.
LEMMA ReadType ==
  ASSUME TypeOK, NEW r \in Regs
  PROVE  Read32(r) \in Word /\ Read64(r) \in Pair
  BY PhysType DEF TypeOK, Read32, Read64, Pair

\* Writes keep the file's type.
LEMMA WriteType ==
  ASSUME TypeOK, NEW r \in Regs, NEW w \in Word, NEW d \in Pair
  PROVE  /\ WriteI32(r, w) \in [Regs -> Pair]
         /\ Write32(r, w) \in [Regs -> Pair]
         /\ Write64(r, d) \in [Regs -> Pair]
<1>1. 0 \in Word
  BY FpuAssumption DEF Word
<1>2. WriteI32(r, w) \in [Regs -> Pair]
  <2>1. CASE IsUpper(r)
    BY <2>1, PhysType DEF TypeOK, WriteI32, Pair
  <2>2. CASE ~IsUpper(r)
    BY <2>2, PhysType DEF TypeOK, WriteI32, Pair
  <2>3. QED BY <2>1, <2>2
<1>3. Write32(r, w) \in [Regs -> Pair]
  BY <1>1, <1>2 DEF TypeOK, Write32, Pair
<1>4. Write64(r, d) \in [Regs -> Pair]
  BY PhysType DEF TypeOK, Write64
<1>5. QED BY <1>2, <1>3, <1>4

\* The architecture's name for the register that holds r is the code's.
LEMMA Places ==
  ASSUME NEW r \in Regs
  PROVE  /\ 2 * (r \div 2) = Even(r) /\ Even(r) \in Regs
         /\ r % 2 \in {0, 1} /\ (r % 2 = 0 => Even(r) = r)
         /\ Phys(r) = IF fr THEN r ELSE Even(r)
<1>1. r \in Nat /\ 2 * (r \div 2) \in Regs
  BY FpuAssumption
<1>2. r = 2 * (r \div 2) + (r % 2) /\ r % 2 \in {0, 1}
  BY <1>1
<1>3. 2 * (r \div 2) = Even(r)
  BY <1>1, <1>2 DEF Even
<1>4. r % 2 = 0 => Even(r) = r
  BY <1>1 DEF Even
<1>5. QED BY <1>1, <1>2, <1>3, <1>4 DEF Phys

\* One register replaced, by halves that recall one another.
LEMMA Replaced ==
  ASSUME TypeOK, Recalls(known, fpr), NEW p \in Regs,
         NEW k \in [hi : KnownHalf, lo : KnownHalf], NEW d \in Pair,
         Holds(k.hi, d.hi), Holds(k.lo, d.lo)
  PROVE  /\ [known EXCEPT ![p] = k] \in KnownType
         /\ Recalls([known EXCEPT ![p] = k], [fpr EXCEPT ![p] = d])
<1>1. known \in KnownType /\ fpr \in [Regs -> Pair]
  BY DEF TypeOK, KnownType, KnownHalf
<1>2. QED BY <1>1 DEF Recalls, KnownType

\* A 32-bit result is recalled, whichever way it was written.
LEMMA SingleRecalled ==
  ASSUME TypeOK, Recalls(known, fpr), NEW r \in Regs, NEW w \in Word,
         NEW file \in {WriteI32(r, w), Write32(r, w)}
  PROVE  KnownSingle(r, w) \in KnownType /\ Recalls(KnownSingle(r, w), file)
<1>. DEFINE e == Even(r)
<1>1. /\ 0 \in Word /\ Open \in KnownHalf /\ w \in KnownHalf
      /\ known \in KnownType /\ fpr \in [Regs -> Pair] /\ fr \in BOOLEAN
  BY FpuAssumption DEF TypeOK, Word, KnownHalf, KnownType
<1>2. e \in Regs /\ r % 2 \in {0, 1} /\ Phys(r) = IF fr THEN r ELSE e
  BY Places
<1>. HIDE DEF e
<1>3. /\ known[r] \in [hi : KnownHalf, lo : KnownHalf] /\ fpr[r] \in Pair
      /\ known[e] \in [hi : KnownHalf, lo : KnownHalf] /\ fpr[e] \in Pair
      /\ Holds(known[e].hi, fpr[e].hi) /\ Holds(known[e].lo, fpr[e].lo)
  BY <1>1, <1>2 DEF KnownType, Recalls
<1>4. CASE fr
  <2>1. KnownSingle(r, w) = [known EXCEPT ![r] = [hi |-> Open, lo |-> w]]
    BY <1>4 DEF KnownSingle
  <2>2. \E d \in Pair : d.lo = w /\ file = [fpr EXCEPT ![r] = d]
    <3>1. CASE file = Write32(r, w)
      <4>1. [hi |-> 0, lo |-> w] \in Pair
        BY <1>1 DEF Pair
      <4>2. QED BY <1>4, <3>1, <4>1 DEF Write32
    <3>2. CASE file = WriteI32(r, w)
      <4>1. file = [fpr EXCEPT ![r] = [fpr[r] EXCEPT !.lo = w]]
        BY <1>2, <1>4, <3>2 DEF WriteI32, IsUpper
      <4>2. [fpr[r] EXCEPT !.lo = w] \in Pair /\ [fpr[r] EXCEPT !.lo = w].lo = w
        BY <1>3 DEF Pair
      <4>3. QED BY <4>1, <4>2
    <3>3. QED BY <3>1, <3>2
  <2>3. PICK d \in Pair : d.lo = w /\ file = [fpr EXCEPT ![r] = d]
    BY <2>2
  <2>. DEFINE k == [hi |-> Open, lo |-> w]
  <2>4. /\ k \in [hi : KnownHalf, lo : KnownHalf]
        /\ Holds(k.hi, d.hi) /\ Holds(k.lo, d.lo)
    BY <1>1, <2>3 DEF Holds
  <2>. HIDE DEF k
  <2>5. /\ [known EXCEPT ![r] = k] \in KnownType
        /\ Recalls([known EXCEPT ![r] = k], [fpr EXCEPT ![r] = d])
    BY <2>4, Replaced, Zenon
  <2>6. QED BY <2>1, <2>3, <2>5, Zenon DEF k
<1>5. CASE ~fr
  <2>. DEFINE k == [hi |-> IF r % 2 = 1 THEN w ELSE known[e].hi,
                    lo |-> IF r % 2 = 1 THEN known[e].lo ELSE w]
              d == IF r % 2 = 1 THEN [fpr[e] EXCEPT !.hi = w] ELSE [fpr[e] EXCEPT !.lo = w]
  <2>1. KnownSingle(r, w) = [known EXCEPT ![e] = k]
    <3>1. e \in DOMAIN known
      BY <1>1, <1>2 DEF KnownType
    <3>2. QED BY <1>5, <3>1 DEF KnownSingle, e
  <2>2. file = [fpr EXCEPT ![e] = d]
    BY <1>1, <1>2, <1>5 DEF Write32, WriteI32, IsUpper
  <2>3. k \in [hi : KnownHalf, lo : KnownHalf] /\ d \in Pair
    BY <1>1, <1>3 DEF Pair
  <2>4. Holds(k.hi, d.hi) /\ Holds(k.lo, d.lo)
    BY <1>3 DEF Pair, Holds
  <2>. HIDE DEF k, d
  <2>5. /\ [known EXCEPT ![e] = k] \in KnownType
        /\ Recalls([known EXCEPT ![e] = k], [fpr EXCEPT ![e] = d])
    BY <1>2, <2>3, <2>4, Replaced, Zenon
  <2>6. QED BY <2>1, <2>2, <2>5, Zenon
<1>6. QED BY <1>1, <1>4, <1>5

\* And so is a 64-bit one.
LEMMA DoubleRecalled ==
  ASSUME TypeOK, Recalls(known, fpr), NEW r \in Regs, NEW d \in Pair
  PROVE  KnownDouble(r, d) \in KnownType /\ Recalls(KnownDouble(r, d), Write64(r, d))
<1>1. Phys(r) \in Regs /\ Phys(r) = IF fr THEN r ELSE Even(r)
  BY PhysType, Places
<1>2. d \in [hi : KnownHalf, lo : KnownHalf] /\ Holds(d.hi, d.hi) /\ Holds(d.lo, d.lo)
  BY DEF Pair, KnownHalf, Holds
<1>3. KnownDouble(r, d) = [known EXCEPT ![Phys(r)] = d]
  BY <1>1 DEF KnownDouble
<1>4. /\ [known EXCEPT ![Phys(r)] = d] \in KnownType
      /\ Recalls([known EXCEPT ![Phys(r)] = d], [fpr EXCEPT ![Phys(r)] = d])
  BY <1>1, <1>2, Replaced, Zenon
<1>5. QED BY <1>3, <1>4, Zenon DEF Write64

-----------------------------------------------------------------------------
(* Conversions have the width of their target. *)

\* An integer cut to a word is a word, cut to two a pair.
LEMMA Cut ==
  ASSUME NEW n \in Int
  PROVE  AsWord(n) \in Word /\ AsPair(n) \in Pair
<1>1. \A k \in Int : k % (2 * Half) \in 0 .. 2 * Half - 1
  BY FpuAssumption
<1>2. n \div (2 * Half) \in Int
  BY FpuAssumption
<1>3. QED BY <1>1, <1>2 DEF AsWord, AsPair, Word, Pair

\* Rounding a number gives an integer.
LEMMA RoundedType ==
  ASSUME TypeOK, NEW how \in Roundings, NEW v \in Value
  PROVE  Rounded(how, v) \in Value
<1>1. CASE v = NaN
  BY <1>1 DEF Rounded, Value
<1>2. CASE v \in Int /\ v # NaN
  <2>1. Round(v) \in Int /\ Trunc(v) \in Int /\ Ceil(v) \in Int /\ Floor(v) \in Int
    BY <1>2 DEF Round, Trunc, Ceil, Floor
  <2>2. NearbyInt(v) \in Int
    BY <1>2 DEF NearbyInt
  <2>3. ByMode(v, fcr31.rm) \in Int
    BY <2>1, <2>2 DEF TypeOK, Modes, ByMode
  <2>4. QED BY <1>2, <2>1, <2>3 DEF Rounded, Roundings, Explicit, Value
<1>3. QED BY <1>1, <1>2 DEF Value

\* Operands are numbers.
LEMMA OperandType ==
  ASSUME TypeOK, NEW fmt \in {"S", "D"}, NEW r \in Regs
  PROVE  Operand(fmt, r) \in Value
  BY FpuAssumption, ReadType DEF Operand

\* What is converted is an integer.
LEMMA ConvertedType ==
  ASSUME TypeOK, NEW how \in Roundings, NEW fmt \in {"S", "D"}, NEW r \in Regs,
         NEW half \in {Half, LongHalf}
  PROVE  Converted(how, fmt, r, half) \in Int
<1>1. half \in Int
  BY FpuAssumption DEF LongHalf
<1>2. Rounded(how, Operand(fmt, r)) \in Value
  BY OperandType, RoundedType
<1>3. QED BY <1>1, <1>2 DEF Converted, Clamp, Highest, Lowest, Value

\* The eight conditions as the code writes them are the architecture's, NaN
\* included.
LEMMA CompareIsPredicate ==
  ASSUME NEW cond \in 0 .. 7, NEW a \in Value, NEW b \in Value
  PROVE  Compare(cond, a, b) \in BOOLEAN /\ Compare(cond, a, b) = Predicate(cond, a, b)
<1> DEFINE gt == Less(b, a)
           lt == Less(a, b)
           eq == Equal(a, b)
           un == a = NaN \/ b = NaN
<1>1. /\ gt \in BOOLEAN /\ lt \in BOOLEAN /\ eq \in BOOLEAN /\ un \in BOOLEAN
      /\ un <=> ~gt /\ ~lt /\ ~eq
      /\ ~(gt /\ lt) /\ ~(gt /\ eq) /\ ~(lt /\ eq)
  <2>1. CASE un
    BY <2>1 DEF Less, Equal
  <2>2. CASE ~un
    <3>1. a \in Int /\ b \in Int
      BY <2>2 DEF Value
    <3>2. QED BY <2>2, <3>1 DEF Less, Equal
  <2>3. QED BY <2>1, <2>2
<1> HIDE DEF gt, lt, eq, un
<1>2. Compare(cond, a, b) <=>
        \/ cond = 1 /\ ~gt /\ ~lt /\ ~eq
        \/ cond = 2 /\ eq
        \/ cond = 3 /\ ~gt /\ ~lt
        \/ cond = 4 /\ lt
        \/ cond = 5 /\ ~gt /\ ~eq
        \/ cond = 6 /\ (lt \/ eq)
        \/ cond = 7 /\ ~gt
  BY DEF Compare, gt, lt, eq
<1>3. Predicate(cond, a, b) <=>
        \/ cond \in {4, 5, 6, 7} /\ lt
        \/ cond \in {2, 3, 6, 7} /\ eq
        \/ cond \in {1, 3, 5, 7} /\ un
  <2>1. cond \div 4 = 1 <=> cond \in {4, 5, 6, 7}
    OBVIOUS
  <2>2. (cond \div 2) % 2 = 1 <=> cond \in {2, 3, 6, 7}
    OBVIOUS
  <2>3. cond % 2 = 1 <=> cond \in {1, 3, 5, 7}
    OBVIOUS
  <2>4. QED BY <2>1, <2>2, <2>3 DEF Predicate, lt, eq, un
<1>4. cond \in {0, 1, 2, 3, 4, 5, 6, 7}
  OBVIOUS
<1>5. Compare(cond, a, b) \in BOOLEAN
  BY Zenon DEF Compare
<1>6. Predicate(cond, a, b) \in BOOLEAN
  BY Zenon DEF Predicate
<1>7. Compare(cond, a, b) <=> Predicate(cond, a, b)
  <2>1. CASE cond = 0 BY <1>1, <1>2, <1>3, <2>1
  <2>2. CASE cond = 1 BY <1>1, <1>2, <1>3, <2>2
  <2>3. CASE cond = 2 BY <1>1, <1>2, <1>3, <2>3
  <2>4. CASE cond = 3 BY <1>1, <1>2, <1>3, <2>4
  <2>5. CASE cond = 4 BY <1>1, <1>2, <1>3, <2>5
  <2>6. CASE cond = 5 BY <1>1, <1>2, <1>3, <2>6
  <2>7. CASE cond = 6 BY <1>1, <1>2, <1>3, <2>7
  <2>8. CASE cond = 7 BY <1>1, <1>2, <1>3, <2>8
  <2>9. QED BY <1>4, <2>1, <2>2, <2>3, <2>4, <2>5, <2>6, <2>7, <2>8
<1>8. QED BY <1>5, <1>6, <1>7, Zenon

-----------------------------------------------------------------------------
(* Steps, by what they write. *)

\* Initially.
LEMMA InitIInv == Init => IInv
<1> SUFFICES ASSUME Init PROVE IInv
  OBVIOUS
<1>1. fpr \in [Regs -> Pair] /\ gpr \in Pair /\ mem \in Pair
  BY FpuAssumption DEF Init
<1>2. fcr31 \in [c : BOOLEAN, rm : Modes] /\ ctl = fcr31
  BY DEF Init, Modes
<1>3. fr \in BOOLEAN /\ cu1 \in BOOLEAN /\ exc \in BOOLEAN /\ panic \in BOOLEAN /\ taken \in BOOLEAN
  BY Zenon DEF Init
<1>4. insts \in 0 .. MaxInsts
  BY FpuAssumption DEF Init
<1>5. known \in KnownType /\ Recalls(known, fpr)
  BY <1>1 DEF Init, KnownType, KnownHalf, Pair, Recalls, Holds
<1>6. QED
  BY <1>1, <1>2, <1>3, <1>4, <1>5
  DEF IInv, TypeOK, ConditionIsLast, KnownType, KnownHalf

\* Counting instructions and finding the coprocessor usable keep the types of both.
LEMMA CountType ==
  ASSUME TypeOK, Step
  PROVE  insts' \in 0 .. MaxInsts /\ (~cu1) \in BOOLEAN
<1>1. insts' \in 0 .. MaxInsts
  BY FpuAssumption DEF TypeOK, Step
<1>2. QED BY <1>1, Zenon DEF TypeOK

\* Words of the registers the steps read.
LEMMA Words ==
  ASSUME TypeOK
  PROVE  /\ 0 \in Word /\ 2 * Half - 1 \in Word /\ Revision \in Word
         /\ gpr \in Pair /\ mem \in Pair
         /\ {gpr.lo, gpr.hi, mem.lo, mem.hi} \subseteq Word
         /\ \A w \in Word : Sext(w) \in Pair
  BY FpuAssumption DEF TypeOK, Word, Pair, Sext

\* An instruction of an unusable coprocessor changes no data.
LEMMA Unusable ==
  ASSUME IInv, Step, exc' = ~cu1, UNCHANGED <<data, fr, ctl, cu1>>
  PROVE  IInv'
<1>1. TypeOK'
  <2>1. TypeOK /\ insts' \in 0 .. MaxInsts /\ exc' \in BOOLEAN
    BY CountType DEF IInv
  <2>2. QED BY <2>1 DEF TypeOK, data, files
<1>2. ConditionIsLast' /\ Recalls(known, fpr)'
  BY DEF IInv, ConditionIsLast, Recalls, data, files
<1>3. QED BY <1>1, <1>2 DEF IInv

\* Writing one 32-bit register.
LEMMA SingleStep ==
  ASSUME IInv, NEW r \in Regs, NEW w \in Word, NEW file \in {WriteI32(r, w), Write32(r, w)},
         IsCopEnabled(Quiet /\ SetSingle(r, file, w))
  PROVE  IInv'
<1>1. CASE ~cu1
  BY <1>1, Unusable DEF IsCopEnabled
<1>2. CASE cu1
  <2>0. Quiet /\ SetSingle(r, file, w)
    BY <1>2 DEF IsCopEnabled
  <2>1. TypeOK
    BY DEF IInv
  <2>2. file \in [Regs -> Pair]
    <3>1. [hi |-> 0, lo |-> 0] \in Pair
      BY <2>1, Words DEF Pair
    <3>2. QED BY <2>1, <3>1, WriteType
  <2>3. KnownSingle(r, w) \in KnownType /\ Recalls(KnownSingle(r, w), file)
    BY <2>1, SingleRecalled DEF IInv
  <2>4. fpr' = file /\ known' = KnownSingle(r, w) /\ gpr' = gpr
    BY <2>0 DEF SetSingle
  <2>5. TypeOK'
    <3>1. insts' \in 0 .. MaxInsts /\ exc' \in BOOLEAN
      BY <2>1, CountType DEF IsCopEnabled
    <3>2. QED
      BY <2>0, <2>1, <2>2, <2>3, <2>4, <3>1
      DEF TypeOK, IsCopEnabled, Quiet, KnownType, KnownHalf
  <2>6. ConditionIsLast' /\ Recalls(known, fpr)'
    BY <2>0, <2>3, <2>4 DEF IInv, ConditionIsLast, Quiet
  <2>7. QED BY <2>5, <2>6 DEF IInv
<1>3. QED BY <1>1, <1>2 DEF IInv, TypeOK

\* Writing one 64-bit register.
LEMMA DoubleStep ==
  ASSUME IInv, NEW r \in Regs, NEW d \in Pair,
         IsCopEnabled(Quiet /\ SetDouble(r, d))
  PROVE  IInv'
<1>1. CASE ~cu1
  BY <1>1, Unusable DEF IsCopEnabled
<1>2. CASE cu1
  <2>0. Quiet /\ SetDouble(r, d)
    BY <1>2 DEF IsCopEnabled
  <2>1. TypeOK
    BY DEF IInv
  <2>2. Write64(r, d) \in [Regs -> Pair]
    BY <2>1, PhysType DEF TypeOK, Write64
  <2>3. KnownDouble(r, d) \in KnownType /\ Recalls(KnownDouble(r, d), Write64(r, d))
    BY <2>1, DoubleRecalled DEF IInv
  <2>4. fpr' = Write64(r, d) /\ known' = KnownDouble(r, d) /\ gpr' = gpr
    BY <2>0 DEF SetDouble
  <2>5. TypeOK'
    <3>1. insts' \in 0 .. MaxInsts /\ exc' \in BOOLEAN
      BY <2>1, CountType DEF IsCopEnabled
    <3>2. QED
      BY <2>0, <2>1, <2>2, <2>3, <2>4, <3>1
      DEF TypeOK, IsCopEnabled, Quiet, KnownType, KnownHalf
  <2>6. ConditionIsLast' /\ Recalls(known, fpr)'
    BY <2>0, <2>3, <2>4 DEF IInv, ConditionIsLast, Quiet
  <2>7. QED BY <2>5, <2>6 DEF IInv
<1>3. QED BY <1>1, <1>2 DEF IInv, TypeOK

\* Writing the general register.
LEMMA GprStep ==
  ASSUME IInv, NEW d \in Pair, IsCopEnabled(Quiet /\ SetGpr(d))
  PROVE  IInv'
<1>1. CASE ~cu1
  BY <1>1, Unusable DEF IsCopEnabled
<1>2. CASE cu1
  <2>0. Quiet /\ SetGpr(d)
    BY <1>2 DEF IsCopEnabled
  <2>1. TypeOK
    BY DEF IInv
  <2>2. TypeOK'
    <3>1. insts' \in 0 .. MaxInsts /\ exc' \in BOOLEAN
      BY <2>1, CountType DEF IsCopEnabled
    <3>2. QED BY <2>0, <2>1, <3>1 DEF TypeOK, IsCopEnabled, Quiet, SetGpr, files
  <2>3. ConditionIsLast' /\ Recalls(known, fpr)'
    BY <2>0 DEF IInv, ConditionIsLast, Recalls, Quiet, SetGpr, files
  <2>4. QED BY <2>2, <2>3 DEF IInv
<1>3. QED BY <1>1, <1>2 DEF IInv, TypeOK

\* Writing memory.
LEMMA StoreStep ==
  ASSUME IInv, NEW d \in Pair, Store(d)
  PROVE  IInv'
<1>1. CASE ~cu1
  BY <1>1, Unusable DEF IsCopEnabled, Store
<1>2. CASE cu1
  <2>0. mem' = d /\ UNCHANGED <<files, fcr31, gpr, taken, panic, fr, ctl>>
    BY <1>2 DEF IsCopEnabled, Store
  <2>1. TypeOK
    BY DEF IInv
  <2>2. TypeOK'
    <3>1. insts' \in 0 .. MaxInsts /\ exc' \in BOOLEAN
      BY <2>1, CountType DEF IsCopEnabled, Store
    <3>2. QED BY <2>0, <2>1, <3>1 DEF TypeOK, IsCopEnabled, Store, files
  <2>3. ConditionIsLast' /\ Recalls(known, fpr)'
    BY <2>0 DEF IInv, ConditionIsLast, Recalls, files
  <2>4. QED BY <2>2, <2>3 DEF IInv
<1>3. QED BY <1>1, <1>2 DEF IInv, TypeOK

\* Writing FCR31, and its history with it.
LEMMA ControlStep ==
  ASSUME IInv, NEW f \in [c : BOOLEAN, rm : Modes],
         cu1, Step, exc' = ~cu1, cu1' = cu1,
         fcr31' = f, ctl' = f, panic' \in BOOLEAN, taken' \in BOOLEAN,
         UNCHANGED <<files, gpr, mem, fr>>
  PROVE  IInv'
<1>1. TypeOK /\ insts' \in 0 .. MaxInsts /\ exc' \in BOOLEAN
  BY CountType DEF IInv
<1>2. TypeOK'
  BY <1>1 DEF TypeOK, files
<1>3. ConditionIsLast' /\ Recalls(known, fpr)'
  BY DEF IInv, ConditionIsLast, Recalls, files
<1>4. QED BY <1>2, <1>3 DEF IInv

\* Moves, loads and stores.
LEMMA MoveLoadStoreStep ==
  ASSUME IInv, Move \/ LoadStore
  PROVE  IInv'
<1>1. TypeOK
  BY DEF IInv
<1>2. PICK r \in Regs :
        Mtc(r) \/ Mfc(r) \/ Dmtc(r) \/ Dmfc(r) \/ Lwc(r) \/ Ldc(r) \/ Swc(r) \/ Sdc(r)
  BY DEF Move, LoadStore
<1>3. Read32(r) \in Word /\ Read64(r) \in Pair
  BY <1>1, ReadType
<1>4. CASE Mtc(r)
  BY <1>1, <1>4, Words, SingleStep DEF Mtc
<1>5. CASE Mfc(r)
  BY <1>1, <1>3, <1>5, Words, GprStep DEF Mfc
<1>6. CASE Dmtc(r)
  BY <1>1, <1>6, Words, DoubleStep DEF Dmtc
<1>7. CASE Dmfc(r)
  BY <1>3, <1>7, GprStep DEF Dmfc
<1>8. CASE Lwc(r)
  BY <1>1, <1>8, Words, SingleStep DEF Lwc
<1>9. CASE Ldc(r)
  BY <1>1, <1>9, Words, DoubleStep DEF Ldc
<1>10. CASE Swc(r)
  <2>1. [mem EXCEPT !.hi = Read32(r)] \in Pair /\ [mem EXCEPT !.lo = Read32(r)] \in Pair
    BY <1>1, <1>3, Words DEF Pair
  <2>2. QED BY <1>10, <2>1, StoreStep DEF Swc
<1>11. CASE Sdc(r)
  BY <1>3, <1>11, StoreStep DEF Sdc
<1>12. QED BY <1>2, <1>4, <1>5, <1>6, <1>7, <1>8, <1>9, <1>10, <1>11

\* The commands that compute, move and convert.
LEMMA ComputeStep ==
  ASSUME IInv, NEW fd \in Regs, NEW fs \in Regs, NEW fmt \in {"S", "D"}, NEW how \in Explicit,
         \/ SingleResult(fd) \/ DoubleResult(fd)
         \/ MovSingle(fd, fs) \/ MovDouble(fd, fs)
         \/ ToWord(how, fmt, fd, fs) \/ ToLong(how, fmt, fd, fs)
         \/ InstCvtW(fmt, fd, fs) \/ InstCvtL(fmt, fd, fs)
  PROVE  IInv'
<1>1. TypeOK
  BY DEF IInv
<1>2. Read32(fs) \in Word /\ Read64(fs) \in Pair
  BY <1>1, ReadType
<1>3. \A h \in Roundings, half \in {Half, LongHalf} :
        /\ AsWord(Converted(h, fmt, fs, half)) \in Word
        /\ AsPair(Converted(h, fmt, fs, half)) \in Pair
  BY <1>1, ConvertedType, Cut
<1>4. how \in Roundings /\ "cvt" \in Roundings
  BY DEF Roundings
<1>5. CASE SingleResult(fd)
  BY <1>5, FpuAssumption, SingleStep DEF SingleResult
<1>6. CASE DoubleResult(fd)
  <2>1. PICK h \in Results, l \in Results :
          IsCopEnabled(Quiet /\ SetDouble(fd, [hi |-> h, lo |-> l]))
    BY <1>6 DEF DoubleResult
  <2>2. [hi |-> h, lo |-> l] \in Pair
    BY FpuAssumption DEF Pair
  <2>3. QED BY <2>1, <2>2, DoubleStep
<1>7. CASE MovSingle(fd, fs)
  BY <1>2, <1>7, SingleStep DEF MovSingle
<1>8. CASE MovDouble(fd, fs)
  BY <1>2, <1>8, DoubleStep DEF MovDouble
<1>9. CASE ToWord(how, fmt, fd, fs) \/ InstCvtW(fmt, fd, fs)
  BY <1>3, <1>4, <1>9, SingleStep DEF ToWord, InstCvtW
<1>10. CASE ToLong(how, fmt, fd, fs) \/ InstCvtL(fmt, fd, fs)
  BY <1>3, <1>4, <1>10, DoubleStep DEF ToLong, InstCvtL
<1>11. QED BY <1>5, <1>6, <1>7, <1>8, <1>9, <1>10

\* A comparison: the code's condition is the predicate recorded for it.
LEMMA CompareStep ==
  ASSUME IInv, NEW cond \in 0 .. 7, NEW allow \in BOOLEAN, NEW fmt \in {"S", "D"},
         NEW fs \in Regs, NEW ft \in Regs, InstC(cond, allow, fmt, fs, ft)
  PROVE  IInv'
<1> DEFINE a == Operand(fmt, fs)
           b == Operand(fmt, ft)
<1>1. TypeOK /\ fcr31 = ctl
  BY DEF IInv, ConditionIsLast
<1>2. a \in Value /\ b \in Value
  BY <1>1, OperandType
<1>3. Compare(cond, a, b) \in BOOLEAN /\ Compare(cond, a, b) = Predicate(cond, a, b)
  BY <1>2, CompareIsPredicate
<1> HIDE DEF a, b
<1>4. CASE ~cu1
  BY <1>4, Unusable DEF InstC, IsCopEnabled
<1>5. CASE cu1
  <2>1. /\ Step /\ exc' = ~cu1 /\ cu1' = cu1
        /\ UNCHANGED <<files, gpr, mem, taken, fr>>
        /\ panic' = (panic \/ (~allow /\ (a = NaN \/ b = NaN)))
        /\ fcr31' = [fcr31 EXCEPT !.c = Compare(cond, a, b)]
        /\ ctl' = [ctl EXCEPT !.c = Predicate(cond, a, b)]
    BY <1>5 DEF InstC, IsCopEnabled, a, b
  <2>2. panic' \in BOOLEAN /\ taken' \in BOOLEAN
    BY <1>1, <2>1, Zenon DEF TypeOK
  <2>3. fcr31' \in [c : BOOLEAN, rm : Modes] /\ ctl' = fcr31'
    BY <1>1, <1>3, <2>1 DEF TypeOK
  <2>4. QED BY <1>5, <2>1, <2>2, <2>3, ControlStep
<1>6. QED BY <1>1, <1>4, <1>5 DEF TypeOK

\* A comparison in an unknown format, and other unknown commands.
LEMMA UnknownStep ==
  ASSUME IInv, InstCUnknown \/ Unknown
  PROVE  IInv'
<1>1. TypeOK /\ fcr31 = ctl
  BY DEF IInv, ConditionIsLast
<1>2. CASE ~cu1
  BY <1>2, Unusable DEF InstCUnknown, Unknown, IsCopEnabled
<1>3. CASE cu1
  <2>1. panic \in BOOLEAN /\ taken \in BOOLEAN
    BY <1>1 DEF TypeOK
  <2>2. fcr31 \in [c : BOOLEAN, rm : Modes] /\ [fcr31 EXCEPT !.c = FALSE] \in [c : BOOLEAN, rm : Modes]
    BY <1>1 DEF TypeOK
  <2>3. CASE InstCUnknown
    BY <1>1, <1>3, <2>1, <2>2, <2>3, ControlStep DEF InstCUnknown, IsCopEnabled
  <2>4. CASE Unknown
    BY <1>1, <1>3, <2>1, <2>2, <2>4, ControlStep DEF Unknown, Quiet, IsCopEnabled
  <2>5. QED BY <2>3, <2>4
<1>4. QED BY <1>1, <1>2, <1>3 DEF TypeOK

\* The control registers.
LEMMA ControlRegisterStep ==
  ASSUME IInv, Cfc \/ Ctc
  PROVE  IInv'
<1>1. TypeOK /\ fcr31 = ctl
  BY DEF IInv, ConditionIsLast
<1>2. CASE Cfc
  <2>1. \A r \in {0, 1, 31} : ReadControl(r) \in Word
    <3>1. ControlWord \in 0 .. 7
      BY <1>1 DEF TypeOK, Modes, ControlWord
    <3>2. QED BY <3>1, FpuAssumption DEF ReadControl, Word
  <2>2. QED BY <1>1, <1>2, <2>1, Words, GprStep DEF Cfc
<1>3. CASE Ctc
  <2>1. PICK f \in {WrittenControl(gpr.lo), fcr31} :
          IsCopEnabled(/\ fcr31' = f
                       /\ ctl' = IF f = fcr31 THEN ctl ELSE f
                       /\ UNCHANGED <<files, gpr, mem, taken, panic, fr>>)
    BY <1>3 DEF Ctc
  <2>2. CASE ~cu1
    BY <2>1, <2>2, Unusable DEF IsCopEnabled
  <2>3. CASE cu1
    <3>1. f \in [c : BOOLEAN, rm : Modes]
      <4>1. gpr.lo \in Int
        BY <1>1, Words, FpuAssumption DEF Word
      <4>2. ((gpr.lo \div 4) % 2 = 1) \in BOOLEAN /\ gpr.lo % 4 \in Modes
        BY <4>1 DEF Modes
      <4>3. WrittenControl(gpr.lo) \in [c : BOOLEAN, rm : Modes]
        BY <4>2 DEF WrittenControl
      <4>4. QED BY <1>1, <4>3 DEF TypeOK
    <3>2. panic \in BOOLEAN /\ taken \in BOOLEAN
      BY <1>1 DEF TypeOK
    <3>3. /\ Step /\ exc' = ~cu1 /\ cu1' = cu1
          /\ fcr31' = f /\ ctl' = f
          /\ UNCHANGED <<files, gpr, mem, taken, panic, fr>>
      BY <1>1, <2>1, <2>3 DEF IsCopEnabled
    <3>4. QED BY <2>3, <3>1, <3>2, <3>3, ControlStep
  <2>4. QED BY <1>1, <2>2, <2>3 DEF TypeOK
<1>4. QED BY <1>2, <1>3

\* Branches on the condition.
LEMMA BranchStep ==
  ASSUME IInv, NEW sense \in BOOLEAN, Branch(sense)
  PROVE  IInv'
<1>1. TypeOK /\ fcr31 = ctl
  BY DEF IInv, ConditionIsLast
<1>2. CASE ~cu1
  BY <1>2, Unusable DEF Branch, IsCopEnabled
<1>3. CASE cu1
  <2>1. (fcr31.c = sense) \in BOOLEAN /\ panic \in BOOLEAN
    BY <1>1 DEF TypeOK
  <2>2. /\ Step /\ exc' = ~cu1 /\ cu1' = cu1
        /\ taken' = (fcr31.c = sense)
        /\ UNCHANGED <<files, fcr31, gpr, mem, panic, fr, ctl>>
    BY <1>3 DEF Branch, IsCopEnabled
  <2>3. fcr31' \in [c : BOOLEAN, rm : Modes] /\ ctl' = fcr31'
    BY <1>1, <2>2 DEF TypeOK
  <2>4. QED BY <1>3, <2>1, <2>2, <2>3, ControlStep
<1>4. QED BY <1>1, <1>2, <1>3 DEF TypeOK

\* The processor's own steps.
LEMMA ProcessorStep ==
  ASSUME IInv, MoveToSr \/ Reset
  PROVE  IInv'
<1>1. TypeOK /\ fcr31 = ctl
  BY DEF IInv, ConditionIsLast
<1>2. 0 \in Word
  BY <1>1, Words
<1>3. Step
  BY DEF MoveToSr, Reset
<1>4. insts' \in 0 .. MaxInsts
  BY <1>1, <1>3, CountType
<1>5. Recalls(known, fpr)
  BY DEF IInv
<1>6. CASE MoveToSr
  <2>1. TypeOK'
    BY <1>1, <1>4, <1>6 DEF MoveToSr, TypeOK, data, files
  <2>2. ConditionIsLast' /\ Recalls(known, fpr)'
    BY <1>1, <1>5, <1>6 DEF MoveToSr, ConditionIsLast, Recalls, data, files
  <2>3. QED BY <2>1, <2>2 DEF IInv
<1>7. CASE Reset
  <2>1. [hi |-> 0, lo |-> 0] \in Pair /\ [c |-> FALSE, rm |-> 0] \in [c : BOOLEAN, rm : Modes]
    BY <1>2 DEF Pair, Modes
  <2>2. fpr' \in [Regs -> Pair] /\ known' = fpr'
    BY <1>7, <2>1 DEF Reset
  <2>3. known' \in KnownType /\ Recalls(known', fpr')
    BY <2>2 DEF KnownType, KnownHalf, Pair, Recalls, Holds
  <2>4. TypeOK'
    BY <1>1, <1>4, <1>7, <2>1, <2>2, <2>3 DEF Reset, TypeOK, KnownType, KnownHalf
  <2>5. ConditionIsLast'
    BY <1>7 DEF Reset, ConditionIsLast
  <2>6. QED BY <2>3, <2>4, <2>5 DEF IInv
<1>8. QED BY <1>6, <1>7

\* Any step.
LEMMA NextIInv ==
  ASSUME IInv, [Next]_vars
  PROVE  IInv'
<1>1. CASE Move \/ LoadStore
  BY <1>1, MoveLoadStoreStep
<1>2. CASE Cfc \/ Ctc
  BY <1>2, ControlRegisterStep
<1>3. CASE Command
  <2>1. ASSUME NEW fd \in Regs,
               InstArith(fd) \/ InstNeg(fd) \/ InstCvtS(fd) \/ InstCvtD(fd)
        PROVE  IInv'
    <3>1. "S" \in {"S", "D"} /\ "round" \in Explicit
      BY DEF Explicit
    <3>2. SingleResult(fd) \/ DoubleResult(fd)
      BY <2>1 DEF InstArith, InstNeg, InstCvtS, InstCvtD
    <3>3. QED BY <3>1, <3>2, ComputeStep
  <2>2. ASSUME NEW fd \in Regs, NEW fs \in Regs,
               \/ MovSingle(fd, fs) \/ MovDouble(fd, fs)
               \/ \E fmt \in {"S", "D"} :
                    \/ \E how \in Explicit : ToWord(how, fmt, fd, fs) \/ ToLong(how, fmt, fd, fs)
                    \/ InstCvtW(fmt, fd, fs) \/ InstCvtL(fmt, fd, fs)
        PROVE  IInv'
    <3>1. "S" \in {"S", "D"} /\ "round" \in Explicit
      BY DEF Explicit
    <3>2. QED BY <2>2, <3>1, ComputeStep
  <2>3. ASSUME NEW cond \in 0 .. 7, NEW allow \in BOOLEAN, NEW fmt \in {"S", "D"},
               NEW fs \in Regs, NEW ft \in Regs, InstC(cond, allow, fmt, fs, ft)
        PROVE  IInv'
    BY <2>3, CompareStep
  <2>4. QED BY <1>3, <2>1, <2>2, <2>3, UnknownStep DEF Command
<1>4. CASE \E sense \in BOOLEAN : Branch(sense)
  BY <1>4, BranchStep
<1>5. CASE MoveToSr \/ Reset
  BY <1>5, ProcessorStep
<1>6. CASE UNCHANGED vars
  BY <1>6 DEF IInv, TypeOK, ConditionIsLast, Recalls, vars, data, files
<1>7. QED BY <1>1, <1>2, <1>3, <1>4, <1>5, <1>6 DEF Next

-----------------------------------------------------------------------------
(* The theorems. *)

\* The register file, FCR31 and the rest keep their types (MipsFpu::Write32,
\* WriteI32, WriteI64, the clamps before every integer result).
THEOREM TypesAreRight == Spec => []TypeOK
<1>1. IInv => TypeOK
  BY DEF IInv
<1>2. QED BY InitIInv, NextIInv, <1>1, PTL DEF Spec

\* A branch on the condition sees what the last comparison or move to FCR31 said,
\* and a conversion rounds as the last move asked, for all formats and operands,
\* NaN included (compare, InstC, Write32).
THEOREM ConditionIsTheLast == Spec => []ConditionIsLast
<1>1. IInv => ConditionIsLast
  BY DEF IInv
<1>2. QED BY InitIInv, NextIInv, <1>1, PTL DEF Spec

\* Reading either width finds in each register what was last put there, through any
\* sequence of moves, loads and commands of both widths and of changes of FR
\* (Read32 to Write64, ReadI32 to WriteI64).
THEOREM ReadsAreLastWritten == Spec => []ReadsLastWritten
<1>1. ASSUME IInv PROVE ReadsLastWritten
  <2>1. SUFFICES ASSUME NEW r \in Regs
                 PROVE  /\ Holds(Known32(r), Read32(r))
                        /\ Holds(Known64(r).hi, Read64(r).hi)
                        /\ Holds(Known64(r).lo, Read64(r).lo)
    BY DEF ReadsLastWritten
  <2>2. /\ Phys(r) \in Regs /\ Phys(r) = IF fr THEN r ELSE Even(r)
        /\ r % 2 \in {0, 1}
    BY <1>1, PhysType, Places DEF IInv
  <2>3. Known64(r) = known[Phys(r)] /\ Read64(r) = fpr[Phys(r)]
    BY <2>2 DEF Known64, Read64
  <2>4. Holds(Known64(r).hi, Read64(r).hi) /\ Holds(Known64(r).lo, Read64(r).lo)
    BY <1>1, <2>2, <2>3 DEF IInv, Recalls
  <2>5. Holds(Known32(r), Read32(r))
    BY <2>2, <2>3, <2>4 DEF Known32, Read32, Read64, IsUpper
  <2>6. QED BY <2>4, <2>5
<1>2. QED BY InitIInv, NextIInv, <1>1, PTL DEF Spec

\* What a rounding yields is next to the number, and is what it should be.
LEMMA RoundedRight ==
  ASSUME TypeOK, NEW how \in Roundings, NEW x \in Int
  PROVE  \E m \in {x \div 4, x \div 4 + 1} : m = Rounded(how, x) /\ IsRounding(how, m, x)
<1> DEFINE q == x \div 4
           r == x % 4
<1>1. q \in Int /\ r \in 0 .. 3 /\ x = 4 * q + r /\ (x >= 0 <=> q >= 0)
  OBVIOUS
<1>2. x # NaN
  BY FpuAssumption
<1>3. (-x) \div 4 = (IF r = 0 THEN -q ELSE -q - 1)
  BY <1>1
<1>4. (x + 2) \div 4 = (IF r < 2 THEN q ELSE q + 1) /\ (2 - x) \div 4 = (IF r > 2 THEN -q - 1 ELSE -q)
  BY <1>1
<1>5. Trunc(x) = IF q >= 0 \/ r = 0 THEN q ELSE q + 1
  BY <1>1, <1>3 DEF Trunc
<1>6. Floor(x) = q
  BY DEF Floor
<1>7. Ceil(x) = IF r = 0 THEN q ELSE q + 1
  BY <1>1, <1>3 DEF Ceil
<1>8. Round(x) = IF r > 2 \/ (r = 2 /\ q >= 0) THEN q + 1 ELSE q
  BY <1>1, <1>4 DEF Round
<1>9. NearbyInt(x) = IF r < 2 \/ (r = 2 /\ q % 2 = 0) THEN q ELSE q + 1
  BY DEF NearbyInt
<1>10. fcr31.rm \in {0, 1, 2, 3}
  BY DEF TypeOK, Modes
<1>11. x \div 4 = q /\ x % 4 = r
  OBVIOUS
<1> HIDE DEF q, r
<1>12. \A n \in {q, q + 1} :
         /\ Abs(4 * n - x) = (IF n = q THEN r ELSE 4 - r)
         /\ Abs(4 * n) > Abs(x) <=> (IF n = q THEN q < 0 /\ r # 0 ELSE q >= 0)
         /\ 4 * n - x = (IF n = q THEN -r ELSE 4 - r)
  BY <1>1 DEF Abs
<1>13. CASE how = "round"
  <2>1. Rounded(how, x) = Round(x)
    BY <1>2, <1>13 DEF Rounded
  <2>2. IsRounding(how, Round(x), x)
    BY <1>1, <1>8, <1>12, <1>13 DEF IsRounding
  <2>3. QED BY <1>1, <1>8, <1>11, <2>1, <2>2
<1>14. CASE how = "trunc" \/ (how = "cvt" /\ fcr31.rm = 1)
  <2>1. Rounded(how, x) = Trunc(x)
    BY <1>2, <1>10, <1>14 DEF Rounded, ByMode
  <2>2. IsRounding(how, Trunc(x), x)
    <3>1. Trunc(x) \in {q, q + 1}
      BY <1>5
    <3>2. Abs(4 * Trunc(x) - x) < 4 /\ ~(Abs(4 * Trunc(x)) > Abs(x))
      BY <1>1, <1>5, <1>12, <3>1
    <3>3. Abs(4 * Trunc(x)) <= Abs(x)
      BY <1>1, <3>1, <3>2 DEF Abs
    <3>4. QED BY <1>14, <3>2, <3>3 DEF IsRounding
  <2>3. QED BY <1>1, <1>5, <1>11, <2>1, <2>2
<1>15. CASE how = "ceil" \/ (how = "cvt" /\ fcr31.rm = 2)
  <2>1. Rounded(how, x) = Ceil(x)
    BY <1>2, <1>10, <1>15 DEF Rounded, ByMode
  <2>2. IsRounding(how, Ceil(x), x)
    BY <1>1, <1>7, <1>12, <1>15 DEF IsRounding
  <2>3. QED BY <1>1, <1>7, <1>11, <2>1, <2>2
<1>16. CASE how = "floor" \/ (how = "cvt" /\ fcr31.rm = 3)
  <2>1. Rounded(how, x) = Floor(x)
    BY <1>2, <1>10, <1>16 DEF Rounded, ByMode
  <2>2. IsRounding(how, Floor(x), x)
    BY <1>1, <1>6, <1>12, <1>16 DEF IsRounding
  <2>3. QED BY <1>1, <1>6, <1>11, <2>1, <2>2
<1>17. CASE how = "cvt" /\ fcr31.rm = 0
  <2>1. Rounded(how, x) = NearbyInt(x)
    BY <1>2, <1>17 DEF Rounded, ByMode
  <2>2. IsRounding(how, NearbyInt(x), x)
    <3>1. q % 2 = 0 \/ (q + 1) % 2 = 0
      BY <1>1
    <3>2. QED BY <1>1, <1>9, <1>12, <1>17, <3>1 DEF IsRounding
  <2>3. QED BY <1>1, <1>9, <1>11, <2>1, <2>2
<1>18. QED
  BY <1>10, <1>13, <1>14, <1>15, <1>16, <1>17 DEF Roundings, Explicit

\* Every conversion to an integer yields what its rounding asks for, or the end of
\* the range on that side, for every operand, format and width (round_f32,
\* round_f64, the clamps, InstRoundL to InstFloorW, InstCvtW, InstCvtL).
THEOREM ConversionsAreRight == Spec => []ConvertsRight
<1>1. ASSUME IInv PROVE ConvertsRight
  <2>1. SUFFICES ASSUME NEW how \in Roundings, NEW fmt \in {"S", "D"}, NEW r \in Regs,
                        NEW half \in {Half, LongHalf}
                 PROVE  LET x == Operand(fmt, r)
                            n == Converted(how, fmt, r, half)
                        IN  IF x = NaN
                            THEN n = Highest(half)
                            ELSE \E m \in {x \div 4, x \div 4 + 1} :
                                   /\ IsRounding(how, m, x)
                                   /\ \/ n = m /\ m \in Lowest(half) .. Highest(half)
                                      \/ n = Highest(half) /\ m > n
                                      \/ n = Lowest(half) /\ m < n
    BY DEF ConvertsRight
  <2> DEFINE x == Operand(fmt, r)
             n == Converted(how, fmt, r, half)
  <2>2. TypeOK /\ x \in Value /\ half \in Int
    BY <1>1, OperandType, FpuAssumption DEF IInv, LongHalf
  <2>3. n = Clamp(Rounded(how, x), half)
    BY DEF Converted
  <2> HIDE DEF x, n
  <2>4. ASSUME x = NaN PROVE n = Highest(half)
    BY <2>3, <2>4 DEF Rounded, Clamp
  <2>5. ASSUME x # NaN
        PROVE  \E m \in {x \div 4, x \div 4 + 1} :
                 /\ IsRounding(how, m, x)
                 /\ \/ n = m /\ m \in Lowest(half) .. Highest(half)
                    \/ n = Highest(half) /\ m > n
                    \/ n = Lowest(half) /\ m < n
    <3>1. x \in Int
      BY <2>2, <2>5 DEF Value
    <3>2. PICK m \in {x \div 4, x \div 4 + 1} : m = Rounded(how, x) /\ IsRounding(how, m, x)
      BY <2>2, <3>1, RoundedRight
    <3>3. m \in Int /\ m # NaN
      BY <3>1, FpuAssumption
    <3>4. \/ n = m /\ m \in Lowest(half) .. Highest(half)
          \/ n = Highest(half) /\ m > n
          \/ n = Lowest(half) /\ m < n
      BY <2>2, <2>3, <3>2, <3>3 DEF Clamp, Lowest, Highest
    <3>5. QED BY <3>2, <3>4
  <2>6. QED BY <2>4, <2>5 DEF x, n
<1>2. QED BY InitIInv, NextIInv, <1>1, PTL DEF Spec
=============================================================================
