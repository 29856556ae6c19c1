------------------------- MODULE MipsLoadStoreProofs -------------------------
(***************************************************************************)
(* Proofs about MipsLoadStore, for a memory of any size and contents: the  *)
(* types, and that two halves make an unaligned access.                    *)
(*                                                                         *)
(* Both are about two instructions.  The invariant therefore keeps what    *)
(* the last one, if it was a half, has done: which bytes of the register   *)
(* came from where (Loaded), which bytes of memory did (Scattered).        *)
(***************************************************************************)
EXTENDS MipsLoadStore, TLAPS

Widths == {4, 8}
LeftLoad(w) == IF w = 4 THEN "lwl" ELSE "ldl"
RightLoad(w) == IF w = 4 THEN "lwr" ELSE "ldr"
LeftStore(w) == IF w = 4 THEN "swl" ELSE "sdl"
RightStore(w) == IF w = 4 THEN "swr" ELSE "sdr"
Halves == {"lwl", "lwr", "ldl", "ldr", "swl", "swr", "sdl", "sdr"}

\* The bytes a half load fetched are in the register.
Loaded ==
  \A w \in Widths :
    /\ prev.op = LeftLoad(w) =>
         \A k \in 0 .. w - 1 :
           w - 1 - k < LeftBytes(prev.at, w) => gpr[k] = mem[prev.at + (w - 1 - k)]
    /\ prev.op = RightLoad(w) =>
         \A k \in 0 .. w - 1 : k < RightBytes(prev.at, w) => gpr[k] = mem[prev.at - k]

\* The bytes a half store moved are in memory, and nothing else has changed.
Scattered ==
  \A w \in Widths, x \in Addresses :
    /\ prev.op = LeftStore(w) =>
         mem[x] = IF prev.at <= x /\ x < prev.at + LeftBytes(prev.at, w)
                  THEN gpr[w - 1 - (x - prev.at)] ELSE prev.mem[x]
    /\ prev.op = RightStore(w) =>
         mem[x] = IF prev.at - RightBytes(prev.at, w) < x /\ x <= prev.at
                  THEN gpr[prev.at - x] ELSE prev.mem[x]

IInv == TypeOK /\ Loaded /\ Scattered

-----------------------------------------------------------------------------
(* Bytes. *)

\* Extension keeps the bytes it was given.
LEMMA ExtendType ==
  ASSUME NEW w \in {1, 2, 4, 8}, NEW b \in [0 .. w - 1 -> Byte], NEW signed \in BOOLEAN
  PROVE  /\ Extend(b, w, signed) \in [0 .. 7 -> Byte]
         /\ \A k \in 0 .. w - 1 : Extend(b, w, signed)[k] = b[k]
<1>1. w \in 1 .. 8
  OBVIOUS
<1>2. ASSUME NEW k \in 0 .. 7
      PROVE  /\ Extend(b, w, signed)[k] \in Byte
             /\ k < w => Extend(b, w, signed)[k] = b[k]
  <2>1. Extend(b, w, signed)[k] =
          IF k < w THEN b[k] ELSE IF signed /\ b[w - 1] >= 128 THEN 255 ELSE 0
    BY DEF Extend
  <2>2. k < w => b[k] \in Byte
    BY <1>1
  <2>3. 0 \in Byte /\ 255 \in Byte
    BY DEF Byte
  <2>4. QED BY <2>1, <2>2, <2>3
<1>3. Extend(b, w, signed) \in [0 .. 7 -> Byte]
  <2>1. Extend(b, w, signed) = [k \in 0 .. 7 |-> Extend(b, w, signed)[k]]
    BY DEF Extend
  <2>2. QED BY <1>2, <2>1
<1>4. 0 .. w - 1 \subseteq 0 .. 7 /\ \A k \in 0 .. w - 1 : k < w
  BY <1>1
<1>5. QED BY <1>2, <1>3, <1>4

\* The loops make between one and w rounds.
LEMMA Rounds ==
  ASSUME NEW w \in Widths, NEW a \in Addresses
  PROVE  /\ a % w \in 0 .. w - 1
         /\ LeftBytes(a, w) \in 1 .. w /\ RightBytes(a, w) \in 1 .. w
<1>1. a \in Nat
  BY MemoryAssumption DEF Addresses
<1>2. CASE w = 4
  BY <1>1, <1>2 DEF LeftBytes, RightBytes, ToEnd, ToStart
<1>3. CASE w = 8
  BY <1>1, <1>3 DEF LeftBytes, RightBytes, ToEnd, ToStart
<1>4. QED BY <1>2, <1>3 DEF Widths

\* Big-endian, the two loops of a pair leave no byte out.
LEMMA Cover ==
  ASSUME NEW w \in Widths, NEW a \in Items(w), bigEndian
  PROVE  /\ a \in Addresses /\ a + w - 1 \in Addresses
         /\ LeftBytes(a, w) + RightBytes(a + w - 1, w) >= w
<1>1. a \in Nat /\ a + w <= MemBytes /\ MemBytes \in Nat
  BY MemoryAssumption DEF Items, Widths
<1>2. CASE w = 4
  BY <1>1, <1>2 DEF LeftBytes, RightBytes, ToEnd, ToStart, Addresses
<1>3. CASE w = 8
  BY <1>1, <1>3 DEF LeftBytes, RightBytes, ToEnd, ToStart, Addresses
<1>4. QED BY <1>2, <1>3 DEF Widths

\* What the bus returns and stores has its type, in either byte order.
LEMMA BusType ==
  ASSUME TypeOK, NEW w \in {1, 2, 4, 8}, NEW a \in Addresses, a + w <= MemBytes
  PROVE  BusLoad(a, w) \in [0 .. w - 1 -> Byte] /\ BusStore(a, w) \in [Addresses -> Byte]
<1>1. a \in Nat /\ MemBytes \in Nat
  BY MemoryAssumption DEF Addresses
<1>2. \A k \in 0 .. w - 1 : ByteAt(a, w, k) \in Addresses
  BY <1>1 DEF ByteAt, Addresses
<1>3. BusLoad(a, w) \in [0 .. w - 1 -> Byte]
  BY <1>2 DEF BusLoad, TypeOK
<1>4. \A x \in Addresses : a <= x /\ x < a + w =>
        (IF bigEndian THEN w - 1 - (x - a) ELSE x - a) \in 0 .. 7
  BY <1>1 DEF Addresses
<1>5. BusStore(a, w) \in [Addresses -> Byte]
  BY <1>4 DEF BusStore, TypeOK
<1>6. QED BY <1>3, <1>5

\* LWL, LWR, LDL and LDR leave a register.
LEMMA HalfLoadType ==
  ASSUME TypeOK, NEW w \in Widths, NEW a \in Addresses
  PROVE  /\ LeftInside(a, w) => LoadLeft(a, w) \in [0 .. w - 1 -> Byte]
         /\ RightInside(a, w) => LoadRight(a, w) \in [0 .. w - 1 -> Byte]
<1>1. /\ a \in Nat /\ MemBytes \in Nat
      /\ LeftBytes(a, w) \in 1 .. w /\ RightBytes(a, w) \in 1 .. w
  BY MemoryAssumption, Rounds DEF Addresses
<1>2. \A k \in 0 .. w - 1 : k \in 0 .. 7
  BY DEF Widths
<1>3. ASSUME LeftInside(a, w), NEW k \in 0 .. w - 1, w - 1 - k < LeftBytes(a, w)
      PROVE  a + (w - 1 - k) \in Addresses
  BY <1>1, <1>3 DEF LeftInside, Addresses, Widths
<1>4. ASSUME RightInside(a, w), NEW k \in 0 .. w - 1, k < RightBytes(a, w)
      PROVE  a - k \in Addresses
  BY <1>1, <1>4 DEF RightInside, Addresses, Widths
<1>5. QED BY <1>2, <1>3, <1>4 DEF LoadLeft, LoadRight, TypeOK

\* SWL, SWR, SDL and SDR leave a memory.
LEMMA HalfStoreType ==
  ASSUME TypeOK, NEW w \in Widths, NEW a \in Addresses
  PROVE  /\ StoreLeft(a, w) \in [Addresses -> Byte]
         /\ StoreRight(a, w) \in [Addresses -> Byte]
<1>1. a \in Nat /\ LeftBytes(a, w) \in 1 .. w /\ RightBytes(a, w) \in 1 .. w
  BY MemoryAssumption, Rounds DEF Addresses
<1>2. ASSUME NEW x \in Addresses, a <= x, x < a + LeftBytes(a, w)
      PROVE  w - 1 - (x - a) \in 0 .. 7
  BY <1>1, <1>2 DEF Addresses, Widths
<1>3. ASSUME NEW x \in Addresses, a - RightBytes(a, w) < x, x <= a
      PROVE  a - x \in 0 .. 7
  BY <1>1, <1>3 DEF Addresses, Widths
<1>4. QED BY <1>2, <1>3 DEF StoreLeft, StoreRight, TypeOK

-----------------------------------------------------------------------------
(* The invariant. *)

\* The names of the halves are among the operations.
LEMMA Names ==
  ASSUME NEW w \in Widths
  PROVE  {LeftLoad(w), RightLoad(w), LeftStore(w), RightStore(w)} \subseteq Halves
BY DEF Widths, LeftLoad, RightLoad, LeftStore, RightStore, Halves

\* The names of the halves tell width and side apart.
LEMMA NamesDiffer ==
  ASSUME NEW v \in Widths, NEW w \in Widths
  PROVE  /\ LeftLoad(v) = LeftLoad(w) <=> v = w
         /\ RightLoad(v) = RightLoad(w) <=> v = w
         /\ LeftStore(v) = LeftStore(w) <=> v = w
         /\ RightStore(v) = RightStore(w) <=> v = w
         /\ LeftLoad(v) \notin {RightLoad(w), LeftStore(w), RightStore(w)}
         /\ RightLoad(v) \notin {LeftStore(w), RightStore(w)}
         /\ LeftStore(v) # RightStore(w)
BY DEF Widths, LeftLoad, RightLoad, LeftStore, RightStore

\* The start satisfies the invariant.
LEMMA InitIInv == Init => IInv
BY MemoryAssumption
   DEF Init, IInv, TypeOK, Loaded, Scattered, Addresses, Widths, LeftLoad, RightLoad,
       LeftStore, RightStore

\* What every instruction does beside its work.
LEMMA Counted ==
  ASSUME TypeOK, NEW name, NEW a \in Addresses, Inst(name, a)
  PROVE  /\ bigEndian' \in BOOLEAN /\ bigEndian' = bigEndian
         /\ insts' \in 0 .. MaxInsts
         /\ prev'.op = name /\ prev'.at = a /\ prev'.mem = mem
         /\ prev'.at \in Addresses /\ prev'.mem \in [Addresses -> Byte]
BY MemoryAssumption DEF TypeOK, Inst

\* An instruction that is not a half leaves nothing to remember.
LEMMA OtherStep ==
  ASSUME IInv, NEW a \in Addresses, NEW name, name \notin Halves, Inst(name, a),
         mem' \in [Addresses -> Byte], gpr' \in [0 .. 7 -> Byte],
         badVAddr' \in Addresses \cup {-1}
  PROVE  IInv'
<1>1. TypeOK' /\ prev'.op \notin Halves
  BY Counted DEF IInv, TypeOK
<1>2. Loaded'
  BY <1>1, Names DEF Loaded
<1>3. Scattered'
  BY <1>1, Names DEF Scattered
<1>4. QED BY <1>1, <1>2, <1>3 DEF IInv

\* An aligned load keeps the invariant.
LEMMA LoadStep ==
  ASSUME IInv, NEW a \in Addresses, NEW name, name \notin Halves, NEW w \in {1, 2, 4, 8},
         NEW signed \in BOOLEAN, Load(name, a, w, signed)
  PROVE  IInv'
<1>1. TypeOK /\ a + w <= MemBytes /\ Inst(name, a)
  BY DEF IInv, Load
<1>2. Extend(BusLoad(a, w), w, signed) \in [0 .. 7 -> Byte]
  BY <1>1, BusType, ExtendType
<1>3. /\ mem' \in [Addresses -> Byte] /\ gpr' \in [0 .. 7 -> Byte]
      /\ badVAddr' \in Addresses \cup {-1}
  BY <1>1, <1>2 DEF Load, AddressError, TypeOK
<1>4. QED BY <1>1, <1>3, OtherStep

\* An aligned store keeps the invariant.
LEMMA StoreStep ==
  ASSUME IInv, NEW a \in Addresses, NEW name, name \notin Halves, NEW w \in {1, 2, 4, 8},
         Store(name, a, w)
  PROVE  IInv'
<1>1. TypeOK /\ a + w <= MemBytes /\ Inst(name, a)
  BY DEF IInv, Store
<1>2. BusStore(a, w) \in [Addresses -> Byte]
  BY <1>1, BusType
<1>3. /\ mem' \in [Addresses -> Byte] /\ gpr' \in [0 .. 7 -> Byte]
      /\ badVAddr' \in Addresses \cup {-1}
  BY <1>1, <1>2 DEF Store, AddressError, TypeOK
<1>4. QED BY <1>1, <1>3, OtherStep

\* A left load has put the bytes in place.
LEMMA LoadLeftStep ==
  ASSUME IInv, NEW w \in Widths, NEW a \in Addresses, LeftInside(a, w),
         Merge(LeftLoad(w), a, LoadLeft(a, w), w)
  PROVE  IInv'
<1>1. /\ Inst(LeftLoad(w), a) /\ UNCHANGED <<mem, badVAddr>>
      /\ gpr' = Extend(LoadLeft(a, w), w, TRUE)
  BY DEF Merge
<1>2. LoadLeft(a, w) \in [0 .. w - 1 -> Byte] /\ w \in {1, 2, 4, 8}
  BY HalfLoadType DEF IInv, Widths
<1>3. gpr' \in [0 .. 7 -> Byte] /\ \A k \in 0 .. w - 1 : gpr'[k] = LoadLeft(a, w)[k]
  BY <1>1, <1>2, ExtendType
<1>4. /\ prev'.op = LeftLoad(w) /\ prev'.at = a /\ bigEndian' = bigEndian
      /\ TypeOK'
  BY <1>1, <1>3, Counted DEF IInv, TypeOK
<1>5. LeftBytes(a, w)' = LeftBytes(a, w)
  BY <1>4 DEF LeftBytes, ToEnd, ToStart
<1>6. \A k \in 0 .. w - 1 :
        w - 1 - k < LeftBytes(a, w) => gpr'[k] = mem'[a + (w - 1 - k)]
  BY <1>1, <1>3 DEF LoadLeft
<1>7. Loaded'
  <2>1. ASSUME NEW v \in Widths, prev'.op = LeftLoad(v)
        PROVE  \A k \in 0 .. v - 1 :
                 v - 1 - k < LeftBytes(prev.at, v)' => gpr'[k] = mem'[prev'.at + (v - 1 - k)]
    <3>1. v = w
      <4>1. LeftLoad(v) = LeftLoad(w)
        BY <1>4, <2>1
      <4>2. QED BY <4>1, NamesDiffer
    <3>2. LeftBytes(prev.at, v)' = LeftBytes(a, w)
      BY <1>4, <3>1 DEF LeftBytes, ToEnd, ToStart
    <3>3. QED BY <1>4, <1>6, <3>1, <3>2
  <2>2. \A v \in Widths : prev'.op # RightLoad(v)
    BY <1>4, NamesDiffer
  <2>3. QED BY <2>1, <2>2 DEF Loaded
<1>8. Scattered'
  BY <1>4, NamesDiffer DEF Scattered
<1>9. QED BY <1>4, <1>7, <1>8 DEF IInv

\* A right load has put the bytes in place.
LEMMA LoadRightStep ==
  ASSUME IInv, NEW w \in Widths, NEW a \in Addresses, RightInside(a, w),
         Merge(RightLoad(w), a, LoadRight(a, w), w)
  PROVE  IInv'
<1>1. /\ Inst(RightLoad(w), a) /\ UNCHANGED <<mem, badVAddr>>
      /\ gpr' = Extend(LoadRight(a, w), w, TRUE)
  BY DEF Merge
<1>2. LoadRight(a, w) \in [0 .. w - 1 -> Byte] /\ w \in {1, 2, 4, 8}
  BY HalfLoadType DEF IInv, Widths
<1>3. gpr' \in [0 .. 7 -> Byte] /\ \A k \in 0 .. w - 1 : gpr'[k] = LoadRight(a, w)[k]
  BY <1>1, <1>2, ExtendType
<1>4. /\ prev'.op = RightLoad(w) /\ prev'.at = a /\ bigEndian' = bigEndian
      /\ TypeOK'
  BY <1>1, <1>3, Counted DEF IInv, TypeOK
<1>5. \A k \in 0 .. w - 1 : k < RightBytes(a, w) => gpr'[k] = mem'[a - k]
  BY <1>1, <1>3 DEF LoadRight
<1>6. Loaded'
  <2>1. ASSUME NEW v \in Widths, prev'.op = RightLoad(v)
        PROVE  \A k \in 0 .. v - 1 :
                 k < RightBytes(prev.at, v)' => gpr'[k] = mem'[prev'.at - k]
    <3>1. v = w
      <4>1. RightLoad(v) = RightLoad(w)
        BY <1>4, <2>1
      <4>2. QED BY <4>1, NamesDiffer
    <3>2. RightBytes(prev.at, v)' = RightBytes(a, w)
      BY <1>4, <3>1 DEF RightBytes, ToEnd, ToStart
    <3>3. QED BY <1>4, <1>5, <3>1, <3>2
  <2>2. \A v \in Widths : prev'.op # LeftLoad(v)
    BY <1>4, NamesDiffer
  <2>3. QED BY <2>1, <2>2 DEF Loaded
<1>7. Scattered'
  BY <1>4, NamesDiffer DEF Scattered
<1>8. QED BY <1>4, <1>6, <1>7 DEF IInv

\* A left store has put the bytes in place.
LEMMA StoreLeftStep ==
  ASSUME IInv, NEW w \in Widths, NEW a \in Addresses,
         Scatter(LeftStore(w), a, StoreLeft(a, w))
  PROVE  IInv'
<1>1. /\ Inst(LeftStore(w), a) /\ UNCHANGED <<gpr, badVAddr>>
      /\ mem' = StoreLeft(a, w)
  BY DEF Scatter
<1>2. mem' \in [Addresses -> Byte]
  BY <1>1, HalfStoreType DEF IInv
<1>3. /\ prev'.op = LeftStore(w) /\ prev'.at = a /\ prev'.mem = mem
      /\ bigEndian' = bigEndian /\ TypeOK'
  BY <1>1, <1>2, Counted DEF IInv, TypeOK
<1>4. Loaded'
  BY <1>3, NamesDiffer DEF Loaded
<1>5. Scattered'
  <2>1. ASSUME NEW v \in Widths, NEW x \in Addresses, prev'.op = LeftStore(v)
        PROVE  mem'[x] = IF prev'.at <= x /\ x < prev'.at + LeftBytes(prev.at, v)'
                         THEN gpr'[v - 1 - (x - prev'.at)] ELSE prev'.mem[x]
    <3>1. v = w
      <4>1. LeftStore(v) = LeftStore(w)
        BY <1>3, <2>1
      <4>2. QED BY <4>1, NamesDiffer
    <3>2. LeftBytes(prev.at, v)' = LeftBytes(a, w)
      BY <1>3, <3>1 DEF LeftBytes, ToEnd, ToStart
    <3>3. QED BY <1>1, <1>3, <3>1, <3>2 DEF StoreLeft
  <2>2. \A v \in Widths : prev'.op # RightStore(v)
    BY <1>3, NamesDiffer
  <2>3. QED BY <2>1, <2>2 DEF Scattered
<1>6. QED BY <1>3, <1>4, <1>5 DEF IInv

\* A right store has put the bytes in place.
LEMMA StoreRightStep ==
  ASSUME IInv, NEW w \in Widths, NEW a \in Addresses,
         Scatter(RightStore(w), a, StoreRight(a, w))
  PROVE  IInv'
<1>1. /\ Inst(RightStore(w), a) /\ UNCHANGED <<gpr, badVAddr>>
      /\ mem' = StoreRight(a, w)
  BY DEF Scatter
<1>2. mem' \in [Addresses -> Byte]
  BY <1>1, HalfStoreType DEF IInv
<1>3. /\ prev'.op = RightStore(w) /\ prev'.at = a /\ prev'.mem = mem
      /\ bigEndian' = bigEndian /\ TypeOK'
  BY <1>1, <1>2, Counted DEF IInv, TypeOK
<1>4. Loaded'
  BY <1>3, NamesDiffer DEF Loaded
<1>5. Scattered'
  <2>1. ASSUME NEW v \in Widths, NEW x \in Addresses, prev'.op = RightStore(v)
        PROVE  mem'[x] = IF prev'.at - RightBytes(prev.at, v)' < x /\ x <= prev'.at
                         THEN gpr'[prev'.at - x] ELSE prev'.mem[x]
    <3>1. v = w
      <4>1. RightStore(v) = RightStore(w)
        BY <1>3, <2>1
      <4>2. QED BY <4>1, NamesDiffer
    <3>2. RightBytes(prev.at, v)' = RightBytes(a, w)
      BY <1>3, <3>1 DEF RightBytes, ToEnd, ToStart
    <3>3. QED BY <1>1, <1>3, <3>1, <3>2 DEF StoreRight
  <2>2. \A v \in Widths : prev'.op # LeftStore(v)
    BY <1>3, NamesDiffer
  <2>3. QED BY <2>1, <2>2 DEF Scattered
<1>6. QED BY <1>3, <1>4, <1>5 DEF IInv

\* The halves, for either width.
HalfLoad ==
  \E a \in Addresses, w \in Widths :
    \/ LeftInside(a, w) /\ Merge(LeftLoad(w), a, LoadLeft(a, w), w)
    \/ RightInside(a, w) /\ Merge(RightLoad(w), a, LoadRight(a, w), w)
HalfStore ==
  \E a \in Addresses, w \in Widths :
    \/ LeftInside(a, w) /\ Scatter(LeftStore(w), a, StoreLeft(a, w))
    \/ RightInside(a, w) /\ Scatter(RightStore(w), a, StoreRight(a, w))
Aligned ==
  \E a \in Addresses :
    \/ \E name \in {"lb", "lbu", "lh", "lhu", "lw", "lwu", "ld"}, w \in {1, 2, 4, 8},
          signed \in BOOLEAN : Load(name, a, w, signed)
    \/ \E name \in {"sb", "sh", "sw", "sd"}, w \in {1, 2, 4, 8} : Store(name, a, w)

\* Every step is one of three.
LEMMA NextIs == Next => HalfLoad \/ HalfStore \/ Aligned
<1>1. SUFFICES ASSUME NEW a \in Addresses,
                 \/ Lb(a) \/ Lbu(a) \/ Lh(a) \/ Lhu(a) \/ Lw(a) \/ Lwu(a) \/ Ld(a)
                 \/ Sb(a) \/ Sh(a) \/ Sw(a) \/ Sd(a)
                 \/ Lwl(a) \/ Lwr(a) \/ Ldl(a) \/ Ldr(a)
                 \/ Swl(a) \/ Swr(a) \/ Sdl(a) \/ Sdr(a)
               PROVE HalfLoad \/ HalfStore \/ Aligned
  BY DEF Next
<1>2. CASE Lb(a) \/ Lbu(a) \/ Lh(a) \/ Lhu(a) \/ Lw(a) \/ Lwu(a) \/ Ld(a)
  BY <1>2 DEF Lb, Lbu, Lh, Lhu, Lw, Lwu, Ld, Aligned
<1>3. CASE Sb(a) \/ Sh(a) \/ Sw(a) \/ Sd(a)
  BY <1>3 DEF Sb, Sh, Sw, Sd, Aligned
<1>4. CASE Lwl(a) \/ Lwr(a) \/ Ldl(a) \/ Ldr(a)
  BY <1>4 DEF Lwl, Lwr, Ldl, Ldr, HalfLoad, LeftLoad, RightLoad, Widths
<1>5. CASE Swl(a) \/ Swr(a) \/ Sdl(a) \/ Sdr(a)
  BY <1>5 DEF Swl, Swr, Sdl, Sdr, HalfStore, LeftStore, RightStore, Widths
<1>6. QED BY <1>1, <1>2, <1>3, <1>4, <1>5

\* Every instruction keeps the invariant.
LEMMA NextIInv == IInv /\ [Next]_vars => IInv'
<1>1. SUFFICES ASSUME IInv, [Next]_vars PROVE IInv'
  OBVIOUS
<1>2. CASE HalfLoad
  BY <1>1, <1>2, LoadLeftStep, LoadRightStep DEF HalfLoad
<1>3. CASE HalfStore
  BY <1>1, <1>3, StoreLeftStep, StoreRightStep DEF HalfStore
<1>4. CASE Aligned
  <2>1. \A name \in {"lb", "lbu", "lh", "lhu", "lw", "lwu", "ld", "sb", "sh", "sw", "sd"} :
          name \notin Halves
    BY DEF Halves
  <2>2. QED BY <1>1, <1>4, <2>1, LoadStep, StoreStep DEF Aligned
<1>5. CASE UNCHANGED vars
  <2>1. TypeOK'
    BY <1>1, <1>5 DEF vars, IInv, TypeOK
  <2>2. Loaded'
    BY <1>1, <1>5 DEF vars, IInv, Loaded, LeftBytes, RightBytes, ToEnd, ToStart
  <2>3. Scattered'
    BY <1>1, <1>5 DEF vars, IInv, Scattered, LeftBytes, RightBytes, ToEnd, ToStart
  <2>4. QED BY <2>1, <2>2, <2>3 DEF IInv
<1>6. QED BY <1>1, <1>2, <1>3, <1>4, <1>5, NextIs

\* The invariant holds throughout.
LEMMA Invariant == Spec => []IInv
BY InitIInv, NextIInv, PTL DEF Spec

\* Memory and the register hold bytes, whatever ran (Load and Store handlers).
THEOREM TypesAreRight == Spec => []TypeOK
<1>1. IInv => TypeOK
  BY DEF IInv
<1>2. QED BY Invariant, <1>1, PTL

-----------------------------------------------------------------------------
(* Pairs of halves. *)

\* The instruction a step has run, if it is a half.
LEMMA LastHalf ==
  ASSUME TypeOK, Next, NEW w \in Widths
  PROVE  /\ prev'.at \in Addresses /\ prev'.mem = mem
         /\ prev'.op = LeftLoad(w) =>
              gpr' = Extend(LoadLeft(prev'.at, w), w, TRUE) /\ mem' = mem
         /\ prev'.op = RightLoad(w) =>
              gpr' = Extend(LoadRight(prev'.at, w), w, TRUE) /\ mem' = mem
         /\ prev'.op = LeftStore(w) => mem' = StoreLeft(prev'.at, w) /\ gpr' = gpr
         /\ prev'.op = RightStore(w) => mem' = StoreRight(prev'.at, w) /\ gpr' = gpr
<1>1. CASE HalfLoad
  <2>1. PICK a \in Addresses, v \in Widths :
          \/ Merge(LeftLoad(v), a, LoadLeft(a, v), v)
          \/ Merge(RightLoad(v), a, LoadRight(a, v), v)
    BY <1>1 DEF HalfLoad
  <2>2. CASE Merge(LeftLoad(v), a, LoadLeft(a, v), v)
    <3>1. prev'.op = LeftLoad(v) /\ prev'.at = a /\ prev'.mem = mem
      BY <2>2 DEF Merge, Inst
    <3>2. prev'.op = LeftLoad(w) => v = w
      <4>1. LeftLoad(v) = LeftLoad(w) => v = w
        BY NamesDiffer
      <4>2. QED BY <3>1, <4>1
    <3>3. prev'.op \notin {RightLoad(w), LeftStore(w), RightStore(w)}
      BY <3>1, NamesDiffer
    <3>4. QED BY <2>2, <3>1, <3>2, <3>3 DEF Merge
  <2>3. CASE Merge(RightLoad(v), a, LoadRight(a, v), v)
    <3>1. prev'.op = RightLoad(v) /\ prev'.at = a /\ prev'.mem = mem
      BY <2>3 DEF Merge, Inst
    <3>2. prev'.op = RightLoad(w) => v = w
      <4>1. RightLoad(v) = RightLoad(w) => v = w
        BY NamesDiffer
      <4>2. QED BY <3>1, <4>1
    <3>3. prev'.op \notin {LeftLoad(w), LeftStore(w), RightStore(w)}
      BY <3>1, NamesDiffer
    <3>4. QED BY <2>3, <3>1, <3>2, <3>3 DEF Merge
  <2>4. QED BY <2>1, <2>2, <2>3
<1>2. CASE HalfStore
  <2>1. PICK a \in Addresses, v \in Widths :
          \/ Scatter(LeftStore(v), a, StoreLeft(a, v))
          \/ Scatter(RightStore(v), a, StoreRight(a, v))
    BY <1>2 DEF HalfStore
  <2>2. CASE Scatter(LeftStore(v), a, StoreLeft(a, v))
    <3>1. prev'.op = LeftStore(v) /\ prev'.at = a /\ prev'.mem = mem
      BY <2>2 DEF Scatter, Inst
    <3>2. prev'.op = LeftStore(w) => v = w
      <4>1. LeftStore(v) = LeftStore(w) => v = w
        BY NamesDiffer
      <4>2. QED BY <3>1, <4>1
    <3>3. prev'.op \notin {LeftLoad(w), RightLoad(w), RightStore(w)}
      BY <3>1, NamesDiffer
    <3>4. QED BY <2>2, <3>1, <3>2, <3>3 DEF Scatter
  <2>3. CASE Scatter(RightStore(v), a, StoreRight(a, v))
    <3>1. prev'.op = RightStore(v) /\ prev'.at = a /\ prev'.mem = mem
      BY <2>3 DEF Scatter, Inst
    <3>2. prev'.op = RightStore(w) => v = w
      <4>1. RightStore(v) = RightStore(w) => v = w
        BY NamesDiffer
      <4>2. QED BY <3>1, <4>1
    <3>3. prev'.op \notin {LeftLoad(w), RightLoad(w), LeftStore(w)}
      BY <3>1, NamesDiffer
    <3>4. QED BY <2>3, <3>1, <3>2, <3>3 DEF Scatter
  <2>4. QED BY <2>1, <2>2, <2>3
<1>3. CASE Aligned
  <2>1. PICK a \in Addresses,
             name \in {"lb", "lbu", "lh", "lhu", "lw", "lwu", "ld", "sb", "sh", "sw", "sd"} :
          Inst(name, a)
    BY <1>3 DEF Aligned, Load, Store
  <2>2. prev'.op \notin Halves /\ prev'.at = a /\ prev'.mem = mem
    BY <2>1 DEF Inst, Halves
  <2>3. QED BY <2>2, Names
<1>4. QED BY <1>1, <1>2, <1>3, NextIs

\* After a pair of loads every byte of the item is in its place in the register.
LEMMA LoadPair ==
  ASSUME IInv, Next, NEW w \in Widths, NEW a \in Items(w),
         SecondOf(LeftLoad(w), RightLoad(w), a, w)
  PROVE  gpr' = Extend(BusLoad(a, w), w, TRUE)
<1>. DEFINE z == a + w - 1
<1>1. /\ bigEndian /\ a \in Addresses /\ z \in Addresses /\ a \in Nat /\ w \in Nat
      /\ LeftBytes(a, w) + RightBytes(z, w) >= w
      /\ LeftBytes(a, w) \in 1 .. w /\ RightBytes(z, w) \in 1 .. w
  BY Cover, Rounds DEF SecondOf, Items, Widths
<1>2. \A k \in 0 .. w - 1 : z - k = a + (w - 1 - k)
  BY <1>1
<1>3. BusLoad(a, w) = [k \in 0 .. w - 1 |-> mem[a + (w - 1 - k)]]
  BY <1>1 DEF BusLoad, ByteAt
<1>. HIDE DEF z
<1>4. CASE prev.op = LeftLoad(w) /\ prev.at = a /\ prev'.op = RightLoad(w) /\ prev'.at = z
  <2>1. gpr' = Extend(LoadRight(z, w), w, TRUE)
    BY <1>4, LastHalf DEF IInv
  <2>2. \A k \in 0 .. w - 1 :
          w - 1 - k < LeftBytes(a, w) => gpr[k] = mem[a + (w - 1 - k)]
    BY <1>4 DEF IInv, Loaded
  <2>3. ASSUME NEW k \in 0 .. w - 1
        PROVE  (IF k < RightBytes(z, w) THEN mem[z - k] ELSE gpr[k]) = mem[a + (w - 1 - k)]
    <3>1. CASE k < RightBytes(z, w)
      BY <1>2, <3>1
    <3>2. CASE ~(k < RightBytes(z, w))
      <4>1. w - 1 - k < LeftBytes(a, w)
        BY <1>1, <3>2
      <4>2. QED BY <2>2, <3>2, <4>1
    <3>3. QED BY <3>1, <3>2
  <2>4. LoadRight(z, w) = BusLoad(a, w)
    BY <1>3, <2>3 DEF LoadRight
  <2>5. QED BY <2>1, <2>4
<1>5. CASE prev.op = RightLoad(w) /\ prev.at = z /\ prev'.op = LeftLoad(w) /\ prev'.at = a
  <2>1. gpr' = Extend(LoadLeft(a, w), w, TRUE)
    BY <1>5, LastHalf DEF IInv
  <2>2. \A k \in 0 .. w - 1 : k < RightBytes(z, w) => gpr[k] = mem[z - k]
    BY <1>5 DEF IInv, Loaded
  <2>3. ASSUME NEW k \in 0 .. w - 1
        PROVE  (IF w - 1 - k < LeftBytes(a, w) THEN mem[a + (w - 1 - k)] ELSE gpr[k])
                 = mem[a + (w - 1 - k)]
    <3>1. ~(w - 1 - k < LeftBytes(a, w)) => k < RightBytes(z, w)
      BY <1>1
    <3>2. QED BY <1>2, <2>2, <3>1
  <2>4. LoadLeft(a, w) = BusLoad(a, w)
    BY <1>3, <2>3 DEF LoadLeft
  <2>5. QED BY <2>1, <2>4
<1>6. QED BY <1>4, <1>5 DEF SecondOf, z

\* After a pair of stores every byte of the item is in memory and no other changed.
LEMMA StorePair ==
  ASSUME IInv, Next, NEW w \in Widths, NEW a \in Items(w),
         SecondOf(LeftStore(w), RightStore(w), a, w)
  PROVE  Stored(a, w)
<1>. DEFINE z == a + w - 1
<1>1. /\ bigEndian /\ a \in Addresses /\ z \in Addresses /\ a \in Nat /\ w \in Nat
      /\ LeftBytes(a, w) + RightBytes(z, w) >= w
      /\ LeftBytes(a, w) \in 1 .. w /\ RightBytes(z, w) \in 1 .. w
  BY Cover, Rounds DEF SecondOf, Items, Widths
<1>2. z = a + w - 1
  OBVIOUS
<1>. HIDE DEF z
<1>3. SUFFICES ASSUME NEW x \in Addresses
               PROVE  mem'[x] = IF x \in a .. a + w - 1
                                THEN gpr[w - 1 - (x - a)] ELSE prev.mem[x]
  BY DEF Stored
<1>4. x \in Nat
  BY MemoryAssumption DEF Addresses
<1>5. /\ x \in a .. a + w - 1 <=>
           \/ a <= x /\ x < a + LeftBytes(a, w)
           \/ z - RightBytes(z, w) < x /\ x <= z
      /\ z - x = w - 1 - (x - a)
  BY <1>1, <1>2, <1>4
<1>6. CASE prev.op = LeftStore(w) /\ prev.at = a /\ prev'.op = RightStore(w) /\ prev'.at = z
  <2>1. mem'[x] = IF z - RightBytes(z, w) < x /\ x <= z THEN gpr[z - x] ELSE mem[x]
    BY <1>6, LastHalf DEF IInv, StoreRight
  <2>2. mem[x] = IF a <= x /\ x < a + LeftBytes(a, w)
                 THEN gpr[w - 1 - (x - a)] ELSE prev.mem[x]
    BY <1>6 DEF IInv, Scattered
  <2>3. QED BY <1>5, <2>1, <2>2
<1>7. CASE prev.op = RightStore(w) /\ prev.at = z /\ prev'.op = LeftStore(w) /\ prev'.at = a
  <2>1. mem'[x] = IF a <= x /\ x < a + LeftBytes(a, w)
                  THEN gpr[w - 1 - (x - a)] ELSE mem[x]
    BY <1>7, LastHalf DEF IInv, StoreLeft
  <2>2. mem[x] = IF z - RightBytes(z, w) < x /\ x <= z THEN gpr[z - x] ELSE prev.mem[x]
    BY <1>7 DEF IInv, Scattered
  <2>3. QED BY <1>5, <2>1, <2>2
<1>8. QED BY <1>6, <1>7 DEF SecondOf, z

\* A half loaded and stored back where it came from leaves memory as it is.
LEMMA BackAgain ==
  ASSUME IInv, Next, NEW w \in Widths, prev.at = prev'.at,
         \/ prev.op = LeftLoad(w) /\ prev'.op = LeftStore(w)
         \/ prev.op = RightLoad(w) /\ prev'.op = RightStore(w)
  PROVE  mem' = mem
<1>. DEFINE a == prev'.at
<1>1. /\ a \in Addresses /\ a \in Nat /\ mem \in [Addresses -> Byte]
      /\ LeftBytes(a, w) \in 1 .. w /\ RightBytes(a, w) \in 1 .. w /\ w \in Nat
  <2>1. a \in Addresses /\ TypeOK
    BY LastHalf DEF IInv
  <2>2. mem \in [Addresses -> Byte]
    BY <2>1 DEF TypeOK
  <2>. HIDE DEF a
  <2>3. a \in Nat
    BY <2>1 DEF Addresses
  <2>4. LeftBytes(a, w) \in 1 .. w /\ RightBytes(a, w) \in 1 .. w
    BY <2>1, <2>3, Rounds
  <2>5. w \in Nat
    BY DEF Widths
  <2>6. QED BY <2>1, <2>2, <2>3, <2>4, <2>5
<1>2. CASE prev.op = LeftLoad(w) /\ prev'.op = LeftStore(w)
  <2>1. mem' = StoreLeft(a, w)
    BY <1>2, LastHalf DEF IInv
  <2>2. \A k \in 0 .. w - 1 :
          w - 1 - k < LeftBytes(a, w) => gpr[k] = mem[a + (w - 1 - k)]
    BY <1>2 DEF IInv, Loaded
  <2>. HIDE DEF a
  <2>3. ASSUME NEW x \in Addresses, a <= x, x < a + LeftBytes(a, w)
        PROVE  gpr[w - 1 - (x - a)] = mem[x]
    <3>. DEFINE k == w - 1 - (x - a)
    <3>1. k \in 0 .. w - 1 /\ w - 1 - k < LeftBytes(a, w) /\ a + (w - 1 - k) = x
      BY <1>1, <2>3 DEF Addresses
    <3>2. QED BY <2>2, <3>1
  <2>4. QED BY <1>1, <2>1, <2>3 DEF StoreLeft
<1>3. CASE prev.op = RightLoad(w) /\ prev'.op = RightStore(w)
  <2>1. mem' = StoreRight(a, w)
    BY <1>3, LastHalf DEF IInv
  <2>2. \A k \in 0 .. w - 1 : k < RightBytes(a, w) => gpr[k] = mem[a - k]
    BY <1>3 DEF IInv, Loaded
  <2>. HIDE DEF a
  <2>3. ASSUME NEW x \in Addresses, a - RightBytes(a, w) < x, x <= a
        PROVE  gpr[a - x] = mem[x]
    <3>. DEFINE k == a - x
    <3>1. k \in 0 .. w - 1 /\ k < RightBytes(a, w) /\ a - k = x
      BY <1>1, <2>3 DEF Addresses
    <3>2. QED BY <2>2, <3>1
  <2>4. QED BY <1>1, <2>1, <2>3 DEF StoreRight
<1>4. QED BY <1>2, <1>3

\* A pair of half loads, in either order, reads the word or doubleword at any
\* address of any memory (InstLwl, InstLwr, InstLdl, InstLdr).
THEOREM LoadsAreWhole == Spec => UnalignedLoad
<1>1. ASSUME IInv, [Next]_vars
      PROVE  [/\ \A a \in Items(4) : SecondOf("lwl", "lwr", a, 4) =>
                   gpr' = Extend(BusLoad(a, 4), 4, TRUE)
              /\ \A a \in Items(8) : SecondOf("ldl", "ldr", a, 8) =>
                   gpr' = Extend(BusLoad(a, 8), 8, TRUE)]_vars
  <2>1. CASE Next
    <3>1. 4 \in Widths /\ LeftLoad(4) = "lwl" /\ RightLoad(4) = "lwr"
      BY DEF Widths, LeftLoad, RightLoad
    <3>2. 8 \in Widths /\ LeftLoad(8) = "ldl" /\ RightLoad(8) = "ldr"
      BY DEF Widths, LeftLoad, RightLoad
    <3>3. \A a \in Items(4) : SecondOf("lwl", "lwr", a, 4) =>
            gpr' = Extend(BusLoad(a, 4), 4, TRUE)
      BY <1>1, <2>1, <3>1, LoadPair
    <3>4. \A a \in Items(8) : SecondOf("ldl", "ldr", a, 8) =>
            gpr' = Extend(BusLoad(a, 8), 8, TRUE)
      BY <1>1, <2>1, <3>2, LoadPair
    <3>5. QED BY <3>3, <3>4
  <2>2. QED BY <1>1, <2>1
<1>2. QED BY Invariant, <1>1, PTL DEF Spec, UnalignedLoad

\* A pair of half stores, in either order, writes the word or doubleword there
\* and not a byte beside it (InstSwl, InstSwr, InstSdl, InstSdr).
THEOREM StoresAreWhole == Spec => UnalignedStore
<1>1. ASSUME IInv, [Next]_vars
      PROVE  [/\ \A a \in Items(4) : SecondOf("swl", "swr", a, 4) => Stored(a, 4)
              /\ \A a \in Items(8) : SecondOf("sdl", "sdr", a, 8) => Stored(a, 8)]_vars
  <2>1. CASE Next
    <3>1. 4 \in Widths /\ LeftStore(4) = "swl" /\ RightStore(4) = "swr"
      BY DEF Widths, LeftStore, RightStore
    <3>2. 8 \in Widths /\ LeftStore(8) = "sdl" /\ RightStore(8) = "sdr"
      BY DEF Widths, LeftStore, RightStore
    <3>3. \A a \in Items(4) : SecondOf("swl", "swr", a, 4) => Stored(a, 4)
      BY <1>1, <2>1, <3>1, StorePair
    <3>4. \A a \in Items(8) : SecondOf("sdl", "sdr", a, 8) => Stored(a, 8)
      BY <1>1, <2>1, <3>2, StorePair
    <3>5. QED BY <3>3, <3>4
  <2>2. QED BY <1>1, <2>1
<1>2. QED BY Invariant, <1>1, PTL DEF Spec, UnalignedStore

\* A half that is loaded and stored back changes nothing, on a bus of either byte
\* order.
THEOREM HalvesComeBack == Spec => HalfRoundTrip
<1>1. ASSUME IInv, [Next]_vars
      PROVE  [/\ prev.at = prev'.at
              /\ <<prev.op, prev'.op>> \in
                   {<<"lwl", "swl">>, <<"lwr", "swr">>, <<"ldl", "sdl">>, <<"ldr", "sdr">>}
              => mem' = mem]_vars
  <2>1. ASSUME Next, prev.at = prev'.at,
               <<prev.op, prev'.op>> \in
                 {<<"lwl", "swl">>, <<"lwr", "swr">>, <<"ldl", "sdl">>, <<"ldr", "sdr">>}
        PROVE  mem' = mem
    <3>1. \E w \in Widths :
            \/ prev.op = LeftLoad(w) /\ prev'.op = LeftStore(w)
            \/ prev.op = RightLoad(w) /\ prev'.op = RightStore(w)
      BY <2>1 DEF Widths, LeftLoad, LeftStore, RightLoad, RightStore
    <3>2. QED BY <1>1, <2>1, <3>1, BackAgain
  <2>2. QED BY <1>1, <2>1
<1>2. QED BY Invariant, <1>1, PTL DEF Spec, HalfRoundTrip
=============================================================================
