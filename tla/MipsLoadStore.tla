--------------------------- MODULE MipsLoadStore ---------------------------
(***************************************************************************)
(* The loads and stores of the 64-bit core: the aligned ones, and the      *)
(* pairs LWL/LWR, LDL/LDR, SWL/SWR and SDL/SDR with which a compiler moves *)
(* a word or a doubleword that is not aligned.                             *)
(*                                                                         *)
(* Memory and one general register (not $0) are seen as bytes; byte 0 of   *)
(* the register is its least significant one.  The addresses lie in kseg0, *)
(* so nothing misses in the TLB, and the core has no load delay            *)
(* (QueueDelayedLoad writes at once).  The bus has the byte order that     *)
(* use_big_endian_ tells the core of.                                      *)
(***************************************************************************)
EXTENDS Integers

CONSTANTS
  MemBytes,          \* the size of memory
  Mem0, Gpr0,        \* its contents and the register's at first
  AllowMisaligned,   \* allow_misaligned_access_
  MaxInsts           \* bound: the instructions run

Addresses == 0 .. MemBytes - 1
Byte == 0 .. 255

ASSUME MemoryAssumption ==
  /\ MemBytes \in Nat \ {0} /\ MemBytes % 8 = 0
  /\ Mem0 \in [Addresses -> Byte] /\ Gpr0 \in [0 .. 7 -> Byte]
  /\ AllowMisaligned \in BOOLEAN /\ MaxInsts \in Nat

VARIABLES
  bigEndian,  \* config_.use_big_endian_, as the host configured it
  mem, gpr,
  badVAddr,   \* the address of the last address error, or -1
  insts,      \* how many instructions have run
  prev        \* history: the last instruction, and memory before it

vars == <<bigEndian, mem, gpr, badVAddr, insts, prev>>

Init ==
  /\ bigEndian \in BOOLEAN
  /\ mem = Mem0 /\ gpr = Gpr0
  /\ badVAddr = -1 /\ insts = 0
  /\ prev = [op |-> "none", at |-> 0, mem |-> Mem0]

Inst(name, a) ==
  /\ insts < MaxInsts /\ insts' = insts + 1
  /\ prev' = [op |-> name, at |-> a, mem |-> mem]
  /\ UNCHANGED bigEndian

-----------------------------------------------------------------------------
(* What a register receives. *)

\* Variant: only the loaded bytes reach the register.
Extend_Missing(b, w, signed) == b

\* sext_i8_to_i64, sext_i16_to_i64, sext_i32_to_i64 and their unsigned kin: the
\* bytes above the w loaded ones.
Extend(b, w, signed) ==
  [k \in 0 .. 7 |->
     IF k < w THEN b[k] ELSE IF signed /\ b[w - 1] >= 128 THEN 255 ELSE 0]

\* The bus: w bytes from address a on, and where byte k of them is.
ByteAt(a, w, k) == IF bigEndian THEN a + (w - 1 - k) ELSE a + k

BusLoad(a, w) == [k \in 0 .. w - 1 |-> mem[ByteAt(a, w, k)]]

BusStore(a, w) ==
  [x \in Addresses |->
     IF a <= x /\ x < a + w THEN gpr[IF bigEndian THEN w - 1 - (x - a) ELSE x - a] ELSE mem[x]]

Misaligned(a, w) == ~AllowMisaligned /\ a % w # 0

-----------------------------------------------------------------------------
(* The aligned loads and stores. *)

\* What the exception does to the control flow is in MipsCpu (Trap).
AddressError(a) == badVAddr' = a /\ UNCHANGED <<mem, gpr>>

Load(name, a, w, signed) ==
  /\ a + w <= MemBytes
  /\ Inst(name, a)
  /\ IF Misaligned(a, w)
     THEN AddressError(a)
     ELSE gpr' = Extend(BusLoad(a, w), w, signed) /\ UNCHANGED <<mem, badVAddr>>

Lb(a)  == Load("lb", a, 1, TRUE)
Lbu(a) == Load("lbu", a, 1, FALSE)
Lh(a)  == Load("lh", a, 2, TRUE)
Lhu(a) == Load("lhu", a, 2, FALSE)
Lw(a)  == Load("lw", a, 4, TRUE)
Lwu(a) == Load("lwu", a, 4, FALSE)
Ld(a)  == Load("ld", a, 8, TRUE)

Store(name, a, w) ==
  /\ a + w <= MemBytes
  /\ Inst(name, a)
  /\ IF Misaligned(a, w)
     THEN AddressError(a)
     ELSE mem' = BusStore(a, w) /\ UNCHANGED <<gpr, badVAddr>>

Sb(a) == Store("sb", a, 1)
Sh(a) == Store("sh", a, 2)
Sw(a) == Store("sw", a, 4)
Sd(a) == Store("sd", a, 8)

-----------------------------------------------------------------------------
(* The unaligned ones: a loop of byte accesses upwards (left) or downwards *)
(* (right) from the address.  On a big-endian bus it ends where the        *)
(* aligned item around the address does; on a little-endian one the number *)
(* of rounds is the other half's, and the loop may leave that item.        *)

ToEnd(a, w) == w - (a % w)
ToStart(a, w) == (a % w) + 1
LeftBytes(a, w) == IF bigEndian THEN ToEnd(a, w) ELSE ToStart(a, w)
RightBytes(a, w) == IF bigEndian THEN ToStart(a, w) ELSE ToEnd(a, w)

\* Variant: the loop makes one round less.
LoadLeft_Short(a, w) ==
  [k \in 0 .. w - 1 |->
     IF w - 1 - k < LeftBytes(a, w) - 1 THEN mem[a + (w - 1 - k)] ELSE gpr[k]]

\* Byte w-1 comes from a, byte w-2 from a+1 ...
LoadLeft(a, w) ==
  [k \in 0 .. w - 1 |->
     IF w - 1 - k < LeftBytes(a, w) THEN mem[a + (w - 1 - k)] ELSE gpr[k]]

\* Byte 0 comes from a, byte 1 from a-1 ...
LoadRight(a, w) ==
  [k \in 0 .. w - 1 |-> IF k < RightBytes(a, w) THEN mem[a - k] ELSE gpr[k]]

\* The bytes the loop reaches are in memory.
LeftInside(a, w) == a + LeftBytes(a, w) <= MemBytes
RightInside(a, w) == a + 1 >= RightBytes(a, w)

Merge(name, a, b, w) ==
  /\ Inst(name, a)
  /\ gpr' = Extend(b, w, TRUE)
  /\ UNCHANGED <<mem, badVAddr>>

Lwl(a) == LeftInside(a, 4) /\ Merge("lwl", a, LoadLeft(a, 4), 4)
Lwr(a) == RightInside(a, 4) /\ Merge("lwr", a, LoadRight(a, 4), 4)
Ldl(a) == LeftInside(a, 8) /\ Merge("ldl", a, LoadLeft(a, 8), 8)
Ldr(a) == RightInside(a, 8) /\ Merge("ldr", a, LoadRight(a, 8), 8)

\* Variant: the shift does not follow the address (lines 2159-2163, shamt = i * 8).
StoreLeft_LowBytes(a, w) ==
  [x \in Addresses |->
     IF a <= x /\ x < a + LeftBytes(a, w) THEN gpr[x - a] ELSE mem[x]]

StoreLeft(a, w) ==
  [x \in Addresses |->
     IF a <= x /\ x < a + LeftBytes(a, w) THEN gpr[w - 1 - (x - a)] ELSE mem[x]]

\* Variant: the loop runs as far as StoreLeft's would.
StoreRight_LeftBytes(a, w) ==
  [x \in Addresses |->
     IF a - LeftBytes(a, w) < x /\ x <= a THEN gpr[a - x] ELSE mem[x]]

StoreRight(a, w) ==
  [x \in Addresses |->
     IF a - RightBytes(a, w) < x /\ x <= a THEN gpr[a - x] ELSE mem[x]]

Scatter(name, a, m) ==
  /\ Inst(name, a)
  /\ mem' = m
  /\ UNCHANGED <<gpr, badVAddr>>

Swl(a) == LeftInside(a, 4) /\ Scatter("swl", a, StoreLeft(a, 4))
Swr(a) == RightInside(a, 4) /\ Scatter("swr", a, StoreRight(a, 4))
Sdl(a) == LeftInside(a, 8) /\ Scatter("sdl", a, StoreLeft(a, 8))
Sdr(a) == RightInside(a, 8) /\ Scatter("sdr", a, StoreRight(a, 8))

Next ==
  \E a \in Addresses :
    \/ Lb(a) \/ Lbu(a) \/ Lh(a) \/ Lhu(a) \/ Lw(a) \/ Lwu(a) \/ Ld(a)
    \/ Sb(a) \/ Sh(a) \/ Sw(a) \/ Sd(a)
    \/ Lwl(a) \/ Lwr(a) \/ Ldl(a) \/ Ldr(a)
    \/ Swl(a) \/ Swr(a) \/ Sdl(a) \/ Sdr(a)

Spec == Init /\ [][Next]_vars

-----------------------------------------------------------------------------
TypeOK ==
  /\ bigEndian \in BOOLEAN
  /\ mem \in [Addresses -> Byte] /\ gpr \in [0 .. 7 -> Byte]
  /\ badVAddr \in Addresses \cup {-1}
  /\ insts \in 0 .. MaxInsts
  /\ prev.at \in Addresses /\ prev.mem \in [Addresses -> Byte]

\* The step is the second of a pair, in either order, for the item at a.  On a
\* little-endian bus no two halves make an unaligned item: the left loop would
\* have to run downwards from a + w - 1, and the right one upwards from a.
SecondOf(left, right, a, w) ==
  /\ bigEndian
  /\ \/ prev.op = left /\ prev.at = a /\ prev'.op = right /\ prev'.at = a + w - 1
     \/ prev.op = right /\ prev.at = a + w - 1 /\ prev'.op = left /\ prev'.at = a

Items(w) == 0 .. MemBytes - w

\* A pair of loads, in either order, yields the item at any address, whatever
\* the register held and wherever the item crosses its alignment (InstLwl,
\* InstLwr, InstLdl, InstLdr).
UnalignedLoad ==
  [][/\ \A a \in Items(4) : SecondOf("lwl", "lwr", a, 4) =>
          gpr' = Extend(BusLoad(a, 4), 4, TRUE)
     /\ \A a \in Items(8) : SecondOf("ldl", "ldr", a, 8) =>
          gpr' = Extend(BusLoad(a, 8), 8, TRUE)]_vars

\* A pair of stores puts the item there and changes no other byte: the two
\* halves leave neither a gap nor a byte of a neighbour overwritten (InstSwl,
\* InstSwr, InstSdl, InstSdr).
Stored(a, w) ==
  \A x \in Addresses :
    mem'[x] = IF x \in a .. a + w - 1 THEN gpr[w - 1 - (x - a)] ELSE prev.mem[x]
UnalignedStore ==
  [][/\ \A a \in Items(4) : SecondOf("swl", "swr", a, 4) => Stored(a, 4)
     /\ \A a \in Items(8) : SecondOf("sdl", "sdr", a, 8) => Stored(a, 8)]_vars

\* Loading one half and storing it back where it came from changes nothing, on
\* either bus: a half store takes its bytes from where the half load put them.
HalfRoundTrip ==
  [][/\ prev.at = prev'.at
     /\ <<prev.op, prev'.op>> \in
          {<<"lwl", "swl">>, <<"lwr", "swr">>, <<"ldl", "sdl">>, <<"ldr", "sdr">>}
     => mem' = mem]_vars
=============================================================================
