---------------------------- MODULE MipsTlbProofs ----------------------------
(***************************************************************************)
(* Proofs about MipsTlb, for any number of entries and any page sizes:     *)
(* its types, and that a translation is what the guest asked for.          *)
(*                                                                         *)
(* The invariant says what SetTlbEntry makes of the registers: an entry is *)
(* what was asked for, with G normalised, and every pair of pages begins   *)
(* at an even one.                                                         *)
(***************************************************************************)
EXTENDS MipsTlb, TLAPS, WellFoundedInduction

-----------------------------------------------------------------------------
(* Numbers. *)

\* Every set of natural numbers that is not empty has a least element, so that
\* First is one of the set.
LEMMA Least ==
  ASSUME NEW S \in SUBSET Nat, S # {}
  PROVE  First(S) \in S /\ \A j \in S : First(S) <= j
<1>1. PICK i \in S : \A j \in S : ~(<<j, i>> \in OpToRel(<, Nat))
  BY NatLessThanWellFounded, WFMin, Zenon
<1>2. ASSUME NEW j \in S, j < i PROVE FALSE
  <2>1. <<j, i>> \in OpToRel(<, Nat)
    BY <1>2 DEF OpToRel
  <2>2. QED BY <1>1, <2>1, Zenon
<1>3. \A j \in S : i <= j
  BY <1>2
<1>4. QED BY <1>3 DEF First

\* The quotient and the remainder are determined by where a number lies.
LEMMA Division ==
  ASSUME NEW d \in Nat \ {0}, NEW q \in Nat, NEW x \in Nat
  PROVE  x \div d = q <=> q * d <= x /\ x < q * d + d
OBVIOUS
\* A number put together from a quotient and a remainder comes apart again.
LEMMA DivMod ==
  ASSUME NEW d \in Nat \ {0}, NEW q \in Nat, NEW r \in 0 .. d - 1
  PROVE  (q * d + r) \div d = q /\ (q * d + r) % d = r
OBVIOUS

-----------------------------------------------------------------------------
(* The inductive invariant. *)

\* A pair of pages begins at an even one.
Even(h) == h.vpn % 2 = 0
EvenPairs ==
  /\ Even(entryHi)
  /\ \A i \in 0 .. Entries - 1 : Even(entry[i].hi)

\* An entry is what was asked for, with G normalised.
Made == \A i \in 0 .. Entries - 1 : entry[i] = Normal(asked[i])

IInv == TypeOK /\ EvenPairs /\ Made

\* The registers after a reset have their types, and begin at an even page.
LEMMA ZeroType == ZeroLo \in Lo /\ ZeroHi \in Hi /\ ZeroEntry \in EntryType /\ Even(ZeroHi)
BY TlbAssumption DEF ZeroLo, ZeroHi, ZeroEntry, Lo, Hi, EntryType, Even

\* Normalising G changes the two halves only, and keeps the type.
LEMMA NormalType ==
  ASSUME NEW e \in EntryType
  PROVE  /\ Normal(e) \in EntryType
         /\ Normal(e).hi = e.hi /\ Normal(e).mask = e.mask
         /\ Normal(e).lo0.g = (e.lo0.g /\ e.lo1.g)
         /\ Normal(e).lo1.g = (e.lo0.g /\ e.lo1.g)
         /\ Normal(e).lo0.v = e.lo0.v /\ Normal(e).lo1.v = e.lo1.v
         /\ Normal(e).lo0.d = e.lo0.d /\ Normal(e).lo1.d = e.lo1.d
         /\ Normal(e).lo0.pfn = e.lo0.pfn /\ Normal(e).lo1.pfn = e.lo1.pfn
BY DEF Normal, EntryType, Lo

\* Normalising G changes nothing else of a half.
LEMMA SameLo ==
  ASSUME NEW x \in Lo, NEW y \in Lo, x.g = y.g, x.v = y.v, x.d = y.d, x.pfn = y.pfn
  PROVE  x = y
BY DEF Lo

\* The entry after a reset is normal.
LEMMA ZeroNormal == Normal(ZeroEntry) = ZeroEntry
<1>. DEFINE n == Normal(ZeroEntry)
<1>1. /\ n \in EntryType /\ n.hi = ZeroHi /\ n.mask = 1
      /\ n.lo0.g = FALSE /\ n.lo1.g = FALSE
      /\ n.lo0.v = FALSE /\ n.lo1.v = FALSE
      /\ n.lo0.d = FALSE /\ n.lo1.d = FALSE
      /\ n.lo0.pfn = 0 /\ n.lo1.pfn = 0
  BY ZeroType, NormalType DEF ZeroEntry, ZeroLo
<1>. HIDE DEF n
<1>2. n.lo0 = ZeroLo /\ n.lo1 = ZeroLo
  <2>1. n.lo0 \in Lo /\ n.lo1 \in Lo
    BY <1>1 DEF EntryType
  <2>2. ZeroLo.g = FALSE /\ ZeroLo.v = FALSE /\ ZeroLo.d = FALSE /\ ZeroLo.pfn = 0
    BY DEF ZeroLo
  <2>3. QED BY <1>1, <2>1, <2>2, ZeroType, SameLo
<1>3. n = [lo0 |-> n.lo0, lo1 |-> n.lo1, hi |-> n.hi, mask |-> n.mask]
  BY <1>1 DEF EntryType
<1>4. n = ZeroEntry
  BY <1>1, <1>2, <1>3 DEF ZeroEntry
<1>5. QED BY <1>4 DEF n

\* A reset machine satisfies the invariant.
LEMMA InitIInv == Init => IInv
<1>1. SUFFICES ASSUME Init PROVE IInv
  OBVIOUS
<1>2. TypeOK
  BY <1>1, ZeroType, TlbAssumption DEF Init, TypeOK, RegType
<1>3. EvenPairs
  BY <1>1, ZeroType DEF Init, EvenPairs, ZeroEntry
<1>4. QED BY <1>1, <1>2, <1>3, ZeroNormal DEF Init, IInv, Made

\* An access that raises an exception changes EntryHi and BadVAddr.
LEMMA AccessStep ==
  ASSUME IInv, NEW a \in Accessed, NEW store \in BOOLEAN, Access(a, store)
  PROVE  IInv'
<1>1. a \in Nat /\ LowPages \in Nat \ {0}
  BY TlbAssumption DEF LowPages
<1>2. a % LowPages \in Nat
  BY <1>1
<1>3. (a % LowPages) \div 2 \in Nat
  BY <1>2
<1>4. entryHi' \in Hi /\ Even(entryHi')
  BY <1>3 DEF Access, IInv, TypeOK, RegType, Hi, Even
<1>5. exc' \in {"TlbMod", "TlbMissLoad", "TlbMissStore"}
  BY DEF Access
<1>6. QED
  BY <1>1, <1>4, <1>5 DEF Access, IInv, TypeOK, RegType, EvenPairs, Made

\* Writing an entry.
LEMMA WriteStep ==
  ASSUME IInv, NEW i \in 0 .. Entries - 1, SetTlbEntry(i),
         UNCHANGED <<regs, index, wired, badVAddr, exc>>
  PROVE  IInv'
<1>1. Written \in EntryType /\ Even(Written.hi)
  BY DEF IInv, TypeOK, RegType, EvenPairs, Written, EntryType
<1>2. Normal(Written) \in EntryType /\ Normal(Written).hi = Written.hi
  BY <1>1, NormalType
<1>3. /\ entry' \in [0 .. Entries - 1 -> EntryType]
      /\ asked' \in [0 .. Entries - 1 -> EntryType]
  BY <1>1, <1>2 DEF IInv, TypeOK, SetTlbEntry
<1>4. TypeOK'
  BY <1>3 DEF IInv, TypeOK, RegType, regs
<1>5. EvenPairs'
  BY <1>1, <1>2 DEF IInv, TypeOK, EvenPairs, SetTlbEntry, regs
<1>6. Made'
  BY DEF IInv, TypeOK, Made, SetTlbEntry
<1>7. QED BY <1>4, <1>5, <1>6 DEF IInv

\* Every instruction on the TLB keeps the invariant.
LEMMA NextIInv == IInv /\ [Next]_vars => IInv'
<1>1. SUFFICES ASSUME IInv, [Next]_vars PROVE IInv'
  OBVIOUS
<1>2. Entries \in Nat \ {0} /\ index \in Nat
  BY <1>1, TlbAssumption DEF IInv, TypeOK, RegType
<1>3. index % Entries \in 0 .. Entries - 1
  BY <1>2
<1>4. CASE \E a \in Accessed, store \in BOOLEAN : Access(a, store)
  BY <1>1, <1>4, AccessStep
<1>5. CASE TLBR
  <2>1. entry[index % Entries] \in EntryType /\ Even(entry[index % Entries].hi)
    BY <1>1, <1>3 DEF IInv, TypeOK, EvenPairs
  <2>2. QED
    BY <1>1, <1>5, <2>1 DEF TLBR, IInv, TypeOK, RegType, EntryType, EvenPairs, Made
<1>6. CASE TLBWI
  BY <1>1, <1>3, <1>6, WriteStep DEF TLBWI
<1>7. CASE TLBWR
  BY <1>1, <1>7, WriteStep DEF TLBWR
<1>8. CASE TLBP
  <2>1. Probed \in SUBSET Nat /\ Probed \subseteq 0 .. Entries - 1
    BY <1>2 DEF Probed
  <2>2. index' \in 0 .. 2 * Entries - 1
    BY <1>2, <1>8, <2>1, Least DEF TLBP
  <2>3. QED
    BY <1>1, <1>8, <2>2 DEF TLBP, IInv, TypeOK, RegType, regs, EvenPairs, Made
<1>9. CASE MoveToEntryHi
  BY <1>1, <1>9, TlbAssumption
     DEF MoveToEntryHi, IInv, TypeOK, RegType, EvenPairs, Made, Hi, Even
<1>10. CASE MoveToEntryLo
  BY <1>1, <1>10, TlbAssumption DEF MoveToEntryLo, IInv, TypeOK, RegType, EvenPairs, Made
<1>11. CASE MoveToPageMask
  BY <1>1, <1>11, TlbAssumption DEF MoveToPageMask, IInv, TypeOK, RegType, EvenPairs, Made
<1>12. CASE MoveToIndex
  BY <1>1, <1>12, TlbAssumption DEF MoveToIndex, IInv, TypeOK, RegType, regs, EvenPairs, Made
<1>13. CASE MoveToWired
  BY <1>1, <1>13, TlbAssumption DEF MoveToWired, IInv, TypeOK, RegType, regs, EvenPairs, Made
<1>14. CASE Reset
  BY <1>1, <1>14, ZeroNormal, ZeroType
     DEF Reset, IInv, TypeOK, RegType, regs, EvenPairs, Made, ZeroEntry
<1>15. CASE UNCHANGED vars
  BY <1>1, <1>15 DEF vars, regs, IInv, TypeOK, RegType, EvenPairs, Made
<1>16. QED
  BY <1>1, <1>4, <1>5, <1>6, <1>7, <1>8, <1>9, <1>10, <1>11, <1>12, <1>13, <1>14, <1>15
     DEF Next

\* The invariant holds throughout.
LEMMA Invariant == Spec => []IInv
BY InitIInv, NextIInv, PTL DEF Spec

\* Entries and registers keep their types (MipsTlbNormal, MipsCop0).
THEOREM TypesAreRight == Spec => []TypeOK
<1>1. IInv => TypeOK
  BY DEF IInv
<1>2. QED BY Invariant, <1>1, PTL

-----------------------------------------------------------------------------
(* Translation. *)

\* The first page of the pair of size m that v lies in.
PairBase(v, m) == (v \div (2 * m)) * 2 * m

\* What the comparison and the choice of a half mean for a page a.
Lies(v, m, a) ==
  LET b == PairBase(v, m) IN
  /\ v \div (2 * m) = a \div (2 * m) <=> a \in b .. b + 2 * m - 1
  /\ a \in b .. b + 2 * m - 1 =>
       /\ (a \div m) % 2 = 1 <=> ~(a < b + m)
       /\ a % m = (a - b) % m

\* In an entry of any page size, the comparison of page numbers and the bit that
\* chooses the half say what the two pages side by side are.
LEMMA WhereItLies ==
  ASSUME NEW m \in Nat \ {0}, NEW v \in Nat, NEW a \in Nat
  PROVE  Lies(v, m, a)
<1>. DEFINE q == v \div (2 * m)
            b == PairBase(v, m)
<1>1. 2 * m \in Nat \ {0} /\ q \in Nat
  OBVIOUS
<1>2. b = q * (2 * m) /\ b \in Nat
  BY <1>1 DEF PairBase
<1>. HIDE DEF q, b
<1>3. a \div (2 * m) = q <=> b <= a /\ a < b + 2 * m
  <2>. DEFINE d == 2 * m
  <2>1. d \in Nat \ {0} /\ b = q * d
    BY <1>1, <1>2
  <2>. HIDE DEF d
  <2>2. a \div d = q <=> b <= a /\ a < b + d
    BY <1>1, <2>1, Division
  <2>3. QED BY <2>2 DEF d
<1>4. ASSUME b <= a, a < b + 2 * m
      PROVE  /\ (a \div m) % 2 = 1 <=> ~(a < b + m)
             /\ a % m = (a - b) % m
  <2>1. b = (2 * q) * m
    BY <1>1, <1>2
  <2>2. CASE a < b + m
    <3>. DEFINE p == 2 * q
                r == a - b
    <3>1. p \in Nat /\ r \in 0 .. m - 1 /\ a = p * m + r /\ r = 0 * m + r
      BY <1>1, <1>2, <1>4, <2>1, <2>2
    <3>2. p % 2 = 0
      BY <1>1
    <3>. HIDE DEF p, r
    <3>3. a \div m = p /\ a % m = r /\ r % m = r
      BY <3>1, DivMod
    <3>4. QED BY <2>2, <3>2, <3>3 DEF r
  <2>3. CASE ~(a < b + m)
    <3>. DEFINE p == 2 * q + 1
                r == a - b - m
                t == a - b
    <3>1. p \in Nat /\ r \in 0 .. m - 1 /\ a = p * m + r /\ t = 1 * m + r
      BY <1>1, <1>2, <1>4, <2>1, <2>3
    <3>2. p % 2 = 1
      BY <1>1
    <3>. HIDE DEF p, r, t
    <3>3. a \div m = p /\ a % m = r /\ t % m = r
      BY <3>1, DivMod
    <3>4. QED BY <2>3, <3>2, <3>3 DEF t
  <2>4. QED BY <2>2, <2>3
<1>5. a \in b .. b + 2 * m - 1 <=> b <= a /\ a < b + 2 * m
  BY <1>2
<1>6. q = a \div (2 * m) <=> a \in b .. b + 2 * m - 1
  BY <1>3, <1>5
<1>7. QED BY <1>4, <1>5, <1>6 DEF q, b, Lies

\* An entry answers for a page exactly if it was asked to, with the half asked for.
LEMMA AnswersAsAsked ==
  ASSUME IInv, NEW i \in 0 .. Entries - 1, NEW a \in Nat
  PROVE  LET e == entry[i]
             w == asked[i]
         IN  /\ e.mask = w.mask /\ e.mask \in Nat \ {0}
             /\ i \in Hits(a) <=> Wanted(w, a)
             /\ Wanted(w, a) =>
                  /\ HalfOf(e, a).d = Half(w, a).d
                  /\ HalfOf(e, a).pfn = Half(w, a).pfn /\ HalfOf(e, a).pfn \in Nat
                  /\ a % w.mask = (a - Base(w)) % w.mask
<1>. DEFINE e == entry[i]
            w == asked[i]
            m == w.mask
            v == w.hi.vpn
            b == Base(w)
<1>1. e \in EntryType /\ w \in EntryType /\ e = Normal(w)
  BY DEF IInv, TypeOK, Made
<1>2. /\ e.hi = w.hi /\ e.mask = m
      /\ e.lo0.g = (w.lo0.g /\ w.lo1.g)
      /\ e.lo0.v = w.lo0.v /\ e.lo1.v = w.lo1.v
      /\ e.lo0.d = w.lo0.d /\ e.lo1.d = w.lo1.d
      /\ e.lo0.pfn = w.lo0.pfn /\ e.lo1.pfn = w.lo1.pfn
  BY <1>1, NormalType
<1>3. m \in Nat \ {0} /\ v \in Nat /\ w.lo0.pfn \in Nat /\ w.lo1.pfn \in Nat
  BY <1>1 DEF EntryType, Hi, Lo
<1>4. b = PairBase(v, m)
  BY DEF Base, PairBase
<1>. HIDE DEF e, w, m, v, b
<1>5. /\ v \div (2 * m) = a \div (2 * m) <=> a \in b .. b + 2 * m - 1
      /\ a \in b .. b + 2 * m - 1 =>
           /\ (a \div m) % 2 = 1 <=> ~(a < b + m)
           /\ a % m = (a - b) % m
  <2>1. Lies(v, m, a)
    BY <1>3, WhereItLies
  <2>2. QED BY <1>4, <2>1 DEF Lies
<1>6. VpnMatch(e, a) <=> a \in b .. b + 2 * m - 1
  BY <1>2, <1>5 DEF VpnMatch, m, v
<1>7. a \in b .. b + 2 * m - 1 =>
        /\ HalfOf(e, a).v = Half(w, a).v
        /\ HalfOf(e, a).d = Half(w, a).d
        /\ HalfOf(e, a).pfn = Half(w, a).pfn /\ HalfOf(e, a).pfn \in Nat
  BY <1>2, <1>3, <1>5 DEF HalfOf, Half, b, m
<1>8. i \in Hits(a) <=> VpnMatch(e, a) /\ (e.lo0.g \/ e.hi.asid = entryHi.asid) /\ HalfOf(e, a).v
  BY DEF Hits, e
<1>9. i \in Hits(a) <=> Wanted(w, a)
  BY <1>2, <1>6, <1>7, <1>8 DEF Wanted, b, m
<1>10. Wanted(w, a) => a \in b .. b + 2 * m - 1
  BY DEF Wanted, b, m
<1>11. QED BY <1>2, <1>3, <1>5, <1>7, <1>9, <1>10 DEF e, w, m, b

\* What TranslateAddress finds is an entry that matches.
LEMMA FirstHit ==
  ASSUME NEW a, Hits(a) # {}, Entries \in Nat
  PROVE  /\ First(Hits(a)) \in Hits(a) /\ First(Hits(a)) \in 0 .. Entries - 1
         /\ \A j \in Hits(a) : First(Hits(a)) <= j
<1>1. Hits(a) \in SUBSET Nat /\ Hits(a) \subseteq 0 .. Entries - 1
  BY DEF Hits
<1>2. QED BY <1>1, Least

\* The page a frame and an offset in it make.
PageAt(f, m, a) == (f \div m) * m + (a % m)
\* The page and the offset of a translated address.
LEMMA TargetParts ==
  ASSUME NEW m \in Nat \ {0}, NEW f \in Nat, NEW a \in Nat
  PROVE  PageAt(f, m, a) \div m = f \div m /\ PageAt(f, m, a) % m = a % m
<1>. DEFINE q == f \div m
            r == a % m
            x == PageAt(f, m, a)
<1>1. q \in Nat /\ r \in 0 .. m - 1 /\ x = q * m + r
  BY DEF PageAt
<1>. HIDE DEF q, r, x
<1>2. x \div m = q /\ x % m = r
  BY <1>1, DivMod
<1>3. QED BY <1>2 DEF q, r, x

\* A mapped address is translated as an entry was written for it, and it is found
\* if one was: for any number of entries and any sizes of pages.
THEOREM TranslationsAreRight == Spec => []TranslatesAsAsked
<1>1. ASSUME IInv PROVE TranslatesAsAsked
  <2>1. SUFFICES ASSUME NEW a \in Pages, ~Unmapped(a)
                 PROVE  LET t == TranslateAddress(a) IN
                        IF t.found
                        THEN \E i \in 0 .. Entries - 1 :
                               LET lo == Half(asked[i], a) IN
                               /\ Wanted(asked[i], a)
                               /\ t.readOnly = ~lo.d
                               /\ t.page \div asked[i].mask = lo.pfn \div asked[i].mask
                               /\ t.page % asked[i].mask = (a - Base(asked[i])) % asked[i].mask
                        ELSE \A i \in 0 .. Entries - 1 : ~Wanted(asked[i], a)
    BY DEF TranslatesAsAsked
  <2>2. a \in Nat /\ Entries \in Nat
    BY TlbAssumption
  <2>3. CASE Hits(a) = {}
    <3>1. ~TranslateAddress(a).found
      BY <2>1, <2>3 DEF TranslateAddress, NotFound
    <3>2. \A i \in 0 .. Entries - 1 : ~Wanted(asked[i], a)
      BY <1>1, <2>2, <2>3, AnswersAsAsked
    <3>3. QED BY <3>1, <3>2
  <2>4. CASE Hits(a) # {}
    <3>. DEFINE i == First(Hits(a))
                e == entry[i]
                w == asked[i]
                t == TranslateAddress(a)
    <3>1. i \in Hits(a) /\ i \in 0 .. Entries - 1
      BY <2>2, <2>4, FirstHit
    <3>2. t = [found |-> TRUE, readOnly |-> ~HalfOf(e, a).d, page |-> Target(e, HalfOf(e, a), a)]
      BY <2>1, <2>4 DEF TranslateAddress
    <3>. HIDE DEF i, t
    <3>3. /\ e.mask = w.mask /\ e.mask \in Nat \ {0} /\ Wanted(w, a)
          /\ HalfOf(e, a).d = Half(w, a).d
          /\ HalfOf(e, a).pfn = Half(w, a).pfn /\ HalfOf(e, a).pfn \in Nat
          /\ a % w.mask = (a - Base(w)) % w.mask
      BY <1>1, <2>2, <3>1, AnswersAsAsked
    <3>. HIDE DEF e, w
    <3>4. t.found /\ t.readOnly = ~Half(w, a).d
      BY <3>2, <3>3
    <3>5. t.page = PageAt(HalfOf(e, a).pfn, e.mask, a)
      BY <3>2 DEF Target, PageAt
    <3>6. t.page \div w.mask = Half(w, a).pfn \div w.mask /\ t.page % w.mask = a % w.mask
      BY <2>2, <3>3, <3>5, TargetParts
    <3>7. QED BY <3>1, <3>3, <3>4, <3>6 DEF t, w
  <2>5. QED BY <2>3, <2>4
<1>2. QED BY Invariant, <1>1, PTL

\* A probe finds what translates through a pair of base pages, and not later than
\* the translation does.
THEOREM ProbesAreRight == Spec => []ProbeFindsMapped
<1>1. ASSUME IInv PROVE ProbeFindsMapped
  <2>1. SUFFICES ASSUME NEW a \in Pages, a \div 2 = entryHi.vpn \div 2,
                        Hits(a) # {}, entry[First(Hits(a))].mask = 1
                 PROVE  Probed # {} /\ First(Probed) <= First(Hits(a))
    BY DEF ProbeFindsMapped
  <2>. DEFINE i == First(Hits(a))
              e == entry[i]
  <2>2. a \in Nat /\ Entries \in Nat
    BY TlbAssumption
  <2>3. i \in Hits(a) /\ i \in 0 .. Entries - 1
    BY <2>1, <2>2, FirstHit
  <2>. HIDE DEF i
  <2>4. /\ e \in EntryType /\ asked[i] \in EntryType /\ e = Normal(asked[i])
        /\ Even(e.hi) /\ Even(entryHi) /\ entryHi \in Hi
    BY <1>1, <2>3 DEF IInv, TypeOK, RegType, EvenPairs, Made
  <2>5. e.lo0.g => e.lo1.g
    BY <2>4, NormalType
  <2>6. e.hi.vpn \div 2 = a \div 2 /\ (e.lo0.g \/ e.hi.asid = entryHi.asid)
    <3>1. VpnMatch(e, a) /\ (e.lo0.g \/ e.hi.asid = entryHi.asid)
      BY <2>3 DEF Hits
    <3>2. e.mask = 1 /\ 2 * e.mask = 2
      BY <2>1 DEF i
    <3>3. QED BY <3>1, <3>2 DEF VpnMatch
  <2>7. e.hi.vpn = entryHi.vpn
    BY <2>1, <2>4, <2>6 DEF Even, EntryType, Hi
  <2>8. i \in Probed
    BY <2>3, <2>5, <2>6, <2>7 DEF Probed
  <2>9. Probed \in SUBSET Nat
    BY DEF Probed
  <2>10. QED BY <2>8, <2>9, Least DEF i
<1>2. QED BY Invariant, <1>1, PTL
=============================================================================
