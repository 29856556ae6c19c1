------------------------------ MODULE MipsTlb ------------------------------
(***************************************************************************)
(* The TLB (MipsTlbNormal), COP0's registers and commands for it, and the  *)
(* translation every Fetch, Load and Store goes through.                   *)
(*                                                                         *)
(* Addresses are counted in 4 KB pages.  A page mask is the size of one of *)
(* the two pages an entry maps, in 4 KB pages; only the sizes the          *)
(* architecture allows (powers of four) are written to PageMask.  EntryHi  *)
(* is a pair of pages and an ASID, EntryLo the bits G, V, D and a frame.   *)
(***************************************************************************)
EXTENDS Integers

CONSTANTS
  Entries,    \* 32
  SegPages,   \* the pages of kseg0 (and of kseg1): an eighth of the addresses
  Asids,
  HiVpns,     \* even pages a guest writes to EntryHi,
  Los,        \* what it writes to EntryLo0 and EntryLo1,
  Masks,      \* to PageMask,
  WiredValues,\* to Wired
  IndexValues,\* and to Index
  Accessed,   \* the pages whose access may raise an exception
  Pages       \* the pages the properties ask about

Lo == [g : BOOLEAN, v : BOOLEAN, d : BOOLEAN, pfn : Nat]
Hi == [vpn : Nat, asid : Asids]

ASSUME TlbAssumption ==
  /\ Entries \in Nat \ {0}
  /\ SegPages \in Nat /\ SegPages >= 2
  /\ HiVpns \subseteq 0 .. 8 * SegPages - 1 /\ \A v \in HiVpns : v % 2 = 0
  /\ Accessed \cup Pages \subseteq 0 .. 8 * SegPages - 1
  /\ Los \subseteq Lo /\ Masks \subseteq Nat \ {0} /\ WiredValues \subseteq Nat
  /\ IndexValues \subseteq 0 .. 2 * Entries - 1
  /\ 0 \in Asids /\ 1 \in Masks

VARIABLES
  entry,      \* entry_
  entryHi, entryLo0, entryLo1, pageMask,
  index,      \* index_, six bits
  wired,      \* wired_
  badVAddr,
  exc,        \* the TLB exception raised, or "none"
  asked       \* history: the registers each entry was written from

regs == <<entryHi, entryLo0, entryLo1, pageMask>>
vars == <<entry, regs, index, wired, badVAddr, exc, asked>>

ZeroLo == [g |-> FALSE, v |-> FALSE, d |-> FALSE, pfn |-> 0]
ZeroHi == [vpn |-> 0, asid |-> 0]
ZeroEntry == [lo0 |-> ZeroLo, lo1 |-> ZeroLo, hi |-> ZeroHi, mask |-> 1]

Init ==
  /\ entry = [i \in 0 .. Entries - 1 |-> ZeroEntry] /\ asked = entry
  /\ entryHi = ZeroHi /\ entryLo0 = ZeroLo /\ entryLo1 = ZeroLo /\ pageMask = 1
  /\ index = 0 /\ wired = 0 /\ badVAddr = 0
  /\ exc = "none"

-----------------------------------------------------------------------------
(* Translation. *)

Unmapped(a) == 4 * SegPages <= a /\ a < 6 * SegPages

\* Variant: the base page size decides which half is meant.
HalfOf_BasePage(e, a) == IF a % 2 = 1 THEN e.lo1 ELSE e.lo0

HalfOf(e, a) == IF (a \div e.mask) % 2 = 1 THEN e.lo1 ELSE e.lo0

VpnMatch(e, a) == e.hi.vpn \div (2 * e.mask) = a \div (2 * e.mask)

\* The entries TranslateAddress would answer from; an invalid one is skipped.
Hits(a) ==
  {i \in 0 .. Entries - 1 :
     /\ VpnMatch(entry[i], a)
     /\ entry[i].lo0.g \/ entry[i].hi.asid = entryHi.asid
     /\ HalfOf(entry[i], a).v}

First(S) == CHOOSE i \in S : \A j \in S : i <= j

\* The page a frame and the offset in a large page make.
Target(e, lo, a) == (lo.pfn \div e.mask) * e.mask + (a % e.mask)

NotFound == [found |-> FALSE, readOnly |-> FALSE, page |-> 0]

TranslateAddress(a) ==
  IF Unmapped(a)
  THEN [found |-> TRUE, readOnly |-> FALSE, page |-> a % SegPages]
  ELSE IF Hits(a) = {} THEN NotFound
  ELSE LET e  == entry[First(Hits(a))]
           lo == HalfOf(e, a)
       IN  [found |-> TRUE, readOnly |-> ~lo.d, page |-> Target(e, lo, a)]

\* The pages 28 bits of an address tell apart.
LowPages == SegPages \div 2

\* Fetch, Load8 to Load64 and Store8 to Store64.  InformTlbException keeps 28
\* bits of the address.  TriggerException panics on a TLB exception, so nothing
\* follows one.
Access(a, store) ==
  LET t == TranslateAddress(a) IN
  /\ exc = "none"
  /\ ~t.found \/ (store /\ t.readOnly)
  /\ badVAddr' = a
  /\ entryHi' = [vpn |-> 2 * ((a % LowPages) \div 2), asid |-> entryHi.asid]
  /\ exc' = IF t.found THEN "TlbMod" ELSE IF store THEN "TlbMissStore" ELSE "TlbMissLoad"
  /\ UNCHANGED <<entry, entryLo0, entryLo1, pageMask, index, wired, asked>>

-----------------------------------------------------------------------------
(* COP0 commands. *)

Idle == exc = "none"

TLBR ==
  LET e == entry[index % Entries] IN
  /\ Idle
  /\ entryLo0' = e.lo0 /\ entryLo1' = e.lo1 /\ entryHi' = e.hi /\ pageMask' = e.mask
  /\ UNCHANGED <<entry, index, wired, badVAddr, exc, asked>>

Written == [lo0 |-> entryLo0, lo1 |-> entryLo1, hi |-> entryHi, mask |-> pageMask]

\* Variant: G is stored as it was written.
Normal_Raw(e) == e

\* An entry is global only if both halves are.
Normal(e) ==
  LET g == e.lo0.g /\ e.lo1.g
  IN  [e EXCEPT !.lo0.g = g, !.lo1.g = g]

SetTlbEntry(i) ==
  /\ entry' = [entry EXCEPT ![i] = Normal(Written)]
  /\ asked' = [asked EXCEPT ![i] = Written]

TLBWI ==
  /\ Idle /\ SetTlbEntry(index % Entries)
  /\ UNCHANGED <<regs, index, wired, badVAddr, exc>>

\* TLBWR draws numbers until one is not below Wired.  A draw below it leaves
\* everything as it is, so the loop is one step; with Wired at 32 or more it does
\* not end, and the step is not there.
TLBWR ==
  /\ Idle
  /\ \E rn \in 0 .. Entries - 1 : rn >= wired /\ SetTlbEntry(rn)
  /\ UNCHANGED <<regs, index, wired, badVAddr, exc>>

\* Probing compares 28 bits of the address and does not look at the page mask.
Probed ==
  {i \in 0 .. Entries - 1 :
     /\ (entry[i].hi.vpn % LowPages) \div 2 = (entryHi.vpn % LowPages) \div 2
     /\ (entry[i].lo0.g /\ entry[i].lo1.g) \/ entry[i].hi.asid = entryHi.asid}

\* Variant: SetIndex keeps the failure bit, here the value below 0.
TLBP_RawFailure ==
  /\ Idle
  /\ index' = IF Probed = {} THEN -1 ELSE First(Probed)
  /\ UNCHANGED <<entry, regs, wired, badVAddr, exc, asked>>

\* SetIndex keeps six bits: the failure bit of the probe is not among them.
TLBP ==
  /\ Idle
  /\ index' = IF Probed = {} THEN 0 ELSE First(Probed)
  /\ UNCHANGED <<entry, regs, wired, badVAddr, exc, asked>>

-----------------------------------------------------------------------------
(* Write32 and Write64. *)

MoveToEntryHi ==
  /\ Idle
  /\ \E v \in HiVpns, asid \in Asids : entryHi' = [vpn |-> v, asid |-> asid]
  /\ UNCHANGED <<entry, entryLo0, entryLo1, pageMask, index, wired, badVAddr,
                 exc, asked>>

MoveToEntryLo ==
  /\ Idle
  /\ \E lo \in Los :
       \/ entryLo0' = lo /\ UNCHANGED entryLo1
       \/ entryLo1' = lo /\ UNCHANGED entryLo0
  /\ UNCHANGED <<entry, entryHi, pageMask, index, wired, badVAddr, exc,
                 asked>>

MoveToPageMask ==
  /\ Idle /\ pageMask' \in Masks
  /\ UNCHANGED <<entry, entryHi, entryLo0, entryLo1, index, wired, badVAddr,
                 exc, asked>>

MoveToIndex ==
  /\ Idle /\ index' \in IndexValues
  /\ UNCHANGED <<entry, regs, wired, badVAddr, exc, asked>>

MoveToWired ==
  /\ Idle /\ wired' \in WiredValues
  /\ UNCHANGED <<entry, regs, index, badVAddr, exc, asked>>

\* The processor's Reset; the TLB's registers stay.
Reset ==
  /\ entry' = [i \in 0 .. Entries - 1 |-> ZeroEntry] /\ asked' = entry'
  /\ wired' = 0 /\ badVAddr' = 0
  /\ Idle
  /\ UNCHANGED <<regs, index, exc>>

Next ==
  \/ \E a \in Accessed, store \in BOOLEAN : Access(a, store)
  \/ TLBR \/ TLBWI \/ TLBWR \/ TLBP
  \/ MoveToEntryHi \/ MoveToEntryLo \/ MoveToPageMask \/ MoveToIndex
  \/ MoveToWired \/ Reset

Spec == Init /\ [][Next]_vars

-----------------------------------------------------------------------------
RegType ==
  /\ entryHi \in Hi /\ entryLo0 \in Lo /\ entryLo1 \in Lo
  /\ pageMask \in Nat \ {0} /\ index \in 0 .. 2 * Entries - 1
  /\ wired \in Nat /\ badVAddr \in Nat

EntryType == [lo0 : Lo, lo1 : Lo, hi : Hi, mask : Nat \ {0}]

TypeOK ==
  /\ entry \in [0 .. Entries - 1 -> EntryType]
  /\ asked \in [0 .. Entries - 1 -> EntryType]
  /\ RegType
  /\ exc \in {"none", "TlbMod", "TlbMissLoad", "TlbMissStore"}

\* What the guest asked of an entry: two pages side by side, for one ASID unless
\* both are global.
Base(w) == (w.hi.vpn \div (2 * w.mask)) * 2 * w.mask
Half(w, a) == IF a < Base(w) + w.mask THEN w.lo0 ELSE w.lo1
Wanted(w, a) ==
  /\ a \in Base(w) .. Base(w) + 2 * w.mask - 1
  /\ w.hi.asid = entryHi.asid \/ (w.lo0.g /\ w.lo1.g)
  /\ Half(w, a).v

\* A mapped address is translated as some entry was written for it, never by an
\* entry of another address space, and it is found if there is such an entry
\* (TranslateAddress lines 33-57, SetTlbEntry lines 70-77).
TranslatesAsAsked ==
  \A a \in Pages :
    LET t == TranslateAddress(a) IN
    Unmapped(a) \/
      IF t.found
      THEN \E i \in 0 .. Entries - 1 :
             LET lo == Half(asked[i], a) IN
             /\ Wanted(asked[i], a)
             /\ t.readOnly = ~lo.d
             /\ t.page \div asked[i].mask = lo.pfn \div asked[i].mask
             /\ t.page % asked[i].mask = (a - Base(asked[i])) % asked[i].mask
      ELSE \A i \in 0 .. Entries - 1 : ~Wanted(asked[i], a)

\* An address that translates through a pair of base pages is found by a probe
\* for it (ProbeTlbEntry line 128 wants G in both halves, TranslateAddress line
\* 39 in the even one).
ProbeFindsMapped ==
  \A a \in Pages :
    /\ ~Unmapped(a) /\ a \div 2 = entryHi.vpn \div 2
    /\ Hits(a) # {} /\ entry[First(Hits(a))].mask = 1
    => Probed # {} /\ First(Probed) <= First(Hits(a))

\* After a TLB exception EntryHi names the pair of pages that was missing and
\* the address space it was missing in ("Preserve ASID from current EntryHi, set
\* VPN2 from faulting address", InformTlbException line 121).
EntryHiNamesFault == exc # "none" => entryHi.vpn = 2 * (badVAddr \div 2)
=============================================================================
