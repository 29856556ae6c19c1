-------------------------- MODULE MipsCacheProofs --------------------------
(***************************************************************************)
(* Theorems about the block cache, for every size of memory, block, line   *)
(* and lookup cache, every program and every entry point.                  *)
(*                                                                         *)
(* The invariant is a conjunction of named parts.  Each part is shown to   *)
(* be preserved by a lemma of its own, one case per action; the parts a    *)
(* lemma does not mention are not needed by it.                            *)
(***************************************************************************)
EXTENDS MipsCache, SequenceTheorems, FiniteSetTheorems, TLAPS

\* Memory keeps the trap at its end, so bodies stay inside memory.
LastTrap == Kind[mem[PhysWords - 1]] = "trap"

\* Every block, live or left behind beyond the live slots, has an instruction
\* and fits its array.
AllFit == \A k \in 1 .. Len(buf) : Len(buf[k].ops) \in 1 .. MaxLen

\* No full clear is requested while single invalidations are processed.
ClearPhase == phase = "clear" => ~fullClear

\* Between blocks none is held.
Released == phase # "exec" => cur = NoBlock

\* The block held while instructions run.
Held ==
  phase = "exec" =>
    /\ cur \in 1 .. Len(buf)
    /\ i \in 1 .. Len(buf[cur].ops)
    /\ Phys(pc) = buf[cur].start + i - 1

\* After OnNewBlock the map has a block for pc_.
Built == phase = "retry" => \E k \in Live : buf[k].start = Phys(pc)

IInv ==
  /\ Types /\ LastTrap /\ AllFit
  /\ KeysUnique /\ LookupSound
  /\ ClearPhase /\ WorkFlag
  /\ Released /\ Held /\ Built

-----------------------------------------------------------------------------
(* The vector behind the map. *)

\* Replacing a slot by another changes that slot only.
LEMMA EraseFacts ==
  ASSUME NEW s \in Seq(Block), NEW k \in 1 .. Len(s), NEW n \in 1 .. Len(s)
  PROVE  LET t == [s EXCEPT ![k] = s[n]]
         IN  /\ t \in Seq(Block)
             /\ Len(t) = Len(s)
             /\ t[k] = s[n]
             /\ \A j \in 1 .. Len(s) : j # k => t[j] = s[j]
<1>1. s[n] \in Block
  BY ElementOfSeq
<1>2. QED
  BY <1>1, ExceptSeq

\* Appending after the live slots keeps them and adds one.
LEMMA InsertFacts ==
  ASSUME NEW s \in Seq(Block), NEW n \in 0 .. Len(s), NEW b \in Block
  PROVE  LET t == Append(SubSeq(s, 1, n), b)
         IN  /\ t \in Seq(Block)
             /\ Len(t) = n + 1
             /\ t[n + 1] = b
             /\ \A j \in 1 .. n : t[j] = s[j]
<1> DEFINE u == SubSeq(s, 1, n)
<1>1. \A j \in 1 .. n : s[j] \in Block
  BY ElementOfSeq
<1>2. u \in Seq(Block) /\ Len(u) = n /\ \A j \in 1 .. n : u[j] = s[j]
  <2>1. n \in Int /\ 1 \in Int
    OBVIOUS
  <2>2. QED
    BY <1>1, <2>1, SubSeqProperties
<1>3. QED
  BY <1>2, AppendProperties

\* The lookup cache has a place for every address.
LEMMA IndexInRange ==
  ASSUME NEW a \in Nat
  PROVE  Index(a) \in 0 .. LookupSize - 1
BY SizeAssumption DEF Index

-----------------------------------------------------------------------------
(* Memory and the block built from it. *)

\* Patches leave the trap at the end of memory alone.
LEMMA LastTrapStep ==
  ASSUME Types, LastTrap, [Next]_vars
  PROVE  LastTrap'
<1>1. PhysWords - 1 \in Words
  BY SizeAssumption DEF Words
<1>2. CASE StoreCode
  <2>1. PICK p \in Patches : mem' = [mem EXCEPT ![p[1]] = p[2]]
    BY <1>2 DEF StoreCode
  <2>2. CASE p[1] = PhysWords - 1
    BY <1>1, <2>1, <2>2, LastWordAssumption DEF Types, LastTrap
  <2>3. CASE p[1] # PhysWords - 1
    BY <1>1, <2>1, <2>3 DEF Types, LastTrap
  <2>4. QED
    BY <2>2, <2>3
<1>3. CASE mem' = mem
  BY <1>3 DEF LastTrap
<1>4. mem' = mem \/ StoreCode
  BY DEF Next, RunCached, vars, cacheVars, cpuVars, history, Poll, NoWork,
         ClearAll, BeginClear, ClearOne, EndClear, GetFromLookup, GetFromMap,
         GetMiss, OnNewBlock, Compute, InstCache, ExecBranch, ExecTrap,
         QueueCacheClear, Reset
<1>5. QED
  BY <1>2, <1>3, <1>4

\* The block OnNewBlock decodes is a block, and it is not empty.
LEMMA NewBlockType ==
  ASSUME Types, LastTrap,
         NEW a \in Words, NEW s \in Segs, NEW n \in 1 .. MaxLen, IsBody(a, n)
  PROVE  /\ [start |-> a, seg |-> s, ops |-> BodyAndSlot(a, n)] \in Block
         /\ Len(BodyAndSlot(a, n)) \in 1 .. MaxLen
<1> DEFINE len == IF HasDelaySlot(mem[a + n - 1]) THEN n + 1 ELSE n
<1>1. n \in Nat /\ n >= 1 /\ a \in Nat /\ a + n <= PhysWords /\ PhysWords \in Nat
  BY SizeAssumption DEF Words, IsBody
<1>2. a + len <= PhysWords
  <2>1. CASE HasDelaySlot(mem[a + n - 1])
    <3>1. a + n - 1 # PhysWords - 1
      BY <2>1 DEF LastTrap, HasDelaySlot
    <3>2. QED
      BY <1>1, <2>1, <3>1
  <2>2. CASE ~HasDelaySlot(mem[a + n - 1])
    BY <1>1, <2>2
  <2>3. QED
    BY <2>1, <2>2
<1>3. len \in Nat /\ len >= 1
  BY <1>1
<1>4. \A k \in 1 .. len : mem[a + k - 1] \in Ops
  <2>1. \A k \in 1 .. len : a + k - 1 \in Words
    BY <1>1, <1>2, <1>3, SizeAssumption DEF Words
  <2>2. QED
    BY <2>1 DEF Types
<1>5. BodyAndSlot(a, n) = [k \in 1 .. len |-> mem[a + k - 1]]
  BY DEF BodyAndSlot
<1> HIDE DEF len
<1>6. BodyAndSlot(a, n) \in [1 .. len -> Ops]
  BY <1>4, <1>5
<1>7. BodyAndSlot(a, n) \in Seq(Ops) /\ Len(BodyAndSlot(a, n)) = len
  BY <1>3, <1>6, SeqDef, LenProperties
<1>8. len <= MaxLen
  <2>1. n <= MaxLen - 1
    BY SizeAssumption DEF IsBody, BodyEnds
  <2>2. QED
    BY <2>1, SizeAssumption DEF len
<1>9. QED
  BY <1>3, <1>7, <1>8, SizeAssumption DEF Block

-----------------------------------------------------------------------------
(* The steps that touch the map or its lookup cache, and what they do. *)

\* Only five kinds of step touch the vector of blocks and the lookup cache.
LEMMA MapSteps ==
  ASSUME [Next]_vars
  PROVE  \/ UNCHANGED <<buf, size, lookup>>
         \/ ClearAll \/ Reset \/ ClearOne \/ GetFromMap \/ OnNewBlock
BY DEF Next, RunCached, vars, cacheVars, cpuVars, history, Poll, NoWork,
       BeginClear, EndClear, GetFromLookup, GetMiss, Compute, StoreCode,
       InstCache, ExecBranch, ExecTrap, QueueCacheClear

\* A round of the clearing loop erases a block and forgets it, or does nothing.
LEMMA ClearOneErases ==
  ASSUME Types, ClearOne
  PROVE  \/ UNCHANGED <<buf, size, lookup>>
         \/ \E k \in Live : Forget(buf[k].start) /\ Erase(k)
BY DEF ClearOne

\* Building a block adds it, if its start is new, and drops every pointer.
LEMMA OnNewBlockInserts ==
  ASSUME Types, LastTrap, OnNewBlock
  PROVE  \E b \in Block : /\ InsertBlock(b)
                          /\ b.start = Phys(pc)
                          /\ Len(b.ops) \in 1 .. MaxLen
<1>1. PICK n \in 1 .. MaxLen :
        /\ IsBody(Phys(pc), n)
        /\ InsertBlock([start |-> Phys(pc), seg |-> pc.seg,
                        ops |-> BodyAndSlot(Phys(pc), n)])
  BY DEF OnNewBlock
<1>2. Phys(pc) \in Words /\ pc.seg \in Segs
  BY DEF Types, VA, Phys
<1>3. QED
  BY <1>1, <1>2, NewBlockType

\* The shape of the vector after an erasure.
LEMMA AfterErase ==
  ASSUME Types, NEW k \in Live, Erase(k)
  PROVE  /\ buf' \in Seq(Block) /\ Len(buf') = Len(buf)
         /\ size' = size - 1 /\ size' \in 0 .. Len(buf')
         /\ buf'[k] = buf[size]
         /\ \A j \in 1 .. Len(buf) : j # k => buf'[j] = buf[j]
<1>1. buf \in Seq(Block) /\ size \in 0 .. Len(buf) /\ Len(buf) \in Nat
  BY LenProperties DEF Types
<1>2. k \in 1 .. Len(buf) /\ size \in 1 .. Len(buf)
  BY <1>1 DEF Live
<1>3. QED
  BY <1>1, <1>2, EraseFacts DEF Erase

\* The shape of the vector after an insertion that adds.
LEMMA AfterInsert ==
  ASSUME Types, NEW b \in Block,
         buf' = Append(SubSeq(buf, 1, size), b), size' = size + 1
  PROVE  /\ buf' \in Seq(Block) /\ Len(buf') = size + 1
         /\ buf'[size + 1] = b
         /\ \A j \in 1 .. size : buf'[j] = buf[j]
BY InsertFacts DEF Types

-----------------------------------------------------------------------------
(* Keys stay unique, and every block fits its array. *)

\* A block is inserted only when its start is not in the map.
LEMMA KeysStep ==
  ASSUME Types, LastTrap, KeysUnique, [Next]_vars
  PROVE  KeysUnique'
<1>0. size \in Nat /\ size <= Len(buf) /\ Len(buf) \in Nat
  BY LenProperties DEF Types
<1>1. CASE UNCHANGED <<buf, size, lookup>>
  BY <1>1 DEF KeysUnique, Live
<1>2. CASE ClearAll \/ Reset
  BY <1>2 DEF ClearAll, Reset, KeysUnique, Live
<1>3. ASSUME NEW k \in Live, Erase(k)
      PROVE  KeysUnique'
  <2>1. /\ size' = size - 1 /\ buf'[k] = buf[size]
        /\ \A j \in 1 .. Len(buf) : j # k => buf'[j] = buf[j]
    BY <1>3, AfterErase
  <2>2. SUFFICES ASSUME NEW j \in 1 .. size - 1, NEW l \in 1 .. size - 1,
                        buf'[j].start = buf'[l].start
                 PROVE  j = l
    BY <2>1 DEF KeysUnique, Live
  <2> DEFINE was(m) == IF m = k THEN size ELSE m
  <2>3. was(j) \in Live /\ was(l) \in Live
    BY <1>0 DEF Live
  <2>4. buf'[j] = buf[was(j)] /\ buf'[l] = buf[was(l)]
    BY <1>0, <2>1
  <2>5. was(j) = was(l)
    BY <2>2, <2>3, <2>4 DEF KeysUnique
  <2>6. QED
    BY <1>0, <2>5
<1>4. CASE ClearOne
  BY <1>1, <1>3, <1>4, ClearOneErases
<1>5. CASE GetFromMap
  BY <1>5 DEF GetFromMap, KeysUnique, Live
<1>6. CASE OnNewBlock
  <2>1. PICK b \in Block : InsertBlock(b)
    BY <1>6, OnNewBlockInserts
  <2>2. CASE \E k \in Live : buf[k].start = b.start
    BY <2>1, <2>2 DEF InsertBlock, KeysUnique, Live
  <2>3. CASE ~ \E k \in Live : buf[k].start = b.start
    <3>1. buf' = Append(SubSeq(buf, 1, size), b) /\ size' = size + 1
      BY <2>1, <2>3 DEF InsertBlock
    <3>2. buf'[size + 1] = b /\ \A j \in 1 .. size : buf'[j] = buf[j]
      BY <3>1, AfterInsert
    <3>3. SUFFICES ASSUME NEW j \in 1 .. size + 1, NEW l \in 1 .. size + 1,
                          buf'[j].start = buf'[l].start
                   PROVE  j = l
      BY <3>1 DEF KeysUnique, Live
    <3>4. CASE j \in Live /\ l \in Live
      BY <3>2, <3>3, <3>4 DEF KeysUnique, Live
    <3>5. CASE j = size + 1 \/ l = size + 1
      BY <1>0, <2>3, <3>2, <3>3, <3>5 DEF Live
    <3>6. QED
      BY <1>0, <3>4, <3>5 DEF Live
  <2>4. QED
    BY <2>2, <2>3
<1>7. QED
  BY <1>1, <1>2, <1>4, <1>5, <1>6, MapSteps

\* Only what GetBlock decodes enters the vector, and it fits.
LEMMA AllFitStep ==
  ASSUME Types, LastTrap, AllFit, [Next]_vars
  PROVE  AllFit'
<1>0. size \in Nat /\ size <= Len(buf) /\ Len(buf) \in Nat
  BY LenProperties DEF Types
<1>1. CASE UNCHANGED <<buf, size, lookup>>
  BY <1>1 DEF AllFit
<1>2. CASE ClearAll \/ Reset
  BY <1>2 DEF ClearAll, Reset, AllFit
<1>3. CASE ClearOne
  <2>1. ASSUME NEW k \in Live, Erase(k)
        PROVE  AllFit'
    BY <1>0, <2>1, AfterErase DEF AllFit, Live
  <2>2. QED
    BY <1>1, <1>3, <2>1, ClearOneErases
<1>4. CASE GetFromMap
  BY <1>4 DEF GetFromMap, AllFit
<1>5. CASE OnNewBlock
  <2>1. PICK b \in Block : InsertBlock(b) /\ Len(b.ops) \in 1 .. MaxLen
    BY <1>5, OnNewBlockInserts
  <2>2. CASE UNCHANGED buf
    BY <2>2 DEF AllFit
  <2>3. CASE buf' = Append(SubSeq(buf, 1, size), b) /\ size' = size + 1
    BY <1>0, <2>1, <2>3, AfterInsert DEF AllFit
  <2>4. QED
    BY <2>1, <2>2, <2>3 DEF InsertBlock
<1>6. QED
  BY <1>1, <1>2, <1>3, <1>4, <1>5, MapSteps

-----------------------------------------------------------------------------
(* The lookup cache.  An erased block's pointer is dropped through the slot  *)
(* its start selects; the block moved into the hole is still found where it  *)
(* was, because popping leaves the storage behind the live slots alone.      *)

\* An erasure or insertion redirects every lookup pointer it makes stale.
LEMMA LookupStep ==
  ASSUME Types, LastTrap, KeysUnique, LookupSound, [Next]_vars
  PROVE  LookupSound'
<1>0. /\ size \in Nat /\ size <= Len(buf) /\ Len(buf) \in Nat
      /\ DOMAIN lookup = 0 .. LookupSize - 1
      /\ \A x \in DOMAIN lookup : lookup[x].slot \in 0 .. Len(buf)
  BY LenProperties DEF Types
<1>1. CASE UNCHANGED <<buf, size, lookup>>
  BY <1>1 DEF LookupSound, Live
<1>2. CASE ClearAll \/ Reset
  <2>1. lookup' = EmptyLookup
    BY <1>2 DEF ClearAll, Reset
  <2>2. \A x \in DOMAIN lookup' : lookup'[x].slot = NoBlock
    BY <2>1 DEF EmptyLookup
  <2>3. QED
    BY <2>2 DEF LookupSound
<1>3. ASSUME NEW k \in Live, Forget(buf[k].start), Erase(k)
      PROVE  LookupSound'
  <2>1. /\ size' = size - 1 /\ buf'[k] = buf[size]
        /\ \A j \in 1 .. Len(buf) : j # k => buf'[j] = buf[j]
    BY <1>3, AfterErase
  <2>2. DOMAIN lookup' = DOMAIN lookup
    BY <1>3 DEF Forget
  <2>3. SUFFICES ASSUME NEW x \in DOMAIN lookup, lookup'[x].slot # NoBlock
                 PROVE  \E l \in 1 .. size - 1 :
                          /\ buf'[l] = buf'[lookup'[x].slot]
                          /\ buf'[l].start = lookup'[x].addr
                          /\ Index(buf'[l].start) = x
    BY <2>1, <2>2 DEF LookupSound, Live
  <2>4. /\ lookup'[x] = lookup[x]
        /\ x = Index(buf[k].start) => lookup[x].addr # buf[k].start
    BY <1>0, <1>3, <2>3 DEF Forget, Types, NoBlock
  <2>5. PICK l \in Live : /\ buf[l] = buf[lookup[x].slot]
                          /\ buf[l].start = lookup[x].addr
                          /\ Index(buf[l].start) = x
    BY <2>3, <2>4 DEF LookupSound
  <2>6. l # k
    BY <2>4, <2>5
  <2>7. lookup[x].slot # k /\ lookup[x].slot \in 1 .. Len(buf)
    BY <1>0, <2>3, <2>4, <2>5, <2>6 DEF NoBlock
  <2>8. buf'[lookup'[x].slot] = buf[l]
    BY <2>1, <2>4, <2>5, <2>7
  <2>9. CASE l = size
    <3>1. k \in 1 .. size - 1
      BY <1>0, <2>6, <2>9 DEF Live
    <3>2. buf'[k] = buf[l]
      BY <2>1, <2>9
    <3>3. QED
      BY <2>4, <2>5, <2>8, <3>1, <3>2
  <2>10. CASE l # size
    <3>1. l \in 1 .. size - 1 /\ l \in 1 .. Len(buf)
      BY <1>0, <2>10 DEF Live
    <3>2. buf'[l] = buf[l]
      BY <2>1, <2>6, <3>1
    <3>3. QED
      BY <2>4, <2>5, <2>8, <3>1, <3>2
  <2>11. QED
    BY <2>9, <2>10
<1>4. CASE ClearOne
  BY <1>1, <1>3, <1>4, ClearOneErases
<1>5. CASE GetFromMap
  <2> DEFINE a == Phys(pc)
  <2>1. UNCHANGED <<buf, size>>
    BY <1>5 DEF GetFromMap
  <2>2. PICK k \in Live :
          /\ buf[k].start = a
          /\ lookup' = [lookup EXCEPT ![Index(a)] = [addr |-> a, slot |-> k]]
    BY <1>5 DEF GetFromMap
  <2>3. ASSUME NEW x \in DOMAIN lookup', lookup'[x].slot # NoBlock
        PROVE  \E l \in Live : /\ buf[l] = buf[lookup'[x].slot]
                               /\ buf[l].start = lookup'[x].addr
                               /\ Index(buf[l].start) = x
    <3>1. CASE x = Index(a)
      BY <2>2, <2>3, <3>1
    <3>2. CASE x # Index(a)
      BY <2>2, <2>3, <3>2 DEF LookupSound
    <3>3. QED
      BY <3>1, <3>2
  <2>4. QED
    BY <2>1, <2>3 DEF LookupSound, Live
<1>6. CASE OnNewBlock
  <2>1. lookup' = NullLookups
    BY <1>6 DEF OnNewBlock, InsertBlock
  <2>2. QED
    BY <1>0, <2>1 DEF NullLookups, LookupSound, Types
<1>7. QED
  BY <1>1, <1>2, <1>4, <1>5, <1>6, MapSteps

-----------------------------------------------------------------------------
(* The request flag. *)

\* Single invalidations are begun only when no full clear is queued.
LEMMA ClearPhaseStep ==
  ASSUME ClearPhase, [Next]_vars
  PROVE  ClearPhase'
BY DEF ClearPhase, Next, RunCached, vars, cacheVars, cpuVars, history, Poll,
       NoWork, ClearAll, BeginClear, ClearOne, EndClear, GetFromLookup,
       GetFromMap, GetMiss, OnNewBlock, ExecPlain, Compute, StoreCode,
       InstCache, ExecBranch, ExecTrap, NextEntry, Start, QueueCacheClear,
       Reset

\* The flag goes up with every request and down with the last.
LEMMA WorkFlagStep ==
  ASSUME Types, ClearPhase, WorkFlag, [Next]_vars
  PROVE  WorkFlag'
<1>1. CASE UNCHANGED <<pending, fullClear, hasWork>>
  BY <1>1 DEF WorkFlag
<1>2. CASE ClearAll \/ Reset \/ QueueCacheClear
  BY <1>2 DEF ClearAll, Reset, QueueCacheClear, WorkFlag
<1>3. CASE EndClear
  BY <1>3 DEF EndClear, ClearPhase, WorkFlag
<1>4. CASE InstCache
  <2>1. PICK l \in Lines : InvalidateBlockRange(l, l + LineWords)
    BY <1>4 DEF InstCache
  <2>2. UNCHANGED fullClear
    BY <1>4 DEF InstCache
  <2> DEFINE hit == {buf[k].start : k \in Overlapping(l, l + LineWords)}
  <2>3. pending' = pending \cup hit /\ hasWork' = (hasWork \/ hit # {})
    BY <2>1 DEF InvalidateBlockRange
  <2> HIDE DEF hit
  <2>4. pending' # {} <=> pending # {} \/ hit # {}
    BY <2>3
  <2>5. QED
    BY <2>2, <2>3, <2>4 DEF WorkFlag, Types
<1>5. QED
  BY <1>1, <1>2, <1>3, <1>4
  DEF Next, RunCached, vars, cacheVars, Poll, NoWork, BeginClear, ClearOne,
      GetFromLookup, GetFromMap, GetMiss, OnNewBlock, Compute, StoreCode,
      ExecBranch, ExecTrap

-----------------------------------------------------------------------------
(* The block that is held, and the block that was built. *)

\* After an instruction the loop leaves the block or stands on its next entry.
LEMMA NextEntryHeld ==
  ASSUME Types, Held, phase = "exec", NextEntry, buf' = buf
  PROVE  Held'
<1>1. /\ cur \in 1 .. Len(buf) /\ i \in 1 .. Len(buf[cur].ops)
      /\ buf[cur] \in Block
  BY ElementOfSeq DEF Held, Types
<1>2. Len(buf[cur].ops) \in Nat /\ buf[cur].start \in Nat
  BY <1>1, LenProperties DEF Block, Words
<1>3. CASE i < Len(buf[cur].ops) /\ pc' = EntryAddress(buf[cur], i + 1)
  <2>1. cur' = cur /\ i' = i + 1
    BY <1>3 DEF NextEntry
  <2>2. pc'.word = buf[cur].start + i
    BY <1>1, <1>2, <1>3 DEF EntryAddress
  <2>3. QED
    BY <1>1, <1>2, <1>3, <2>1, <2>2 DEF Held, Phys
<1>4. CASE ~(i < Len(buf[cur].ops) /\ pc' = EntryAddress(buf[cur], i + 1))
  BY <1>4 DEF NextEntry, Held
<1>5. QED
  BY <1>3, <1>4

\* A block found for pc_ is entered at its first instruction.
LEMMA StartHeld ==
  ASSUME Types, AllFit, NEW k \in 1 .. Len(buf), Start(k),
         buf[k].start = Phys(pc), buf' = buf, pc' = pc
  PROVE  Held'
<1>1. buf[k] \in Block
  BY ElementOfSeq DEF Types
<1>2. Len(buf[k].ops) \in Nat /\ Len(buf[k].ops) >= 1 /\ buf[k].start \in Nat
  BY <1>1, LenProperties DEF Block, AllFit, Words
<1>3. QED
  BY <1>2 DEF Start, Held, Phys

\* Within a block the index and pc_ advance together, or the block is left.
LEMMA HeldStep ==
  ASSUME Types, AllFit, LookupSound, Held, [Next]_vars
  PROVE  Held'
<1>1. CASE UNCHANGED <<buf, phase, pc, cur, i>>
  BY <1>1 DEF Held, Phys
<1>2. CASE phase' # "exec"
  BY <1>2 DEF Held
<1>3. CASE GetFromLookup
  <2> DEFINE x == Index(Phys(pc))
  <2>1. /\ lookup[x].addr = Phys(pc) /\ lookup[x].slot # NoBlock
        /\ Start(lookup[x].slot) /\ buf' = buf /\ pc' = pc
    BY <1>3 DEF GetFromLookup, IsLookupHit, cacheVars
  <2>2. x \in DOMAIN lookup
    BY IndexInRange DEF Types, VA, Phys, Words
  <2>3. lookup[x].slot \in 1 .. Len(buf)
    BY <2>1, <2>2, LenProperties DEF Types, NoBlock
  <2>4. buf[lookup[x].slot].start = Phys(pc)
    BY <2>1, <2>2 DEF LookupSound
  <2>5. QED
    BY <2>1, <2>3, <2>4, StartHeld
<1>4. CASE GetFromMap
  <2>1. PICK k \in Live : buf[k].start = Phys(pc) /\ Start(k)
    BY <1>4 DEF GetFromMap
  <2>2. buf' = buf /\ pc' = pc
    BY <1>4 DEF GetFromMap
  <2>3. k \in 1 .. Len(buf)
    BY LenProperties DEF Live, Types
  <2>4. QED
    BY <2>1, <2>2, <2>3, StartHeld
<1>5. CASE phase = "exec" /\ NextEntry /\ buf' = buf
  BY <1>5, NextEntryHeld
<1>6. QED
  BY <1>1, <1>2, <1>3, <1>4, <1>5
  DEF Next, RunCached, vars, cacheVars, cpuVars, history, Poll, NoWork,
      ClearAll, BeginClear, ClearOne, EndClear, GetMiss, OnNewBlock,
      ExecPlain, Compute, StoreCode, InstCache, ExecBranch, ExecTrap,
      QueueCacheClear, Reset

\* "Block creation failed" is never reached: between the insertion and the
\* second look-up nothing happens to the map.
LEMMA BuiltStep ==
  ASSUME Types, LastTrap, Built, [Next]_vars
  PROVE  Built'
<1>1. CASE UNCHANGED <<buf, size, phase, pc>>
  BY <1>1 DEF Built, Live, Phys
<1>2. CASE phase' # "retry"
  BY <1>2 DEF Built
<1>3. CASE OnNewBlock
  <2>1. PICK b \in Block : InsertBlock(b) /\ b.start = Phys(pc)
    BY <1>3, OnNewBlockInserts
  <2>2. pc' = pc
    BY <1>3 DEF OnNewBlock
  <2>3. size \in Nat
    BY LenProperties DEF Types
  <2>4. CASE \E k \in Live : buf[k].start = b.start
    BY <2>1, <2>2, <2>4 DEF InsertBlock, Built, Live, Phys
  <2>5. CASE ~ \E k \in Live : buf[k].start = b.start
    <3>1. buf' = Append(SubSeq(buf, 1, size), b) /\ size' = size + 1
      BY <2>1, <2>5 DEF InsertBlock
    <3>2. buf'[size + 1] = b
      BY <3>1, AfterInsert
    <3>3. size + 1 \in 1 .. size'
      BY <2>3, <3>1
    <3>4. QED
      BY <2>1, <2>2, <3>2, <3>3 DEF Built, Live, Phys
  <2>6. QED
    BY <2>4, <2>5
<1>4. QED
  BY <1>1, <1>2, <1>3
  DEF Next, RunCached, vars, cacheVars, cpuVars, history, Poll, NoWork,
      ClearAll, BeginClear, ClearOne, EndClear, GetFromLookup, GetFromMap,
      GetMiss, ExecPlain, Compute, StoreCode, InstCache, ExecBranch, ExecTrap,
      NextEntry, Start, QueueCacheClear, Reset

-----------------------------------------------------------------------------
(* Types. *)

\* Serving the requests keeps the types.
LEMMA ServedType ==
  ASSUME Types, Served, mem' = mem
  PROVE  seen' \in [Words -> SUBSET Ops] /\ posted' \subseteq Words
BY DEF Types, Served

\* Going on to the next entry keeps the types.
LEMMA NextEntryType ==
  ASSUME Types, NextEntry, buf' = buf
  PROVE  cur' \in 0 .. Len(buf') /\ i' \in Nat \ {0} /\ phase' \in Phases
<1>1. Len(buf) \in Nat
  BY LenProperties DEF Types
<1>2. QED
  BY <1>1 DEF Types, NextEntry, NoBlock, Phases

\* So does a plain instruction.
LEMMA ExecPlainType ==
  ASSUME Types, ExecPlain, buf' = buf
  PROVE  /\ cur' \in 0 .. Len(buf') /\ i' \in Nat \ {0} /\ phase' \in Phases
         /\ pc' \in VA /\ dst' \in VA \cup {NoDst}
<1>1. pc' \in VA /\ dst' = NoDst
  BY ProgramAssumption DEF Types, ExecPlain, Sequential
<1>2. QED
  BY <1>1, NextEntryType DEF ExecPlain

\* A block is held only while its instructions run.
LEMMA ReleasedStep ==
  ASSUME Released, [Next]_vars
  PROVE  Released'
BY DEF Released, Next, RunCached, vars, cacheVars, cpuVars, history, Poll,
       NoWork, ClearAll, BeginClear, ClearOne, EndClear, GetFromLookup,
       GetFromMap, GetMiss, OnNewBlock, ExecPlain, Compute, StoreCode,
       InstCache, ExecBranch, ExecTrap, NextEntry, Start, QueueCacheClear,
       Reset

\* Types are kept, by every step.
LEMMA TypeStep ==
  ASSUME Types, LastTrap, Released, [Next]_vars
  PROVE  Types'
<1>0. /\ Len(buf) \in Nat
      /\ Len(<<>>) = 0 /\ <<>> \in Seq(Block)
      /\ 0 \in Words
      /\ EmptyLookup \in [0 .. LookupSize - 1 -> [addr : Words, slot : 0 .. 0]]
  <2>1. 0 \in Words
    BY SizeAssumption DEF Words
  <2>2. QED
    BY <2>1, LenProperties, EmptySeq DEF Types, EmptyLookup, NoBlock
<1>1. CASE UNCHANGED vars
  BY <1>1 DEF vars, cacheVars, cpuVars, history, Types
<1>2. CASE Poll
  BY <1>2, ProgramAssumption DEF Poll, cacheVars, history, Types, Phases
<1>3. CASE NoWork
  BY <1>3, ServedType DEF NoWork, cacheVars, Types, Phases
<1>4. CASE ClearAll
  <2>1. cur' = 0
    BY <1>4 DEF ClearAll, Released, NoBlock
  <2>2. QED
    BY <1>0, <1>4, <2>1, ServedType DEF ClearAll, Types, Phases
<1>5. CASE BeginClear
  BY <1>5 DEF BeginClear, history, Types, Phases
<1>6. CASE ClearOne
  <2>1. todo' \subseteq Words /\ UNCHANGED <<mem, pending, fullClear, hasWork, cpuVars, history>>
    BY <1>6 DEF ClearOne, Types
  <2>2. CASE UNCHANGED <<buf, size, lookup>>
    BY <2>1, <2>2 DEF Types, cpuVars, history
  <2>3. ASSUME NEW k \in Live, Forget(buf[k].start), Erase(k)
        PROVE  Types'
    <3>1. /\ buf' \in Seq(Block) /\ Len(buf') = Len(buf)
          /\ size' \in 0 .. Len(buf')
      BY <2>3, AfterErase
    <3>2. k \in 1 .. Len(buf)
      BY <1>0 DEF Types, Live
    <3>3. buf[k] \in Block
      BY <3>2, ElementOfSeq DEF Types
    <3>4. buf[k].start \in Words
      BY <3>3 DEF Block
    <3>5. lookup' \in [0 .. LookupSize - 1 -> [addr : Words, slot : 0 .. Len(buf)]]
      <4> DEFINE s == buf[k].start
                 none == [addr |-> s, slot |-> NoBlock]
      <4>1. none \in [addr : Words, slot : 0 .. Len(buf)]
        BY <1>0, <3>4 DEF NoBlock
      <4> HIDE DEF none
      <4>2. lookup' = lookup \/ lookup' = [lookup EXCEPT ![Index(s)] = none]
        BY <2>3 DEF Types, Forget, none
      <4>3. QED
        BY <4>1, <4>2 DEF Types
    <3>6. QED
      BY <2>1, <3>1, <3>5 DEF Types, cpuVars, history
  <2>4. QED
    BY <1>6, <2>2, <2>3, ClearOneErases
<1>7. CASE EndClear
  BY <1>7, ServedType DEF EndClear, Types, Phases
<1>8. CASE GetFromLookup
  <2>1. Index(Phys(pc)) \in 0 .. LookupSize - 1
    BY IndexInRange DEF Types, VA, Phys, Words
  <2>2. QED
    BY <1>8, <2>1 DEF GetFromLookup, Start, cacheVars, history, Types, Phases
<1>9. CASE GetFromMap
  <2>1. PICK k \in Live :
          /\ lookup' = [lookup EXCEPT ![Index(Phys(pc))] =
                          [addr |-> Phys(pc), slot |-> k]]
          /\ Start(k)
    BY <1>9 DEF GetFromMap
  <2>2. k \in 0 .. Len(buf) /\ Phys(pc) \in Words
    BY <1>0 DEF Live, Types, VA, Phys
  <2>3. lookup' \in [0 .. LookupSize - 1 -> [addr : Words, slot : 0 .. Len(buf)]]
    BY <2>1, <2>2 DEF Types
  <2>4. QED
    BY <1>9, <2>1, <2>2, <2>3 DEF GetFromMap, Start, history, Types, Phases
<1>10. CASE GetMiss
  BY <1>10 DEF GetMiss, cacheVars, history, Types, Phases
<1>11. CASE OnNewBlock
  <2>1. PICK b \in Block : InsertBlock(b)
    BY <1>11, OnNewBlockInserts
  <2>2. \A m \in Nat : lookup' \in [0 .. LookupSize - 1 -> [addr : Words, slot : 0 .. m]]
    BY <2>1 DEF InsertBlock, NullLookups, Types, NoBlock
  <2>3. buf' \in Seq(Block) /\ size' \in 0 .. Len(buf') /\ Len(buf') \in Nat
    <3>1. CASE UNCHANGED <<buf, size>>
      BY <1>0, <3>1 DEF Types
    <3>2. CASE buf' = Append(SubSeq(buf, 1, size), b) /\ size' = size + 1
      BY <1>0, <3>2, AfterInsert DEF Types
    <3>3. QED
      BY <2>1, <3>1, <3>2 DEF InsertBlock
  <2>4. cur' = 0
    BY <1>11 DEF OnNewBlock, Released, NoBlock
  <2>5. QED
    BY <1>11, <2>2, <2>3, <2>4 DEF OnNewBlock, history, Types, Phases
<1>12. CASE Compute
  BY <1>12, ExecPlainType DEF Compute, cacheVars, history, Types
<1>13. CASE StoreCode
  <2>1. PICK p \in Patches :
          /\ mem' = [mem EXCEPT ![p[1]] = p[2]]
          /\ seen' = [seen EXCEPT ![p[1]] = @ \cup {p[2]}]
    BY <1>13 DEF StoreCode
  <2>2. p[1] \in Words /\ p[2] \in Ops
    BY ProgramAssumption
  <2>3. mem' \in [Words -> Ops] /\ seen' \in [Words -> SUBSET Ops]
    BY <2>1, <2>2 DEF Types
  <2>4. QED
    BY <1>13, <2>3, ExecPlainType DEF StoreCode, cacheVars, Types
<1>14. CASE InstCache
  <2>1. PICK l \in Lines : /\ InvalidateBlockRange(l, l + LineWords)
                           /\ posted' = posted \cup LineOf(l)
    BY <1>14 DEF InstCache
  <2>2. \A k \in Live : buf[k].start \in Words
    <3>1. \A k \in Live : buf[k] \in Block
      BY <1>0, ElementOfSeq DEF Live, Types
    <3>2. QED
      BY <3>1 DEF Block
  <2>3. pending' \subseteq Words /\ hasWork' \in BOOLEAN
    BY <2>1, <2>2 DEF InvalidateBlockRange, Overlapping, Types
  <2>4. posted' \subseteq Words
    BY <2>1 DEF LineOf, Types
  <2>5. QED
    BY <1>14, <2>3, <2>4, ExecPlainType DEF InstCache, Types
<1>15. CASE ExecBranch
  <2>1. pc' \in VA /\ dst' \in VA \cup {NoDst}
    BY <1>15, ProgramAssumption DEF ExecBranch, Sequential, Types
  <2>2. QED
    BY <1>15, <2>1, NextEntryType DEF ExecBranch, cacheVars, history, Types
<1>16. CASE ExecTrap
  <2>1. pc' \in VA /\ dst' = NoDst
    BY <1>16, ProgramAssumption DEF ExecTrap, Sequential, Types
  <2>2. QED
    BY <1>16, <2>1, NextEntryType DEF ExecTrap, cacheVars, history, Types
<1>17. CASE QueueCacheClear
  BY <1>17 DEF QueueCacheClear, cpuVars, Types
<1>18. CASE Reset
  <2>1. cur' = 0
    BY <1>18 DEF Reset, Released, NoBlock
  <2>2. seen' \in [Words -> SUBSET Ops] /\ posted' \subseteq Words
    BY <1>18 DEF Reset, Types
  <2>3. pc' \in VA /\ dst' \in VA \cup {NoDst}
    BY <1>18, ProgramAssumption DEF Reset
  <2>4. buf' \in Seq(Block) /\ size' \in 0 .. Len(buf') /\ cur' \in 0 .. Len(buf')
    BY <1>0, <1>18, <2>1 DEF Reset
  <2>5. lookup' \in [0 .. LookupSize - 1 -> [addr : Words, slot : 0 .. Len(buf')]]
    BY <1>0, <1>18 DEF Reset
  <2>6. QED
    BY <1>18, <2>2, <2>3, <2>4, <2>5 DEF Reset, Types
<1>19. QED
  BY <1>1, <1>2, <1>3, <1>4, <1>5, <1>6, <1>7, <1>8, <1>9, <1>10, <1>11,
     <1>12, <1>13, <1>14, <1>15, <1>16, <1>17, <1>18 DEF Next, RunCached

-----------------------------------------------------------------------------
(* The invariant and its consequences. *)

\* The invariant holds at the start.
LEMMA InitIInv == Init => IInv
<1> SUFFICES ASSUME Init
             PROVE  IInv
  OBVIOUS
<1>1. buf \in Seq(Block) /\ Len(buf) = 0
  BY EmptySeq DEF Init
<1>2. 0 \in Words
  BY SizeAssumption DEF Words
<1>3. lookup \in [0 .. LookupSize - 1 -> [addr : Words, slot : 0 .. 0]]
  BY <1>2 DEF Init, EmptyLookup, NoBlock
<1>4. seen \in [Words -> SUBSET Ops] /\ pc \in VA
  BY ProgramAssumption DEF Init
<1>5. mem \in [Words -> Ops] /\ dst \in VA \cup {NoDst}
      /\ size \in 0 .. Len(buf) /\ cur \in 0 .. Len(buf) /\ i \in Nat \ {0}
  BY <1>1, ProgramAssumption DEF Init, NoBlock
<1>6. LookupSound
  <2>1. \A x \in DOMAIN lookup : lookup[x].slot = NoBlock
    BY DEF Init, EmptyLookup
  <2>2. QED
    BY <2>1 DEF LookupSound
<1>7. LastTrap /\ AllFit /\ KeysUnique
  BY <1>1, LastWordAssumption DEF Init, LastTrap, AllFit, KeysUnique, Live
<1>8. ClearPhase /\ WorkFlag /\ Released /\ Held /\ Built
  BY DEF Init, ClearPhase, WorkFlag, Released, Held, Built
<1>9. Types
  BY <1>1, <1>3, <1>4, <1>5 DEF Init, Types, Phases
<1>10. QED
  BY <1>6, <1>7, <1>8, <1>9 DEF IInv

\* Every step keeps the invariant.
LEMMA NextIInv == IInv /\ [Next]_vars => IInv'
<1> SUFFICES ASSUME IInv, [Next]_vars
             PROVE  IInv'
  OBVIOUS
<1>1. Types' /\ Released'
  BY TypeStep, ReleasedStep DEF IInv
<1>2. LastTrap' /\ AllFit' /\ KeysUnique' /\ LookupSound'
  BY LastTrapStep, AllFitStep, KeysStep, LookupStep DEF IInv
<1>3. ClearPhase' /\ WorkFlag'
  BY ClearPhaseStep, WorkFlagStep DEF IInv
<1>4. Held' /\ Built'
  BY HeldStep, BuiltStep DEF IInv
<1>5. QED
  BY <1>1, <1>2, <1>3, <1>4 DEF IInv

\* The invariant of the block cache holds in every reachable state.
THEOREM InvariantHolds == Spec => []IInv
BY InitIInv, NextIInv, PTL DEF Spec

\* Every variable keeps its type; in particular no index of the vector, of a
\* lookup slot or of the running block leaves its range, and OnNewBlock never
\* writes beyond entries_: a body and its delay slot fit.
THEOREM TypeCorrect == Spec => []TypeOK
<1>1. IInv => TypeOK
  BY LenProperties DEF IInv, AllFit, BlockFits, Live, Types, TypeOK
<1>2. QED
  BY <1>1, InvariantHolds, PTL

\* GetBlock's fast path never returns another block than the map would, even
\* through a pointer that erasures have left behind the live slots.
THEOREM LookupCorrect == Spec => []LookupSound
<1>1. IInv => LookupSound
  BY DEF IInv
<1>2. QED
  BY <1>1, InvariantHolds, PTL

\* RunCached misses no request: the flag it asks tells exactly whether one is
\* outstanding.
THEOREM FlagCorrect == Spec => []WorkFlag
<1>1. IInv => WorkFlag
  BY DEF IInv
<1>2. QED
  BY <1>1, InvariantHolds, PTL

\* The entry RunCached runs is always the one for the word pc_ stands on.
THEOREM HeldCorrect == Spec => []HeldAtPc
<1>1. IInv => HeldAtPc
  <2> SUFFICES ASSUME IInv, phase = "exec"
               PROVE  i <= Len(buf[cur].ops) /\ Phys(pc) = buf[cur].start + i - 1
    BY DEF HeldAtPc
  <2>1. cur \in 1 .. Len(buf) /\ i \in 1 .. Len(buf[cur].ops)
        /\ Phys(pc) = buf[cur].start + i - 1
    BY DEF IInv, Held
  <2>2. buf[cur] \in Block
    BY <2>1, ElementOfSeq DEF IInv, Types
  <2>3. Len(buf[cur].ops) \in Nat
    BY <2>2, LenProperties DEF Block
  <2>4. QED
    BY <2>1, <2>3
<1>2. QED
  BY <1>1, InvariantHolds, PTL

\* The panic "Block creation failed" is unreachable.
THEOREM NoPanicCorrect == Spec => []NoPanic
<1>1. Init => NoPanic
  BY DEF Init, NoPanic
<1>2. ASSUME IInv, NoPanic, [Next]_vars
      PROVE  NoPanic'
  <2>1. ~ (GetMiss /\ phase = "retry")
    BY <1>2 DEF IInv, Built, GetMiss
  <2>2. QED
    BY <1>2, <2>1
    DEF NoPanic, Next, RunCached, vars, cpuVars, Poll, NoWork, ClearAll,
        BeginClear, ClearOne, EndClear, GetFromLookup, GetFromMap, GetMiss,
        OnNewBlock, ExecPlain, Compute, StoreCode, InstCache, ExecBranch,
        ExecTrap, NextEntry, Start, QueueCacheClear, Reset
<1>3. QED
  BY <1>1, <1>2, InvariantHolds, PTL DEF Spec

\* Invalidations requested by the instructions of a block leave that block in
\* place until it is left.
THEOREM HeldBlockCorrect == Spec => HeldBlockStable
<1>1. ASSUME IInv, [Next]_vars, phase = "exec", phase' = "exec"
      PROVE  cur' = cur /\ buf'[cur] = buf[cur]
  <2>1. UNCHANGED <<buf, cur>>
    BY <1>1
    DEF Next, RunCached, vars, cacheVars, cpuVars, Poll, NoWork, ClearAll,
        BeginClear, ClearOne, EndClear, GetFromLookup, GetFromMap, GetMiss,
        OnNewBlock, ExecPlain, Compute, StoreCode, InstCache, ExecBranch,
        ExecTrap, NextEntry, QueueCacheClear, Reset
  <2>2. QED
    BY <2>1
<1>2. QED
  BY <1>1, InvariantHolds, PTL DEF Spec, HeldBlockStable

-----------------------------------------------------------------------------
(* Coherence.  A request queues the starts of the blocks it hits, and a round *)
(* of the clearing loop erases only the first block that contains the address *)
(* it is at.  If that is another block than the one that starts there, the    *)
(* latter stays.  It cannot be another, if no block starts inside a block and *)
(* reaches beyond it: whatever overlaps the start of a block that was hit was *)
(* hit too, starts earlier, and is gone by then.                              *)

\* No live block starts inside another and reaches beyond its end.  Blocks through
\* the same code end at the same branch; this fails where one was cut at its full
\* length, and where one starts in the delay slot of another.
Nested ==
  \A j, k \in Live : Contains(buf[j], buf[k].start) => End(buf[k]) <= End(buf[j])

\* A word's own opcode may always be fetched.
MemorySeen == \A w \in Words : mem[w] \in seen[w]

\* While a block is looked for, no request is outstanding.
Idle == phase \in {"get", "build", "retry"} => posted = {} /\ pending = {} /\ ~fullClear

\* A block that holds a requested word is queued, or still to be visited.
Queue == IF phase = "clear" THEN todo ELSE pending
PostedQueued ==
  fullClear \/ \A k \in Live : BlockWords(buf[k]) \cap posted # {} => buf[k].start \in Queue

\* With a block, every block that overlaps its start is queued.
PendingClosed ==
  \A j, k \in Live :
    buf[k].start \in pending /\ Contains(buf[j], buf[k].start) => buf[j].start \in pending

\* A queued block that the loop has passed is gone.
StillToDo ==
  phase = "clear" =>
    todo \subseteq pending /\ \A k \in Live : buf[k].start \in pending => buf[k].start \in todo

\* The block that is run, wherever the pointer leads, is a live one.
HeldLive == phase = "exec" => \E k \in Live : buf[k] = buf[cur]

CInv ==
  /\ MemorySeen /\ Coherent
  /\ Idle /\ PostedQueued /\ PendingClosed /\ StillToDo
  /\ HeldLive

\* What becomes of memory and its history in a step.
LEMMA HistorySteps ==
  ASSUME [Next]_vars
  PROVE  \/ UNCHANGED <<mem, seen, posted>>
         \/ mem' = mem /\ Served /\ (NoWork \/ ClearAll \/ EndClear)
         \/ StoreCode \/ InstCache \/ QueueCacheClear \/ Reset
BY DEF Next, RunCached, vars, cacheVars, cpuVars, history, Poll, NoWork, ClearAll,
       BeginClear, ClearOne, EndClear, GetFromLookup, GetFromMap, GetMiss, OnNewBlock,
       Compute, ExecBranch, ExecTrap

\* The blocks that are live.
LEMMA LiveBlocks ==
  ASSUME Types
  PROVE  /\ size \in Nat /\ size <= Len(buf) /\ Len(buf) \in Nat
         /\ \A k \in Live : /\ k \in 1 .. Len(buf) /\ buf[k] \in Block
                            /\ buf[k].start \in Words /\ buf[k].start \in Nat
                            /\ End(buf[k]) \in Nat
<1>1. size \in Nat /\ size <= Len(buf) /\ Len(buf) \in Nat
  BY LenProperties DEF Types
<1>2. ASSUME NEW k \in Live
      PROVE  /\ k \in 1 .. Len(buf) /\ buf[k] \in Block
             /\ buf[k].start \in Words /\ buf[k].start \in Nat /\ End(buf[k]) \in Nat
  <2>1. k \in 1 .. Len(buf)
    BY <1>1 DEF Live
  <2>2. buf[k] \in Block
    BY <2>1, ElementOfSeq DEF Types
  <2>3. buf[k].start \in Words /\ buf[k].start \in Nat
    BY <2>2 DEF Block, Words
  <2>4. Len(buf[k].ops) \in Nat
    BY <2>2, LenProperties DEF Block
  <2>5. QED
    BY <2>1, <2>2, <2>3, <2>4 DEF End
<1>3. QED
  BY <1>1, <1>2

\* A word enters memory and its history together.
LEMMA MemorySeenStep ==
  ASSUME Types, MemorySeen, [Next]_vars
  PROVE  MemorySeen'
<1>1. CASE UNCHANGED <<mem, seen>>
  BY <1>1 DEF MemorySeen
<1>2. CASE mem' = mem /\ Served
  BY <1>2 DEF MemorySeen, Served
<1>3. CASE StoreCode
  <2>1. PICK p \in Patches : /\ mem' = [mem EXCEPT ![p[1]] = p[2]]
                             /\ seen' = [seen EXCEPT ![p[1]] = @ \cup {p[2]}]
    BY <1>3 DEF StoreCode
  <2>2. p[1] \in Words
    BY ProgramAssumption
  <2>3. ASSUME NEW w \in Words PROVE mem'[w] \in seen'[w]
    <3>1. CASE w = p[1]
      BY <2>1, <2>2, <3>1 DEF Types
    <3>2. CASE w # p[1]
      BY <2>1, <2>2, <3>2 DEF Types, MemorySeen
    <3>3. QED
      BY <3>1, <3>2
  <2>4. QED
    BY <2>3 DEF MemorySeen
<1>4. CASE Reset
  BY <1>4 DEF Reset, MemorySeen
<1>5. QED
  BY <1>1, <1>2, <1>3, <1>4, HistorySteps DEF InstCache, QueueCacheClear

\* When requests are served one by one, no live block holds a requested word.
LEMMA NoneLeft ==
  ASSUME WorkFlag, ClearPhase, StillToDo, PostedQueued, NoWork \/ EndClear
  PROVE  \A k \in Live : BlockWords(buf[k]) \cap posted = {}
<1>1. CASE NoWork
  <2>1. ~fullClear /\ pending = {} /\ phase = "head"
    BY <1>1 DEF NoWork, WorkFlag
  <2>2. QED
    BY <2>1 DEF PostedQueued, Queue
<1>2. CASE EndClear
  <2>1. ~fullClear /\ todo = {} /\ phase = "clear"
    BY <1>2 DEF EndClear, ClearPhase
  <2>2. QED
    BY <2>1 DEF PostedQueued, Queue
<1>3. QED
  BY <1>1, <1>2

\* What the new block holds is what memory holds.
LEMMA OnNewBlockReads ==
  ASSUME Types, LastTrap, OnNewBlock
  PROVE  \E b \in Block : /\ InsertBlock(b) /\ b.start = Phys(pc)
                          /\ \A w \in BlockWords(b) : b.ops[w - b.start + 1] = mem[w]
<1>1. PICK n \in 1 .. MaxLen :
        /\ IsBody(Phys(pc), n)
        /\ InsertBlock([start |-> Phys(pc), seg |-> pc.seg,
                        ops |-> BodyAndSlot(Phys(pc), n)])
  BY DEF OnNewBlock
<1>. DEFINE a == Phys(pc)
            o == BodyAndSlot(a, n)
            b == [start |-> a, seg |-> pc.seg, ops |-> o]
            len == IF HasDelaySlot(mem[a + n - 1]) THEN n + 1 ELSE n
<1>2. a \in Words /\ pc.seg \in Segs /\ a \in Nat
  BY DEF Types, VA, Phys, Words
<1>3. b \in Block /\ Len(o) \in 1 .. MaxLen
  BY <1>1, <1>2, NewBlockType
<1>4. o = [k \in 1 .. len |-> mem[a + k - 1]]
  BY DEF BodyAndSlot
<1>. HIDE DEF a, len
<1>5. Len(o) \in Nat /\ DOMAIN o = 1 .. Len(o) /\ DOMAIN o = 1 .. len
  <2>1. o \in Seq(Ops)
    BY <1>3 DEF Block
  <2>2. DOMAIN o = 1 .. len
    BY <1>4
  <2>. HIDE DEF o
  <2>3. QED
    BY <2>1, <2>2, LenProperties
<1>6. ASSUME NEW w \in BlockWords(b) PROVE b.ops[w - b.start + 1] = mem[w]
  <2>1. w \in Nat /\ a <= w /\ w < a + Len(o)
    BY DEF BlockWords, End, Words
  <2>. DEFINE k == w - a + 1
  <2>2. k \in 1 .. Len(o) /\ a + k - 1 = w
    BY <1>2, <1>5, <2>1
  <2>. HIDE DEF k
  <2>3. k \in 1 .. len
    BY <1>5, <2>2
  <2>4. o[k] = mem[w]
    BY <1>4, <2>2, <2>3
  <2>5. QED
    BY <2>4 DEF k
<1>7. QED
  BY <1>1, <1>3, <1>6 DEF a

\* Blocks are built from memory; a word loses its old contents from the history only
\* when the blocks through it are gone.
LEMMA CoherentStep ==
  ASSUME Types, LastTrap, WorkFlag, ClearPhase, MemorySeen, Coherent, PostedQueued, StillToDo,
         [Next]_vars
  PROVE  Coherent'
<1>1. CASE ClearAll \/ Reset
  BY <1>1 DEF ClearAll, Reset, Coherent, Live
<1>2. CASE UNCHANGED <<buf, size>> /\ \A w \in Words : seen[w] \subseteq seen'[w]
  BY <1>2 DEF Coherent, Live, BlockWords, End
<1>3. CASE UNCHANGED <<buf, size>> /\ Served /\ (NoWork \/ EndClear)
  <2>1. \A k \in Live : \A w \in BlockWords(buf[k]) : w \in Words /\ w \notin posted
    BY <1>3, NoneLeft DEF BlockWords
  <2>2. \A w \in Words : w \notin posted => seen'[w] = seen[w]
    BY <1>3 DEF Served
  <2>3. QED
    BY <1>3, <2>1, <2>2 DEF Coherent, Live, BlockWords, End
<1>4. CASE ClearOne
  <2>1. seen' = seen
    BY <1>4 DEF ClearOne, history
  <2>2. ASSUME NEW k \in Live, Erase(k)
        PROVE  Coherent'
    <3>1. /\ size' = size - 1 /\ buf'[k] = buf[size]
          /\ \A j \in 1 .. Len(buf) : j # k => buf'[j] = buf[j]
      BY <2>2, AfterErase
    <3>2. ASSUME NEW j \in 1 .. size - 1
          PROVE  \E l \in Live : buf'[j] = buf[l]
      <4>1. j \in 1 .. Len(buf) /\ j \in Live /\ size \in Live
        BY LiveBlocks DEF Live
      <4>2. QED
        BY <3>1, <4>1
    <3>3. QED
      BY <2>1, <3>1, <3>2 DEF Coherent, Live, BlockWords, End
  <2>3. QED
    BY <1>2, <1>4, <2>1, <2>2, ClearOneErases
<1>5. CASE OnNewBlock
  <2>1. PICK b \in Block : /\ InsertBlock(b)
                           /\ \A w \in BlockWords(b) : b.ops[w - b.start + 1] = mem[w]
    BY <1>5, OnNewBlockReads
  <2>2. seen' = seen
    BY <1>5 DEF OnNewBlock, history
  <2>3. CASE UNCHANGED <<buf, size>>
    BY <1>2, <2>2, <2>3
  <2>4. CASE buf' = Append(SubSeq(buf, 1, size), b) /\ size' = size + 1
    <3>1. buf'[size + 1] = b /\ \A j \in 1 .. size : buf'[j] = buf[j]
      BY <2>4, AfterInsert
    <3>2. \A w \in BlockWords(b) : b.ops[w - b.start + 1] \in seen[w]
      BY <2>1 DEF MemorySeen, BlockWords
    <3>3. \A j \in 1 .. size + 1 : j \in 1 .. size \/ j = size + 1
      BY LiveBlocks
    <3>4. QED
      BY <2>2, <2>4, <3>1, <3>2, <3>3 DEF Coherent, Live, BlockWords, End
  <2>5. QED
    BY <2>1, <2>3, <2>4 DEF InsertBlock
<1>6. CASE StoreCode
  <2>1. PICK p \in Patches : seen' = [seen EXCEPT ![p[1]] = @ \cup {p[2]}]
    BY <1>6 DEF StoreCode
  <2>2. \A w \in Words : seen[w] \subseteq seen'[w]
    BY <2>1 DEF Types
  <2>3. QED
    BY <1>2, <1>6, <2>2 DEF StoreCode, cacheVars
<1>7. CASE UNCHANGED <<buf, size>> /\ UNCHANGED seen
  BY <1>2, <1>7
<1>8. \/ UNCHANGED <<buf, size>> \/ ClearAll \/ Reset \/ ClearOne \/ OnNewBlock
  BY MapSteps DEF GetFromMap
<1>9. \/ UNCHANGED seen \/ StoreCode \/ Reset
      \/ Served /\ (NoWork \/ ClearAll \/ EndClear)
  BY HistorySteps DEF InstCache, QueueCacheClear
<1>10. QED
  BY <1>1, <1>3, <1>4, <1>5, <1>6, <1>7, <1>8, <1>9

\* The phases follow each other.
LEMMA IdleStep ==
  ASSUME WorkFlag, ClearPhase, Idle, [Next]_vars
  PROVE  Idle'
<1>1. CASE UNCHANGED <<phase, posted, pending, fullClear>>
  BY <1>1 DEF Idle
<1>2. CASE phase' \notin {"get", "build", "retry"}
  BY <1>2 DEF Idle
<1>3. CASE NoWork
  BY <1>3 DEF NoWork, WorkFlag, Served, Idle, cacheVars
<1>4. CASE ClearAll
  BY <1>4 DEF ClearAll, Served, Idle
<1>5. CASE BeginClear
  BY <1>2, <1>5 DEF BeginClear, WorkFlag
<1>6. CASE EndClear
  BY <1>6 DEF EndClear, Served, Idle, ClearPhase
<1>7. CASE GetMiss \/ OnNewBlock
  BY <1>7 DEF GetMiss, OnNewBlock, cacheVars, history, Idle
<1>8. QED
  BY <1>1, <1>2, <1>3, <1>4, <1>5, <1>6, <1>7
  DEF Next, RunCached, vars, cacheVars, cpuVars, history, Poll, ClearOne, GetFromLookup,
      GetFromMap, Compute, StoreCode, InstCache, ExecPlain, ExecBranch, ExecTrap, NextEntry,
      Start, QueueCacheClear, Reset

\* The steps that touch what is queued, or the live blocks, or the loop.
LEMMA QueueSteps ==
  ASSUME [Next]_vars
  PROVE  \/ /\ UNCHANGED <<buf, size, pending, todo, fullClear, posted>>
            /\ phase' = phase \/ (phase # "clear" /\ phase' # "clear")
         \/ NoWork \/ ClearAll \/ BeginClear \/ ClearOne \/ EndClear \/ OnNewBlock
         \/ InstCache \/ QueueCacheClear \/ Reset
BY DEF Next, RunCached, vars, cacheVars, cpuVars, history, Poll, GetFromLookup, GetFromMap,
       GetMiss, Compute, StoreCode, ExecPlain, ExecBranch, ExecTrap, NextEntry, Start

\* One round erases the queued block that starts at the address, if there is one.
LEMMA RoundErases ==
  ASSUME Types, AllFit, KeysUnique, PendingClosed, StillToDo, ClearOne
  PROVE  \E a \in todo :
           /\ todo' = todo \ {a}
           /\ size' \in 0 .. size
           /\ \A j \in 1 .. size' : \E l \in Live : buf'[j] = buf[l] /\ buf[l].start # a
<1>1. PICK a \in todo :
        /\ \A c \in todo : a <= c
        /\ todo' = todo \ {a}
        /\ \/ \E k \in Live : /\ Contains(buf[k], a)
                              /\ \A j \in 1 .. k - 1 : ~Contains(buf[j], a)
                              /\ Forget(buf[k].start)
                              /\ Erase(k)
           \/ /\ \A k \in Live : ~Contains(buf[k], a)
              /\ UNCHANGED <<buf, size, lookup>>
  BY DEF ClearOne
<1>2. phase = "clear" /\ todo \subseteq pending /\ a \in Nat
  BY DEF ClearOne, StillToDo, Types, Words
<1>. size \in Nat /\ size <= Len(buf) /\ Len(buf) \in Nat
  BY LiveBlocks
<1>3. ASSUME NEW l \in Live, buf[l].start = a
      PROVE  Contains(buf[l], a)
  <2>1. l \in 1 .. Len(buf) /\ Len(buf[l].ops) \in Nat /\ Len(buf[l].ops) >= 1
    BY LiveBlocks, LenProperties DEF AllFit, Block
  <2>2. QED
    BY <1>2, <1>3, <2>1 DEF Contains, End
<1>4. CASE UNCHANGED <<buf, size>> /\ \A k \in Live : ~Contains(buf[k], a)
  BY <1>1, <1>3, <1>4 DEF Live
<1>5. ASSUME NEW k \in Live, Contains(buf[k], a), Erase(k)
      PROVE  /\ size' \in 0 .. size
             /\ \A j \in 1 .. size' : \E l \in Live : buf'[j] = buf[l] /\ buf[l].start # a
  <2>1. /\ size' = size - 1 /\ buf'[k] = buf[size]
        /\ \A j \in 1 .. Len(buf) : j # k => buf'[j] = buf[j]
    BY <1>5, AfterErase
  \* If a block starts at the address, it is the one that is erased.
  <2>2. ASSUME NEW l \in Live, buf[l].start = a
        PROVE  l = k
    <3>1. Contains(buf[k], buf[l].start) /\ buf[l].start \in pending
      BY <1>2, <1>5, <2>2
    <3>2. buf[k].start \in todo
      BY <1>2, <3>1 DEF PendingClosed, StillToDo
    <3>3. a <= buf[k].start /\ buf[k].start <= a /\ buf[k].start \in Nat
      BY <1>1, <1>5, <3>2, LiveBlocks DEF Contains
    <3>4. buf[k].start = a
      BY <1>2, <3>3
    <3>5. QED
      BY <2>2, <3>4 DEF KeysUnique
  <2>3. ASSUME NEW j \in 1 .. size - 1
        PROVE  \E l \in Live : buf'[j] = buf[l] /\ l # k
    <3>1. j \in 1 .. Len(buf) /\ j \in Live /\ size \in Live /\ j # size
      BY <1>5 DEF Live
    <3>2. QED
      BY <2>1, <3>1
  <2>4. size' \in 0 .. size
    BY <1>5, <2>1 DEF Live
  <2>5. QED
    BY <2>1, <2>2, <2>3, <2>4
<1>6. QED
  BY <1>1, <1>4, <1>5

\* A request queues every block that holds a word of the line.
LEMMA RequestHits ==
  ASSUME Types, NEW l \in Lines, NEW k \in Live, BlockWords(buf[k]) \cap LineOf(l) # {}
  PROVE  k \in Overlapping(l, l + LineWords)
<1>1. PICK w \in Words : /\ buf[k].start <= w /\ w < End(buf[k])
                         /\ l <= w /\ w < l + LineWords
  BY DEF BlockWords, LineOf
<1>2. w \in Nat /\ l \in Nat /\ LineWords \in Nat
  BY SizeAssumption DEF Words, Lines
<1>3. buf[k].start < l + LineWords /\ End(buf[k]) > l
  BY <1>1, <1>2, LiveBlocks
<1>4. QED
  BY <1>3 DEF Overlapping

\* What was asked for stays queued until it is served.
LEMMA PostedQueuedStep ==
  ASSUME Types, AllFit, KeysUnique, ClearPhase, Idle, PostedQueued, PendingClosed, StillToDo,
         [Next]_vars
  PROVE  PostedQueued'
<1>1. CASE /\ UNCHANGED <<buf, size, pending, todo, fullClear, posted>>
           /\ phase' = phase \/ (phase # "clear" /\ phase' # "clear")
  BY <1>1 DEF PostedQueued, Queue, Live, BlockWords, End
<1>2. CASE posted' = {}
  BY <1>2 DEF PostedQueued
<1>3. CASE BeginClear
  <2>1. /\ phase = "head" /\ todo' = pending /\ UNCHANGED <<buf, size, pending, fullClear, posted>>
        /\ phase' \in {"get", "clear"}
    BY <1>3 DEF BeginClear, history
  <2>2. Queue = pending /\ Queue' = pending
    BY <2>1 DEF Queue
  <2>3. QED
    BY <2>1, <2>2 DEF PostedQueued, Live, BlockWords, End
<1>4. CASE ClearOne
  <2>1. PICK a \in todo :
          /\ todo' = todo \ {a}
          /\ \A j \in 1 .. size' : \E m \in Live : buf'[j] = buf[m] /\ buf[m].start # a
    BY <1>4, RoundErases
  <2>2. /\ phase = "clear" /\ phase' = "clear" /\ UNCHANGED posted /\ ~fullClear
    BY <1>4 DEF ClearOne, cpuVars, history, ClearPhase
  <2>3. Queue = todo /\ Queue' = todo'
    BY <2>2 DEF Queue
  <2>4. ASSUME NEW j \in 1 .. size', BlockWords(buf'[j]) \cap posted # {}
        PROVE  buf'[j].start \in todo'
    <3>1. PICK m \in Live : buf'[j] = buf[m] /\ buf[m].start # a
      BY <2>1, <2>4
    <3>2. buf[m].start \in todo
      BY <2>2, <2>3, <2>4, <3>1 DEF PostedQueued
    <3>3. QED
      BY <2>1, <3>1, <3>2
  <2>5. QED
    BY <2>2, <2>3, <2>4 DEF PostedQueued, Live, BlockWords, End
<1>5. CASE OnNewBlock
  <2>1. posted' = {}
    BY <1>5 DEF OnNewBlock, history, Idle
  <2>2. QED
    BY <1>2, <2>1
<1>6. CASE InstCache
  <2>1. PICK l \in Lines : /\ InvalidateBlockRange(l, l + LineWords)
                           /\ posted' = posted \cup LineOf(l)
    BY <1>6 DEF InstCache
  <2>2. UNCHANGED <<buf, size, fullClear>> /\ phase = "exec" /\ phase' \in {"exec", "poll"}
    BY <1>6 DEF InstCache, ExecPlain, NextEntry
  <2>3. Queue = pending /\ Queue' = pending'
    BY <2>2 DEF Queue
  <2>4. pending' = pending \cup {buf[k].start : k \in Overlapping(l, l + LineWords)}
    BY <2>1 DEF InvalidateBlockRange
  <2>5. ASSUME NEW k \in Live, BlockWords(buf[k]) \cap posted' # {}, ~fullClear
        PROVE  buf[k].start \in pending'
    <3>1. CASE BlockWords(buf[k]) \cap posted # {}
      BY <2>3, <2>4, <2>5, <3>1 DEF PostedQueued
    <3>2. CASE BlockWords(buf[k]) \cap LineOf(l) # {}
      BY <2>4, <2>5, <3>2, RequestHits
    <3>3. QED
      BY <2>1, <2>5, <3>1, <3>2
  <2>6. QED
    BY <2>2, <2>3, <2>5 DEF PostedQueued, Live, BlockWords, End
<1>7. CASE QueueCacheClear
  BY <1>7 DEF QueueCacheClear, PostedQueued
<1>8. NoWork \/ ClearAll \/ EndClear \/ Reset => posted' = {}
  BY DEF NoWork, ClearAll, EndClear, Reset, Served
<1>9. QED
  BY <1>1, <1>2, <1>3, <1>4, <1>5, <1>6, <1>7, <1>8, QueueSteps

\* This is where the blocks have to be nested: what overlaps the start of a block that
\* is hit must be hit too.
LEMMA PendingClosedStep ==
  ASSUME Types, AllFit, KeysUnique, Idle, PendingClosed, StillToDo, Nested, [Next]_vars
  PROVE  PendingClosed'
<1>1. CASE UNCHANGED <<buf, size, pending>>
  BY <1>1 DEF PendingClosed, Live, Contains, End
<1>2. CASE pending' = {}
  BY <1>2 DEF PendingClosed
<1>3. CASE ClearOne
  <2>1. \A j \in 1 .. size' : \E m \in Live : buf'[j] = buf[m]
    BY <1>3, RoundErases
  <2>2. pending' = pending
    BY <1>3 DEF ClearOne
  <2>3. QED
    BY <2>1, <2>2 DEF PendingClosed, Live, Contains, End
<1>4. CASE OnNewBlock
  <2>1. pending' = {}
    BY <1>4 DEF OnNewBlock, Idle
  <2>2. QED
    BY <1>2, <2>1
<1>5. CASE InstCache
  <2>1. PICK l \in Lines : InvalidateBlockRange(l, l + LineWords)
    BY <1>5 DEF InstCache
  <2>2. UNCHANGED <<buf, size>>
    BY <1>5 DEF InstCache
  <2>. DEFINE hit == Overlapping(l, l + LineWords)
  <2>3. pending' = pending \cup {buf[k].start : k \in hit}
    BY <2>1 DEF InvalidateBlockRange
  <2>4. ASSUME NEW j \in Live, NEW k \in Live, buf[k].start \in pending',
               Contains(buf[j], buf[k].start)
        PROVE  buf[j].start \in pending'
    <3>1. CASE buf[k].start \in pending
      BY <2>3, <2>4, <3>1 DEF PendingClosed
    <3>2. CASE buf[k].start \notin pending
      <4>1. PICK m \in hit : buf[k].start = buf[m].start
        BY <2>3, <2>4, <3>2
      <4>2. m \in Live /\ m = k
        BY <4>1 DEF Overlapping, KeysUnique
      <4>3. buf[k].start < l + LineWords /\ End(buf[k]) > l
        BY <4>1, <4>2 DEF Overlapping
      <4>4. End(buf[k]) <= End(buf[j]) /\ buf[j].start <= buf[k].start
        BY <2>4 DEF Nested, Contains
      <4>5. l \in Nat /\ LineWords \in Nat
        BY SizeAssumption DEF Lines, Words
      <4>6. j \in hit
        <5>1. /\ buf[j].start \in Nat /\ buf[k].start \in Nat
              /\ End(buf[j]) \in Nat /\ End(buf[k]) \in Nat
          BY LiveBlocks
        <5>2. buf[j].start < l + LineWords /\ End(buf[j]) > l
          BY <4>3, <4>4, <4>5, <5>1
        <5>3. QED
          BY <5>2 DEF Overlapping
      <4>7. QED
        BY <2>3, <4>6
    <3>3. QED
      BY <3>1, <3>2
  <2>5. QED
    BY <2>2, <2>4 DEF PendingClosed, Live, Contains, End
<1>6. /\ NoWork \/ BeginClear \/ QueueCacheClear => UNCHANGED <<buf, size, pending>>
      /\ ClearAll \/ EndClear \/ Reset => pending' = {}
  BY DEF NoWork, BeginClear, QueueCacheClear, ClearAll, EndClear, Reset, cacheVars
<1>7. QED
  BY <1>1, <1>2, <1>3, <1>4, <1>5, <1>6, QueueSteps

\* Clearing line by line leaves blocks only through words still to do.
LEMMA StillToDoStep ==
  ASSUME Types, AllFit, KeysUnique, PendingClosed, StillToDo, [Next]_vars
  PROVE  StillToDo'
<1>1. CASE phase' # "clear"
  BY <1>1 DEF StillToDo
<1>2. CASE /\ UNCHANGED <<buf, size, pending, todo, fullClear, posted>>
           /\ phase' = phase \/ (phase # "clear" /\ phase' # "clear")
  BY <1>2 DEF StillToDo, Live
<1>3. CASE BeginClear
  BY <1>3 DEF BeginClear, StillToDo
<1>4. CASE ClearOne
  <2>1. PICK a \in todo :
          /\ todo' = todo \ {a}
          /\ \A j \in 1 .. size' : \E m \in Live : buf'[j] = buf[m] /\ buf[m].start # a
    BY <1>4, RoundErases
  <2>2. phase = "clear" /\ pending' = pending
    BY <1>4 DEF ClearOne
  <2>3. todo' \subseteq pending'
    BY <2>1, <2>2 DEF StillToDo
  <2>4. ASSUME NEW j \in 1 .. size', buf'[j].start \in pending'
        PROVE  buf'[j].start \in todo'
    <3>1. PICK m \in Live : buf'[j] = buf[m] /\ buf[m].start # a
      BY <2>1, <2>4
    <3>2. QED
      BY <2>1, <2>2, <2>4, <3>1 DEF StillToDo
  <2>5. QED
    BY <2>3, <2>4 DEF StillToDo, Live
<1>5. CASE QueueCacheClear
  BY <1>5 DEF QueueCacheClear, cpuVars, StillToDo
<1>6. NoWork \/ ClearAll \/ EndClear \/ OnNewBlock \/ InstCache \/ Reset => phase' # "clear"
  BY DEF NoWork, ClearAll, EndClear, OnNewBlock, InstCache, ExecPlain, NextEntry, Reset
<1>7. QED
  BY <1>1, <1>2, <1>3, <1>4, <1>5, <1>6, QueueSteps

\* The block that runs is a live one: an erasure waits until it is left.
LEMMA HeldLiveStep ==
  ASSUME Types, LookupSound, HeldLive, [Next]_vars
  PROVE  HeldLive'
<1>1. CASE UNCHANGED <<buf, size, phase, cur>>
  BY <1>1 DEF HeldLive, Live
<1>2. CASE phase' # "exec"
  BY <1>2 DEF HeldLive
<1>3. CASE GetFromLookup
  <2>. DEFINE x == Index(Phys(pc))
  <2>1. /\ lookup[x].slot # NoBlock /\ Start(lookup[x].slot) /\ buf' = buf /\ size' = size
    BY <1>3 DEF GetFromLookup, IsLookupHit, cacheVars
  <2>2. x \in DOMAIN lookup
    BY IndexInRange DEF Types, VA, Phys, Words
  <2>3. \E k \in Live : buf[k] = buf[lookup[x].slot]
    BY <2>1, <2>2 DEF LookupSound
  <2>4. QED
    BY <2>1, <2>3 DEF Start, HeldLive, Live
<1>4. CASE GetFromMap
  BY <1>4 DEF GetFromMap, Start, HeldLive, Live
<1>5. QED
  BY <1>1, <1>2, <1>3, <1>4
  DEF Next, RunCached, vars, cacheVars, cpuVars, history, Poll, NoWork, ClearAll, BeginClear,
      ClearOne, EndClear, GetMiss, OnNewBlock, ExecPlain, Compute, StoreCode, InstCache,
      ExecBranch, ExecTrap, NextEntry, QueueCacheClear, Reset

\* The invariant of coherence holds at the start.
LEMMA InitCInv == Init => CInv
<1>1. SUFFICES ASSUME Init PROVE CInv
  OBVIOUS
<1>2. size = 0 /\ phase = "poll" /\ pending = {} /\ seen = [w \in Words |-> {mem[w]}]
  BY <1>1 DEF Init
<1>3. Live = {}
  BY <1>2 DEF Live
<1>4. QED
  BY <1>2, <1>3 DEF CInv, MemorySeen, Coherent, Idle, PostedQueued, PendingClosed, StillToDo,
                    HeldLive

\* Every step between states with nested blocks keeps it.
LEMMA NextCInv == IInv /\ CInv /\ Nested /\ [Next]_vars => CInv'
<1>1. SUFFICES ASSUME IInv, CInv, Nested, [Next]_vars PROVE CInv'
  OBVIOUS
<1>2. MemorySeen' /\ Coherent'
  BY <1>1, MemorySeenStep, CoherentStep DEF IInv, CInv
<1>3. Idle' /\ PostedQueued'
  BY <1>1, IdleStep, PostedQueuedStep DEF IInv, CInv
<1>4. PendingClosed' /\ StillToDo'
  BY <1>1, PendingClosedStep, StillToDoStep DEF IInv, CInv
<1>5. HeldLive'
  BY <1>1, HeldLiveStep DEF IInv, CInv
<1>6. QED
  BY <1>2, <1>3, <1>4, <1>5 DEF CInv

\* What Coherent rests on, in every run in which the blocks are nested.
THEOREM CoherenceHolds == Spec /\ []Nested => []CInv
BY InitCInv, NextCInv, InvariantHolds, PTL DEF Spec

\* As long as no block starts inside another and reaches beyond it, every opcode of a
\* live block is one its word has held since the last invalidation that was served.
THEOREM CoherentIfNested == Spec /\ []Nested => []Coherent
<1>1. CInv => Coherent
  BY DEF CInv
<1>2. QED
  BY <1>1, CoherenceHolds, PTL

\* The step in which requests are served leaves no block that holds a requested word.
LEMMA ServedAreGone ==
  ASSUME IInv, CInv, [Next]_vars, posted # {}, posted' = {}
  PROVE  \A k \in 1 .. size' : BlockWords(buf'[k]) \cap posted = {}
<1>1. CASE NoWork \/ EndClear
  <2>1. UNCHANGED <<buf, size>>
    BY <1>1 DEF NoWork, EndClear, cacheVars
  <2>2. QED
    BY <1>1, <2>1, NoneLeft DEF IInv, CInv, Live
<1>2. CASE ClearAll \/ Reset
  BY <1>2 DEF ClearAll, Reset
<1>3. posted # posted'
  OBVIOUS
<1>4. ~InstCache /\ ~QueueCacheClear
  <2>1. InstCache => posted \subseteq posted'
    BY DEF InstCache
  <2>2. 0 \in Words
    BY SizeAssumption DEF Words
  <2>3. QED
    BY <2>1, <2>2 DEF QueueCacheClear
<1>5. ~StoreCode
  BY <1>3 DEF StoreCode
<1>6. QED
  BY <1>1, <1>2, <1>3, <1>4, <1>5, HistorySteps

\* In such a run no request is dropped: when the loop says it is done, the blocks
\* through every requested line are gone.
THEOREM RequestsServedIfNested == Spec /\ []Nested => RequestedAreGone
<1>1. ASSUME IInv, CInv, [Next]_vars
      PROVE  [posted # {} /\ posted' = {} =>
                \A k \in 1 .. size' : BlockWords(buf'[k]) \cap posted = {}]_vars
  BY <1>1, ServedAreGone
<1>2. QED
  BY <1>1, InvariantHolds, CoherenceHolds, PTL DEF Spec, RequestedAreGone

-----------------------------------------------------------------------------
(* The refinement of CodeMemory, its safety part. *)

\* The instruction about to run is one the abstract memory lets be fetched.
LEMMA FetchAllowed ==
  ASSUME IInv, CInv
  PROVE  (IF phase = "exec" THEN <<Phys(pc), Op>> ELSE <<>>) \in Code!Fetchable
<1>1. CASE phase # "exec"
  BY <1>1 DEF Code!Fetchable
<1>2. CASE phase = "exec"
  <2>1. /\ cur \in 1 .. Len(buf) /\ i \in 1 .. Len(buf[cur].ops)
        /\ Phys(pc) = buf[cur].start + i - 1
    BY <1>2 DEF IInv, Held
  <2>2. PICK k \in Live : buf[k] = buf[cur]
    BY <1>2 DEF CInv, HeldLive
  <2>3. Phys(pc) \in Words
    BY DEF IInv, Types, VA, Phys
  <2>4. /\ buf[k].start \in Nat /\ Len(buf[k].ops) \in Nat
    BY LiveBlocks, LenProperties DEF IInv, Block
  <2>5. Phys(pc) \in BlockWords(buf[k]) /\ Phys(pc) - buf[k].start + 1 = i
    BY <2>1, <2>2, <2>3, <2>4 DEF BlockWords, End
  <2>6. buf[k].ops[i] \in seen[Phys(pc)]
    BY <2>5 DEF CInv, Coherent
  <2>7. Op \in seen[Phys(pc)]
    BY <2>2, <2>6 DEF Op
  <2>8. <<Phys(pc), Op>> \in {Phys(pc)} \X seen[Phys(pc)]
    BY <2>7
  <2>9. QED
    BY <1>2, <2>3, <2>8 DEF Code!Fetchable
<1>3. QED
  BY <1>1, <1>2

\* Every step is a write, a request, a service or a fetch.
LEMMA StepIsAllowed ==
  ASSUME IInv, IInv', CInv', [Next]_vars
  PROVE  [Code!Next]_(Code!vars)
<1>1. ((IF phase = "exec" THEN <<Phys(pc), Op>> ELSE <<>>) \in Code!Fetchable)'
  BY FetchAllowed, PTL
<1>2. SUFFICES \/ \E w \in Words, o \in Ops : Code!Write(w, o)
               \/ \E ws \in SUBSET Words : Code!Request(ws)
               \/ Code!Serve
               \/ Code!Fetch
  BY <1>1 DEF Code!Next
<1>3. CASE UNCHANGED <<mem, seen, posted>>
  BY <1>3 DEF Code!Fetch
<1>4. CASE mem' = mem /\ Served
  <2>1. posted \in SUBSET Words
    BY DEF IInv, Types
  <2>2. QED
    BY <1>4, <2>1 DEF Served, Code!Serve
<1>5. CASE StoreCode
  <2>1. PICK p \in Patches : /\ mem' = [mem EXCEPT ![p[1]] = p[2]]
                             /\ seen' = [seen EXCEPT ![p[1]] = @ \cup {p[2]}]
    BY <1>5 DEF StoreCode
  <2>2. p[1] \in Words /\ p[2] \in Ops
    BY ProgramAssumption
  <2>3. posted' = posted
    BY <1>5 DEF StoreCode
  <2>4. QED
    BY <2>1, <2>2, <2>3 DEF Code!Write
<1>6. CASE InstCache
  <2>1. PICK l \in Lines : posted' = posted \cup LineOf(l)
    BY <1>6 DEF InstCache
  <2>2. LineOf(l) \in SUBSET Words /\ UNCHANGED <<mem, seen>>
    BY <1>6 DEF InstCache, LineOf
  <2>3. QED
    BY <2>1, <2>2 DEF Code!Request
<1>7. CASE QueueCacheClear
  <2>1. posted' = posted \cup Words /\ UNCHANGED <<mem, seen>>
    BY <1>7 DEF QueueCacheClear, IInv, Types
  <2>2. QED
    BY <2>1 DEF Code!Request
<1>8. CASE Reset
  <2>1. mem' = mem /\ seen' = [w \in Words |-> {mem[w]}] /\ posted' = {} /\ posted \subseteq Words
    BY <1>8 DEF Reset, IInv, Types
  <2>2. seen' = [w \in Words |-> IF w \in Words THEN {mem[w]} ELSE seen[w]]
    BY <2>1
  <2>3. QED
    BY <2>1, <2>2 DEF Code!Serve
<1>9. QED
  BY <1>3, <1>4, <1>5, <1>6, <1>7, <1>8, HistorySteps

\* In a run with nested blocks, block cache and loop are an instruction cache: every
\* fetch is one that CodeMemory allows.  (That requests are served in the end, the
\* fairness of Code!Spec, is checked by TLC.)
THEOREM IsInstructionCacheIfNested ==
  Spec /\ []Nested => Code!Init /\ [][Code!Next]_(Code!vars)
<1>1. Init => Code!Init
  BY ProgramAssumption DEF Init, Code!Init, Code!Fresh
<1>2. IInv /\ IInv' /\ CInv' /\ [Next]_vars => [Code!Next]_(Code!vars)
  BY StepIsAllowed
<1>3. QED
  BY <1>1, <1>2, InvariantHolds, CoherenceHolds, PTL DEF Spec

-----------------------------------------------------------------------------
(* Code whose blocks are nested: a set S of places where blocks begin.        *)

\* What memory holds is of the kind the program has there, but in a free delay slot;
\* and there it is no branch.
Steady(S) ==
  \A w \in Words :
    Kind[mem[w]] = Kind[Prog[w]] \/ (FreeSlot(S, w) /\ Kind[mem[w]] # "branch")

\* A block begins in S, ends where the program's code does, and has no branch but
\* before its delay slot.
Whole(S, b) ==
  /\ [seg |-> b.seg, word |-> b.start] \in S
  /\ \E e \in Words : LastOfBody(b.start, e) /\ End(b) = After(e)
  /\ \A w \in BlockWords(b) : Kind[b.ops[w - b.start + 1]] = "branch" => w + 2 = End(b)
AllWhole(S) == \A k \in Live : Whole(S, buf[k])

\* Blocks are left, and looked for, in S; one that is not left goes on in its window.
InPlace(S) ==
  /\ phase # "exec" => pc \in S
  /\ phase = "exec" => IF i = 1 THEN pc \in S ELSE pc = EntryAddress(buf[cur], i)
  /\ dst # NoDst => dst \in Entry

SInv(S) == Steady(S) /\ AllWhole(S) /\ InPlace(S)

\* Blocks that begin and end so are nested.
LEMMA WholeNested ==
  ASSUME NEW S, WellPlaced(S), Types, AllWhole(S)
  PROVE  Nested
<1>1. SUFFICES ASSUME NEW j \in Live, NEW k \in Live, Contains(buf[j], buf[k].start)
               PROVE  End(buf[k]) <= End(buf[j])
  BY DEF Nested
<1>. DEFINE va == [seg |-> buf[j].seg, word |-> buf[j].start]
            vb == [seg |-> buf[k].seg, word |-> buf[k].start]
<1>2. va \in S /\ vb \in S /\ va.word = buf[j].start /\ vb.word = buf[k].start
  BY DEF AllWhole, Whole
<1>3. PICK e \in Words : LastOfBody(va.word, e) /\ End(buf[j]) = After(e)
  BY DEF AllWhole, Whole
<1>4. PICK f \in Words : LastOfBody(vb.word, f) /\ End(buf[k]) = After(f)
  BY DEF AllWhole, Whole
<1>5. va.word <= vb.word /\ vb.word < After(e)
  BY <1>1, <1>2, <1>3 DEF Contains
<1>. HIDE DEF va, vb
<1>6. After(f) <= After(e)
  BY <1>2, <1>3, <1>4, <1>5 DEF WellPlaced
<1>7. QED
  BY <1>3, <1>4, <1>6

\* A patch keeps the kind of the word, or is no branch.
LEMMA SteadyStep ==
  ASSUME NEW S, WellPlaced(S), Types, Steady(S), [Next]_vars
  PROVE  Steady(S)'
<1>1. CASE mem' = mem
  BY <1>1 DEF Steady, FreeSlot, Slot
<1>2. CASE StoreCode
  <2>1. PICK p \in Patches : mem' = [mem EXCEPT ![p[1]] = p[2]]
    BY <1>2 DEF StoreCode
  <2>2. IF FreeSlot(S, p[1]) THEN Kind[p[2]] # "branch" ELSE Kind[p[2]] = Kind[Prog[p[1]]]
    BY DEF WellPlaced
  <2>3. ASSUME NEW w \in Words
        PROVE  Kind[mem'[w]] = Kind[Prog[w]] \/ (FreeSlot(S, w) /\ Kind[mem'[w]] # "branch")
    <3>1. CASE w = p[1]
      <4>1. mem'[w] = p[2]
        BY <2>1, <3>1 DEF Types
      <4>2. QED
        BY <2>2, <3>1, <4>1
    <3>2. CASE w # p[1]
      <4>1. mem'[w] = mem[w]
        BY <2>1, <3>2 DEF Types
      <4>2. QED
        BY <4>1 DEF Steady
    <3>3. QED
      BY <3>1, <3>2
  <2>4. QED
    BY <2>3 DEF Steady, FreeSlot, Slot
<1>3. QED
  BY <1>1, <1>2, HistorySteps DEF InstCache, QueueCacheClear, Reset

\* The block OnNewBlock makes is whole.
LEMMA NewIsWhole ==
  ASSUME NEW S, WellPlaced(S), Types, LastTrap, Steady(S), InPlace(S), OnNewBlock
  PROVE  \E b \in Block : InsertBlock(b) /\ Whole(S, b)
<1>1. PICK n \in 1 .. MaxLen :
        /\ IsBody(Phys(pc), n)
        /\ InsertBlock([start |-> Phys(pc), seg |-> pc.seg,
                        ops |-> BodyAndSlot(Phys(pc), n)])
  BY DEF OnNewBlock
<1>. DEFINE a == Phys(pc)
            o == BodyAndSlot(a, n)
            b == [start |-> a, seg |-> pc.seg, ops |-> o]
            len == IF HasDelaySlot(mem[a + n - 1]) THEN n + 1 ELSE n
            e == a + n - 1
<1>2. a \in Words /\ pc.seg \in Segs /\ a \in Nat /\ Words \subseteq Nat
  BY DEF Types, VA, Phys, Words
<1>3. b \in Block
  BY <1>1, <1>2, NewBlockType
<1>4. pc \in S /\ pc.word = a /\ [seg |-> pc.seg, word |-> a] = pc
  BY DEF InPlace, OnNewBlock, Types, VA, Phys
<1>5. o = [k \in 1 .. len |-> mem[a + k - 1]]
  BY DEF BodyAndSlot
<1>6. n \in Nat /\ n >= 1 /\ MaxLen \in Nat /\ MaxLen >= 2
  BY SizeAssumption
<1>7. /\ a + n <= PhysWords /\ \A k \in 1 .. n - 1 : ~BodyEnds(a, k)
      /\ BodyEnds(a, n)
  BY <1>1 DEF IsBody
<1>. HIDE DEF a
<1>8. e \in Words /\ e \in Nat
  BY <1>2, <1>6, <1>7, SizeAssumption DEF Words
<1>9. n <= MaxLen - 1
  <2>1. CASE n = MaxLen
    <3>1. MaxLen - 1 \in 1 .. n - 1
      BY <1>6, <2>1
    <3>2. ~BodyEnds(a, MaxLen - 1)
      BY <1>7, <3>1
    <3>3. QED
      BY <3>2 DEF BodyEnds
  <2>2. QED
    BY <1>6, <2>1
<1>10. ASSUME NEW w \in Words, a <= w, w < e
       PROVE  Kind[mem[w]] = "plain"
  <2>. DEFINE k == w - a + 1
  <2>1. k \in 1 .. n - 1 /\ a + k - 1 = w
    BY <1>2, <1>6, <1>8, <1>10
  <2>. HIDE DEF k
  <2>2. ~EndsBlock(mem[a + k - 1])
    BY <1>7, <2>1 DEF BodyEnds
  <2>3. QED
    BY <2>1, <2>2 DEF EndsBlock
<1>11. ASSUME NEW w \in Words, a <= w, w <= e
       PROVE  Kind[mem[w]] = Kind[Prog[w]]
  <2>1. SUFFICES ASSUME FreeSlot(S, w) PROVE FALSE
    BY DEF Steady
  <2>2. w # a /\ w \in Nat /\ Kind[Prog[w - 1]] = "branch"
    BY <1>2, <1>4, <2>1 DEF FreeSlot, Slot
  <2>3. w - 1 \in Words /\ a <= w - 1 /\ w - 1 < e
    BY <1>2, <1>8, <1>11, <2>2, SizeAssumption DEF Words
  <2>4. Kind[mem[w - 1]] = "plain"
    BY <1>10, <2>3
  <2>5. FreeSlot(S, w - 1)
    BY <2>2, <2>3, <2>4 DEF Steady
  <2>6. QED
    BY <2>2, <2>3, <2>5 DEF FreeSlot, WellPlaced
<1>12. \A w \in Words : a <= w /\ w < e => ~Ends(w)
  <2>1. SUFFICES ASSUME NEW w \in Words, a <= w, w < e PROVE ~Ends(w)
    OBVIOUS
  <2>2. w <= e
    BY <1>2, <1>8, <2>1
  <2>3. QED
    BY <1>10, <1>11, <2>1, <2>2 DEF Ends
<1>13. a <= e /\ e <= e /\ Kind[mem[e]] = Kind[Prog[e]]
  <2>1. a <= e /\ e <= e
    BY <1>2, <1>6, <1>8
  <2>. HIDE DEF e
  <2>2. QED
    BY <1>8, <1>11, <2>1
<1>14. LastOfBody(a, e)
  <2>1. e <= a + MaxLen - 2
    BY <1>2, <1>6, <1>9
  <2>2. Ends(e) \/ e = a + MaxLen - 2
    <3>1. CASE n = MaxLen - 1
      BY <1>2, <1>6, <3>1
    <3>2. CASE n # MaxLen - 1
      <4>1. EndsBlock(mem[e])
        BY <1>7, <3>2 DEF BodyEnds
      <4>2. QED
        BY <1>13, <4>1 DEF EndsBlock, Ends
    <3>3. QED
      BY <3>1, <3>2
  <2>. HIDE DEF e
  <2>3. QED
    BY <1>12, <1>13, <2>1, <2>2 DEF LastOfBody
<1>15. HasDelaySlot(mem[e]) <=> Kind[Prog[e]] = "branch"
  BY <1>13 DEF HasDelaySlot
<1>16. len \in Nat /\ Len(o) = len
  <2>1. len \in Nat
    BY <1>6
  <2>. HIDE DEF len
  <2>2. o \in Seq(Ops) /\ DOMAIN o = 1 .. len
    BY <1>3, <1>5 DEF Block
  <2>. HIDE DEF o
  <2>3. QED
    BY <2>1, <2>2, LenProperties
<1>17. End(b) = After(e)
  BY <1>2, <1>6, <1>15, <1>16 DEF End, After
<1>18. ASSUME NEW w \in BlockWords(b), Kind[b.ops[w - b.start + 1]] = "branch"
       PROVE  w + 2 = End(b)
  <2>1. w \in Words /\ w \in Nat /\ a <= w /\ w < a + len /\ w < End(b)
    BY <1>16 DEF BlockWords, End, Words
  <2>. DEFINE k == w - a + 1
  <2>2. k \in 1 .. len /\ a + k - 1 = w
    BY <1>2, <1>16, <2>1
  <2>. HIDE DEF k, len
  <2>3. o[k] = mem[w]
    BY <1>5, <2>2
  <2>4. Kind[mem[w]] = "branch"
    BY <1>18, <2>3 DEF k
  <2>5. ~(w < e)
    BY <1>10, <2>1, <2>4
  <2>. HIDE DEF e, b
  <2>6. CASE w = e
    BY <1>8, <1>13, <1>17, <2>4, <2>6 DEF After
  <2>7. CASE w # e
    <3>1. Kind[Prog[e]] = "branch" /\ w = e + 1
      BY <1>8, <1>17, <2>1, <2>5, <2>7 DEF After
    <3>2. Slot(w)
      BY <1>8, <3>1 DEF Slot
    <3>3. Kind[mem[w]] # "branch"
      BY <2>1, <3>2 DEF Steady, WellPlaced
    <3>4. QED
      BY <2>4, <3>3
  <2>8. QED
    BY <2>6, <2>7
<1>19. Whole(S, b)
  <2>. HIDE DEF o
  <2>1. b.start = a /\ [seg |-> b.seg, word |-> b.start] \in S
    BY <1>4
  <2>. HIDE DEF b, e
  <2>2. QED
    BY <1>8, <1>14, <1>17, <1>18, <2>1 DEF Whole
<1>20. QED
  BY <1>1, <1>3, <1>19 DEF a

\* Erasing keeps the others as they are, and GetBlock inserts a whole block.
LEMMA AllWholeStep ==
  ASSUME NEW S, WellPlaced(S), Types, LastTrap, Steady(S), AllWhole(S), InPlace(S), [Next]_vars
  PROVE  AllWhole(S)'
<1>0. (\A k \in 1 .. size' : Whole(S, buf'[k])) => AllWhole(S)'
  BY DEF AllWhole, Live, Whole, BlockWords, End, LastOfBody, After, Ends
<1>1. CASE UNCHANGED <<buf, size>>
  BY <1>0, <1>1 DEF AllWhole, Live
<1>2. CASE ClearAll \/ Reset
  BY <1>2 DEF ClearAll, Reset, AllWhole, Live
<1>3. CASE ClearOne
  <2>1. ASSUME NEW k \in Live, Erase(k)
        PROVE  AllWhole(S)'
    <3>1. /\ size' = size - 1 /\ buf'[k] = buf[size]
          /\ \A j \in 1 .. Len(buf) : j # k => buf'[j] = buf[j]
      BY <2>1, AfterErase
    <3>2. ASSUME NEW j \in 1 .. size - 1
          PROVE  \E l \in Live : buf'[j] = buf[l]
      <4>1. j \in 1 .. Len(buf) /\ j \in Live /\ size \in Live
        BY LiveBlocks DEF Live
      <4>2. QED
        BY <3>1, <4>1
    <3>3. QED
      BY <1>0, <3>1, <3>2 DEF AllWhole
  <2>2. QED
    BY <1>1, <1>3, <2>1, ClearOneErases
<1>4. CASE OnNewBlock
  <2>1. PICK b \in Block : InsertBlock(b) /\ Whole(S, b)
    BY <1>4, NewIsWhole
  <2>2. CASE buf' = Append(SubSeq(buf, 1, size), b) /\ size' = size + 1
    <3>1. buf'[size + 1] = b /\ \A j \in 1 .. size : buf'[j] = buf[j]
      BY <2>2, AfterInsert
    <3>2. \A j \in 1 .. size + 1 : j \in 1 .. size \/ j = size + 1
      BY LiveBlocks
    <3>3. QED
      BY <1>0, <2>1, <2>2, <3>1, <3>2 DEF AllWhole, Live
  <2>3. QED
    BY <1>1, <2>1, <2>2 DEF InsertBlock
<1>5. QED
  BY <1>1, <1>2, <1>3, <1>4, MapSteps DEF GetFromMap

\* The block that runs is whole, and the word at pc_ is the one its next entry is for.
LEMMA HeldWhole ==
  ASSUME NEW S, IInv, HeldLive, AllWhole(S), InPlace(S), phase = "exec"
  PROVE  LET b == buf[cur]
         IN  /\ Whole(S, b) /\ b.seg \in Segs /\ b.start \in Nat
             /\ i \in 1 .. Len(b.ops) /\ Len(b.ops) \in Nat
             /\ End(b) = b.start + Len(b.ops)
             /\ Phys(pc) = b.start + i - 1
             /\ Kind[Op] = "branch" => Phys(pc) + 2 = End(b)
             /\ pc = EntryAddress(b, i) \/ (pc \in S /\ pc.word = b.start)
<1>. DEFINE b == buf[cur]
<1>1. Whole(S, b)
  BY DEF HeldLive, AllWhole
<1>2. b \in Block /\ b.start \in Nat /\ b.start \in Words
  BY LiveBlocks DEF HeldLive, IInv, Types
<1>3. Len(b.ops) \in Nat /\ b.seg \in Segs
  BY <1>2, LenProperties DEF Block
<1>4. i \in 1 .. Len(b.ops) /\ Phys(pc) = b.start + i - 1 /\ Phys(pc) \in Words
  BY DEF IInv, Held, Types, VA, Phys
<1>5. b.ops[i] = Op
  BY DEF Op
<1>. HIDE DEF b
<1>6. End(b) = b.start + Len(b.ops)
  BY DEF End
<1>7. Phys(pc) \in BlockWords(b) /\ Phys(pc) - b.start + 1 = i
  BY <1>2, <1>3, <1>4, <1>6 DEF BlockWords, Words
<1>8. Kind[Op] = "branch" => Phys(pc) + 2 = End(b)
  BY <1>1, <1>5, <1>7 DEF Whole
<1>9. pc = EntryAddress(b, i) \/ (pc \in S /\ pc.word = b.start)
  <2>1. CASE i = 1
    BY <1>2, <1>4, <2>1 DEF InPlace, Phys
  <2>2. CASE i # 1
    BY <2>2 DEF InPlace, b
  <2>3. QED
    BY <2>1, <2>2
<1>10. QED
  BY <1>1, <1>2, <1>3, <1>4, <1>6, <1>8, <1>9 DEF b

\* The word after the one that runs is in the same block, or begins one.
LEMMA NextIsPlaced ==
  ASSUME NEW S, WellPlaced(S), IInv, HeldLive, AllWhole(S), InPlace(S), phase = "exec",
         NextEntry, pc' = Plus(pc, 1), pc' \in VA
  PROVE  phase' # "exec" => pc' \in S
<1>. DEFINE b == buf[cur]
            va == [seg |-> b.seg, word |-> b.start]
<1>1. /\ Whole(S, b) /\ b.seg \in Segs /\ b.start \in Nat
      /\ i \in 1 .. Len(b.ops) /\ Len(b.ops) \in Nat
      /\ End(b) = b.start + Len(b.ops)
      /\ Phys(pc) = b.start + i - 1
      /\ pc = EntryAddress(b, i) \/ (pc \in S /\ pc.word = b.start)
  BY HeldWhole
<1>2. pc \in VA /\ pc' = [seg |-> pc.seg, word |-> Phys(pc) + 1] /\ Phys(pc) + 1 \in Words
  BY DEF IInv, Types, VA, Plus, Phys
<1>3. phase' # "exec" => ~(i < Len(b.ops) /\ pc' = EntryAddress(b, i + 1))
  BY DEF NextEntry
<1>. HIDE DEF b
<1>4. va \in S /\ va.seg = b.seg /\ va.word = b.start
  BY <1>1 DEF Whole
<1>5. CASE pc.seg = b.seg
  <2>1. SUFFICES ASSUME phase' # "exec" PROVE pc' \in S
    OBVIOUS
  <2>2. EntryAddress(b, i + 1) = [seg |-> b.seg, word |-> Phys(pc) + 1]
    <3>. DEFINE s == b.start
    <3>1. s \in Nat /\ i \in Nat /\ Phys(pc) = s + i - 1
      BY <1>1
    <3>. HIDE DEF s
    <3>2. s + (i + 1) - 1 = Phys(pc) + 1
      BY <3>1
    <3>3. QED
      BY <3>2 DEF EntryAddress, s
  <2>3. ~(i < Len(b.ops))
    BY <1>2, <1>3, <1>5, <2>1, <2>2
  <2>4. Phys(pc) + 1 = End(b)
    <3>. DEFINE s == b.start
                n == Len(b.ops)
    <3>1. s \in Nat /\ i \in 1 .. n /\ n \in Nat /\ Phys(pc) = s + i - 1 /\ ~(i < n)
      BY <1>1, <2>3
    <3>. HIDE DEF s, n
    <3>2. Phys(pc) + 1 = s + n
      BY <3>1
    <3>3. QED
      BY <1>1, <3>2 DEF s, n
  <2>5. PICK e \in Words : LastOfBody(va.word, e) /\ End(b) = After(e)
    BY <1>1, <1>4 DEF Whole
  <2>. HIDE DEF va
  <2>6. [seg |-> va.seg, word |-> After(e)] \in S
    BY <1>2, <1>4, <2>4, <2>5 DEF WellPlaced
  <2>7. QED
    BY <1>2, <1>4, <1>5, <2>4, <2>5, <2>6
<1>6. CASE pc.seg # b.seg
  <2>1. pc \in S /\ pc.word = b.start
    BY <1>1, <1>6 DEF EntryAddress
  <2>2. pc # va
    BY <1>4, <1>6
  <2>. HIDE DEF va
  <2>3. Plus(pc, 1) \in S
    BY <1>4, <2>1, <2>2 DEF WellPlaced
  <2>4. QED
    BY <2>3
<1>7. QED
  BY <1>5, <1>6

\* So does the word after the delay slot of a likely branch that is not taken.
LEMMA SkipIsPlaced ==
  ASSUME NEW S, WellPlaced(S), IInv, HeldLive, AllWhole(S), InPlace(S), phase = "exec",
         Kind[Op] = "branch", pc' = Plus(pc, 2), pc' \in VA
  PROVE  pc' \in S
<1>. DEFINE b == buf[cur]
            va == [seg |-> b.seg, word |-> b.start]
<1>1. /\ Whole(S, b)
      /\ Phys(pc) + 2 = End(b)
      /\ pc = EntryAddress(b, i) \/ (pc \in S /\ pc.word = b.start)
  BY HeldWhole
<1>2. pc \in VA /\ pc' = [seg |-> pc.seg, word |-> End(b)] /\ End(b) \in Words
  BY <1>1 DEF IInv, Types, VA, Plus, Phys
<1>. HIDE DEF b
<1>3. va \in S /\ va.seg = b.seg /\ va.word = b.start
  BY <1>1 DEF Whole
<1>4. PICK e \in Words : LastOfBody(b.start, e) /\ End(b) = After(e)
  BY <1>1 DEF Whole
<1>. HIDE DEF va
<1>5. \A vb \in S : vb.word = b.start => [seg |-> vb.seg, word |-> After(e)] \in S
  BY <1>2, <1>4 DEF WellPlaced
<1>6. CASE pc \in S /\ pc.word = b.start
  BY <1>2, <1>4, <1>5, <1>6
<1>7. CASE pc = EntryAddress(b, i)
  <2>1. pc.seg = va.seg
    BY <1>3, <1>7 DEF EntryAddress
  <2>2. QED
    BY <1>2, <1>3, <1>4, <1>5, <2>1
<1>8. QED
  BY <1>1, <1>6, <1>7

\* The steps that run an instruction, those that leave the loop where it is, and the others.
LEMMA RunSteps ==
  ASSUME Types, [Next]_vars
  PROVE  \/ UNCHANGED cpuVars /\ (phase = "exec" => buf' = buf)
         \/ /\ phase # "exec" /\ (phase' = "exec" => i' = 1)
            /\ pc' = pc \/ pc' \in Entry
            /\ dst' = dst \/ dst' = NoDst
         \/ /\ phase = "exec" /\ NextEntry /\ buf' = buf
            /\ \/ /\ dst' \in Entry \cup {NoDst}
                  /\ pc' \in Sequential \cup Entry
               \/ /\ Kind[Op] = "branch"
                  /\ pc' = Plus(pc, 2) /\ pc' \in VA /\ dst' = NoDst
BY DEF Next, RunCached, vars, cacheVars, cpuVars, history, Poll, NoWork, ClearAll, BeginClear,
       ClearOne, EndClear, GetFromLookup, GetFromMap, GetMiss, OnNewBlock, ExecPlain, Compute,
       StoreCode, InstCache, ExecBranch, ExecTrap, Start, QueueCacheClear, Reset

\* A block is left at a place where blocks begin, through either window.
LEMMA InPlaceStep ==
  ASSUME NEW S, WellPlaced(S), IInv, HeldLive, AllWhole(S), InPlace(S), [Next]_vars
  PROVE  InPlace(S)'
<1>1. SUFFICES /\ phase' # "exec" => pc' \in S
               /\ phase' = "exec" => IF i' = 1 THEN pc' \in S
                                               ELSE pc' = EntryAddress(buf'[cur'], i')
               /\ dst' # NoDst => dst' \in Entry
  BY DEF InPlace, EntryAddress
<1>2. Entry \subseteq S
  BY DEF WellPlaced
<1>3. CASE UNCHANGED cpuVars /\ (phase = "exec" => buf' = buf)
  BY <1>3 DEF InPlace, cpuVars
<1>4. CASE /\ phase # "exec" /\ (phase' = "exec" => i' = 1)
           /\ pc' = pc \/ pc' \in Entry
           /\ dst' = dst \/ dst' = NoDst
  BY <1>2, <1>4 DEF InPlace
<1>5. CASE /\ phase = "exec" /\ NextEntry /\ buf' = buf
           /\ \/ /\ dst' \in Entry \cup {NoDst}
                 /\ pc' \in Sequential \cup Entry
              \/ /\ Kind[Op] = "branch"
                 /\ pc' = Plus(pc, 2) /\ pc' \in VA /\ dst' = NoDst
  <2>1. phase' = "exec" => i' # 1 /\ pc' = EntryAddress(buf'[cur'], i')
    BY <1>5 DEF NextEntry, IInv, Held, Types
  <2>2. phase' # "exec" => pc' \in S
    <3>1. CASE pc' \in Entry \/ (dst # NoDst /\ pc' = dst)
      BY <1>2, <3>1 DEF InPlace
    <3>2. CASE pc' = Plus(pc, 1) /\ pc' \in VA
      BY <1>5, <3>2, NextIsPlaced
    <3>3. CASE Kind[Op] = "branch" /\ pc' = Plus(pc, 2) /\ pc' \in VA
      BY <1>5, <3>3, SkipIsPlaced
    <3>4. QED
      BY <1>5, <3>1, <3>2, <3>3 DEF Sequential
  <2>3. dst' # NoDst => dst' \in Entry
    BY <1>5
  <2>4. QED
    BY <2>1, <2>2, <2>3
<1>6. QED
  BY <1>3, <1>4, <1>5, RunSteps DEF IInv

\* Such code starts as it is to go on.
LEMMA InitSInv == ASSUME NEW S, WellPlaced(S), Init PROVE SInv(S)
<1>1. mem = Prog /\ size = 0 /\ pc \in Entry /\ dst = NoDst /\ phase = "poll"
  BY DEF Init
<1>2. QED
  BY <1>1 DEF SInv, Steady, AllWhole, Live, InPlace, WellPlaced

\* The blocks of such code are nested in every run.
LEMMA PlacedCodeIsNested ==
  ASSUME NEW S, WellPlaced(S) PROVE Spec => []Nested
<1>1. Init => CInv /\ SInv(S)
  BY InitCInv, InitSInv
<1>2. IInv /\ SInv(S) => Nested
  BY WholeNested DEF IInv, SInv
<1>3. IInv /\ CInv /\ SInv(S) /\ [Next]_vars => CInv' /\ SInv(S)'
  <2>1. SUFFICES ASSUME IInv, CInv, SInv(S), [Next]_vars
                 PROVE  CInv' /\ SInv(S)'
    OBVIOUS
  <2>2. CInv'
    BY <1>2, <2>1, NextCInv
  <2>3. Steady(S)' /\ AllWhole(S)' /\ InPlace(S)'
    BY <2>1, SteadyStep, AllWholeStep, InPlaceStep DEF IInv, CInv, SInv
  <2>4. QED
    BY <2>2, <2>3 DEF SInv
<1>4. QED
  BY <1>1, <1>2, <1>3, InvariantHolds, PTL DEF Spec

\* In such code coherence needs no assumption about the run: no fetch sees a word that
\* was cleared, whatever is patched, queued and interrupted, through however many windows.
THEOREM PlacedCodeIsCoherent ==
  ASSUME NEW S, WellPlaced(S) PROVE Spec => []Coherent
BY PlacedCodeIsNested, CoherentIfNested, PTL

\* Nor does the service of requests: ProcessCacheWork erases all that was asked for.
THEOREM PlacedCodeIsServed ==
  ASSUME NEW S, WellPlaced(S) PROVE Spec => RequestedAreGone
BY PlacedCodeIsNested, RequestsServedIfNested, PTL

\* For such code block cache and loop are an instruction cache.
THEOREM PlacedCodeHasInstructionCache ==
  ASSUME NEW S, WellPlaced(S) PROVE Spec => Code!Init /\ [][Code!Next]_(Code!vars)
BY PlacedCodeIsNested, IsInstructionCacheIfNested, PTL

\* Ordinary code is such code: its blocks begin anywhere but in a delay slot.
LEMMA PlainIsPlaced ==
  ASSUME PlainCode
  PROVE  WellPlaced({va \in VA : ~Slot(va.word)})
<1>. DEFINE S == {va \in VA : ~Slot(va.word)}
<1>1. Words \subseteq Nat /\ PhysWords \in Nat /\ MaxLen \in Nat
  BY SizeAssumption DEF Words
<1>2. Entry \subseteq S /\ S \subseteq VA
  BY ProgramAssumption DEF PlainCode
<1>3. ASSUME NEW a \in Words, NEW e \in Words, LastOfBody(a, e)
      PROVE  Ends(e)
  <2>1. PICK n \in 1 .. MaxLen - 1 : a + n - 1 \in Words /\ Ends(a + n - 1)
    BY DEF PlainCode
  <2>2. ~(a + n - 1 < e)
    BY <1>1, <1>3, <2>1 DEF LastOfBody
  <2>3. e = a + MaxLen - 2 => e = a + n - 1
    BY <1>1, <2>1, <2>2
  <2>4. QED
    BY <1>3, <2>1, <2>3 DEF LastOfBody
<1>4. ASSUME NEW e \in Words, Ends(e), After(e) \in Words
      PROVE  ~Slot(After(e))
  <2>1. CASE Kind[Prog[e]] = "branch"
    <3>1. After(e) = e + 2 /\ e + 1 \in Words /\ e \in Nat
      BY <1>1, <1>4, <2>1 DEF After, Words
    <3>2. Slot(e + 1)
      BY <2>1, <3>1, (e + 1) - 1 = e DEF Slot
    <3>3. Kind[Prog[e + 1]] # "branch"
      BY <3>1, <3>2 DEF PlainCode
    <3>4. (e + 2) - 1 = e + 1
      BY <3>1
    <3>5. QED
      BY <3>1, <3>3, <3>4 DEF Slot
  <2>2. CASE Kind[Prog[e]] # "branch"
    <3>1. After(e) = e + 1 /\ (e + 1) - 1 = e
      BY <1>1, <2>2 DEF After
    <3>2. QED
      BY <2>2, <3>1 DEF Slot
  <2>3. QED
    BY <2>1, <2>2
<1>5. ASSUME NEW va \in S, NEW e \in Words, LastOfBody(va.word, e), After(e) \in Words
      PROVE  [seg |-> va.seg, word |-> After(e)] \in S
  <2>1. va.word \in Words /\ va.seg \in Segs
    BY DEF VA
  <2>2. ~Slot(After(e))
    BY <1>3, <1>4, <1>5, <2>1
  <2>3. QED
    BY <1>5, <2>1, <2>2 DEF VA
<1>6. ASSUME NEW va \in S, NEW vb \in S, va.word = vb.word
      PROVE  va = vb
  <2>1. va.seg = vb.seg
    BY DEF PlainCode, VA
  <2>2. QED
    BY <1>6, <2>1 DEF VA
<1>7. ASSUME NEW va \in S, NEW vb \in S, NEW e \in Words, NEW f \in Words,
             LastOfBody(va.word, e), LastOfBody(vb.word, f),
             va.word <= vb.word, vb.word < After(e)
      PROVE  After(f) <= After(e)
  <2>. DEFINE s == va.word
              t == vb.word
  <2>1. s \in Words /\ t \in Words /\ ~Slot(t)
    BY DEF VA
  <2>2. Ends(e) /\ Ends(f)
    BY <1>3, <1>7, <2>1
  <2>3. /\ s <= t /\ t < After(e)
        /\ s <= e /\ \A w \in Words : s <= w /\ w < e => ~Ends(w)
        /\ t <= f /\ \A w \in Words : t <= w /\ w < f => ~Ends(w)
    BY <1>7 DEF LastOfBody
  <2>. HIDE DEF s, t
  <2>4. t <= e
    <3>1. SUFFICES ASSUME e < t PROVE FALSE
      BY <1>1, <2>1
    <3>2. Kind[Prog[e]] = "branch" /\ t = e + 1
      BY <1>1, <2>1, <2>3, <3>1 DEF After
    <3>3. t > 0 /\ t - 1 = e
      BY <1>1, <3>2
    <3>4. QED
      BY <2>1, <3>2, <3>3 DEF Slot
  <2>5. e = f
    BY <1>1, <2>1, <2>2, <2>3, <2>4
  <2>6. After(e) \in Nat
    BY <1>1 DEF After
  <2>7. QED
    BY <2>5, <2>6
<1>8. \A w \in Words : Slot(w) => Kind[Prog[w]] # "branch"
  BY DEF PlainCode
<1>9. ASSUME NEW p \in Patches
      PROVE  IF FreeSlot(S, p[1]) THEN Kind[p[2]] # "branch"
                                  ELSE Kind[p[2]] = Kind[Prog[p[1]]]
  <2>1. p[1] \in Words /\ Kind[p[2]] = Kind[Prog[p[1]]]
    BY ProgramAssumption DEF PlainCode
  <2>2. QED
    BY <1>8, <2>1 DEF FreeSlot
<1>. HIDE DEF S
<1>10. WellPlaced(S)
  BY <1>2, <1>5, <1>6, <1>7, <1>8, <1>9 DEF WellPlaced
<1>11. QED
  BY <1>10 DEF S

\* Ordinary code has no stale instructions once requests are served.
THEOREM PlainCodeIsCoherent == ASSUME PlainCode PROVE Spec => []Coherent
BY PlainIsPlaced, PlacedCodeIsCoherent

\* And the requests are served, all of them.
THEOREM PlainCodeIsServed == ASSUME PlainCode PROVE Spec => RequestedAreGone
BY PlainIsPlaced, PlacedCodeIsServed

\* For ordinary code block cache and loop are an instruction cache.
THEOREM PlainCodeHasInstructionCache ==
  ASSUME PlainCode PROVE Spec => Code!Init /\ [][Code!Next]_(Code!vars)
BY PlainIsPlaced, PlacedCodeHasInstructionCache

-----------------------------------------------------------------------------
(* How long a request waits.                                                *)

\* The steps RunCached takes at most until it has passed the loop over
\* pending_invalidations_: the rest of the block, its turn, a round for each request.
Ahead ==
  CASE phase = "exec"  -> PhysWords + 4 + (MaxLen + 1 - i)
    [] phase = "poll"  -> PhysWords + 3
    [] phase = "head"  -> PhysWords + 2
    [] phase = "clear" -> Cardinality(todo) + 1
    [] OTHER           -> 0

\* QueueCacheClear, from outside, can come in between once.
Wait == 2 * Ahead + (IF fullClear THEN 0 ELSE 1)
LongestWait == 2 * (PhysWords + MaxLen + 4) + 1

\* While requests wait every step brings the service of all of them nearer, from a
\* distance that is known when the first is made, whatever the program does and
\* whatever else is requested meanwhile.
RequestsWaitBounded ==
  [][hasWork /\ hasWork' => Wait' < Wait]_vars

\* A set of words is finite.
LEMMA WordsFinite ==
  ASSUME NEW S \in SUBSET Words
  PROVE  IsFiniteSet(S) /\ Cardinality(S) \in 0 .. PhysWords
<1>1. IsFiniteSet(Words) /\ Cardinality(Words) = PhysWords
  BY SizeAssumption, FS_Interval DEF Words
<1>2. IsFiniteSet(S) /\ Cardinality(S) <= PhysWords
  BY <1>1, FS_Subset
<1>3. Cardinality(S) \in Nat
  BY <1>2, FS_CardinalityType
<1> QED BY <1>2, <1>3, SizeAssumption

LEMMA HeldFits ==
  ASSUME IInv, phase = "exec"
  PROVE  i \in 1 .. MaxLen /\ i \in 1 .. Len(buf[cur].ops) /\ Len(buf[cur].ops) <= MaxLen
<1>1. cur \in 1 .. Len(buf) /\ i \in 1 .. Len(buf[cur].ops)
  BY DEF IInv, Held
<1>2. Len(buf[cur].ops) \in 1 .. MaxLen
  BY <1>1 DEF IInv, AllFit
<1> QED BY <1>1, <1>2, SizeAssumption

\* The distance is never more than the longest wait.
LEMMA WaitIsBounded ==
  ASSUME IInv
  PROVE  Ahead \in 0 .. PhysWords + MaxLen + 4 /\ Wait \in 0 .. LongestWait
<1>1. Cardinality(todo) \in 0 .. PhysWords
  BY WordsFinite DEF IInv, Types
<1>2. phase = "exec" => i \in 1 .. MaxLen
  BY HeldFits
<1>3. PhysWords \in Nat /\ MaxLen \in Nat
  BY SizeAssumption
<1>4. Ahead \in 0 .. PhysWords + MaxLen + 4
  <2>1. CASE phase = "exec"
    BY <1>2, <1>3, <2>1 DEF Ahead
  <2>2. CASE phase = "clear"
    BY <1>1, <1>3, <2>2 DEF Ahead
  <2>3. CASE phase \notin {"exec", "clear"}
    BY <1>3, <2>3 DEF Ahead
  <2> QED BY <2>1, <2>2, <2>3
<1> QED BY <1>3, <1>4 DEF Wait, LongestWait

\* A step that takes RunCached on, and one of the host's.
LEMMA WaitShrinks ==
  ASSUME IInv
  PROVE  /\ Ahead' \in Nat /\ Ahead' < Ahead /\ fullClear' = fullClear => Wait' < Wait
         /\ Ahead' = Ahead /\ ~fullClear /\ fullClear' => Wait' < Wait
<1>1. Ahead \in Nat
  BY WaitIsBounded
<1>2. ASSUME NEW m \in Nat, NEW n \in Nat, NEW f \in {0, 1}
      PROVE  /\ m < n => 2 * m + f < 2 * n + f
             /\ 2 * n + 0 < 2 * n + 1
  OBVIOUS
<1> QED BY <1>1, <1>2 DEF Wait

\* An instruction of the block, or its end.
LEMMA InstructionNearer ==
  ASSUME IInv, phase = "exec", NextEntry
  PROVE  Ahead' \in Nat /\ Ahead' < Ahead
<1>1. /\ i \in 1 .. MaxLen /\ PhysWords \in Nat /\ MaxLen \in Nat
      /\ Len(buf[cur].ops) \in 1 .. MaxLen
  BY HeldFits, SizeAssumption
<1>2. Ahead = PhysWords + 4 + (MaxLen + 1 - i)
  BY DEF Ahead
<1>3. CASE i < Len(buf[cur].ops) /\ phase' = "exec" /\ i' = i + 1
  <2>1. Ahead' = PhysWords + 4 + (MaxLen + 1 - (i + 1))
    BY <1>3 DEF Ahead
  <2> QED BY <1>1, <1>2, <1>3, <2>1
<1>4. CASE phase' = "poll"
  <2>1. Ahead' = PhysWords + 3
    BY <1>4 DEF Ahead
  <2> QED BY <1>1, <1>2, <2>1
<1> QED BY <1>3, <1>4 DEF NextEntry

LEMMA WaitStep ==
  ASSUME IInv, Idle, [Next]_vars, hasWork, hasWork', ~UNCHANGED vars
  PROVE  Wait' < Wait
<1>1. PhysWords \in Nat /\ Cardinality(todo) \in Nat /\ IsFiniteSet(todo)
  BY SizeAssumption, WordsFinite DEF IInv, Types
<1>2. CASE Poll
  <2>1. phase = "poll" /\ phase' = "head" /\ fullClear' = fullClear
    BY <1>2 DEF Poll, cacheVars
  <2>2. Ahead = PhysWords + 3 /\ Ahead' = PhysWords + 2
    BY <2>1 DEF Ahead
  <2> QED BY <1>1, <2>1, <2>2, WaitShrinks
<1>3. CASE BeginClear
  <2>1. /\ phase = "head" /\ phase' = "clear" /\ fullClear' = fullClear /\ todo' = pending
    BY <1>3 DEF BeginClear, IInv, WorkFlag
  <2>2. Cardinality(pending) \in 0 .. PhysWords
    BY WordsFinite DEF IInv, Types
  <2>3. Ahead = PhysWords + 2 /\ Ahead' = Cardinality(pending) + 1
    BY <2>1 DEF Ahead
  <2> QED BY <1>1, <2>1, <2>2, <2>3, WaitShrinks
<1>4. CASE ClearOne
  <2>1. PICK a \in todo : todo' = todo \ {a}
    BY <1>4 DEF ClearOne
  <2>2. phase = "clear" /\ phase' = "clear" /\ fullClear' = fullClear
    BY <1>4 DEF ClearOne, cpuVars
  <2>3. /\ Cardinality(todo \ {a}) = Cardinality(todo) - 1
        /\ Cardinality(todo \ {a}) \in Nat
    BY <1>1, FS_RemoveElement, FS_CardinalityType
  <2>4. Ahead = Cardinality(todo) + 1 /\ Ahead' = Cardinality(todo \ {a}) + 1
    BY <2>1, <2>2 DEF Ahead
  <2> QED BY <1>1, <2>2, <2>3, <2>4, WaitShrinks
<1>5. CASE Compute \/ StoreCode \/ InstCache \/ ExecBranch \/ ExecTrap
  <2>1. phase = "exec" /\ NextEntry /\ fullClear' = fullClear
    BY <1>5
    DEF Compute, StoreCode, InstCache, ExecBranch, ExecTrap, ExecPlain, cacheVars
  <2> QED BY <2>1, InstructionNearer, WaitShrinks
<1>6. CASE QueueCacheClear
  <2>1. /\ ~fullClear /\ fullClear' /\ UNCHANGED <<phase, i, todo>>
    BY <1>6 DEF QueueCacheClear, cpuVars
  <2>2. Ahead' = Ahead
    BY <2>1 DEF Ahead
  <2> QED BY <2>1, <2>2, WaitShrinks
<1>7. ~(NoWork \/ ClearAll \/ EndClear \/ Reset)
  BY DEF NoWork, ClearAll, EndClear, Reset, cacheVars
<1>8. ~(GetFromLookup \/ GetFromMap \/ GetMiss \/ OnNewBlock)
  <2>1. phase \notin {"get", "build", "retry"}
    BY DEF Idle, IInv, WorkFlag
  <2> QED BY <2>1 DEF GetFromLookup, GetFromMap, GetMiss, OnNewBlock
<1> QED
  BY <1>2, <1>3, <1>4, <1>5, <1>6, <1>7, <1>8 DEF Next, RunCached

\* A request is served after at most LongestWait steps, although others may follow it
\* and the host may ask for a full clear: the flag cannot stay up for longer.
THEOREM RequestsAreServedInTime ==
  Spec => [](Wait \in 0 .. LongestWait) /\ RequestsWaitBounded
<1>1. Init => Idle
  BY DEF Init, Idle
<1>2. IInv /\ Idle /\ [Next]_vars => Idle'
  BY IdleStep DEF IInv
<1>3. IInv => Wait \in 0 .. LongestWait
  BY WaitIsBounded
<1>4. ASSUME IInv, Idle, [Next]_vars
      PROVE  [hasWork /\ hasWork' => Wait' < Wait]_vars
  BY <1>4, WaitStep
<1> QED
  BY <1>1, <1>2, <1>3, <1>4, InvariantHolds, PTL DEF Spec, RequestsWaitBounded
=============================================================================
