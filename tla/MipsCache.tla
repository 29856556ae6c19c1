------------------------------ MODULE MipsCache ------------------------------
(***************************************************************************)
(* The block cache of the cached interpreter (class MipsCache) together    *)
(* with the loop that drives it (MipsBase::RunCached), the decoder of new  *)
(* blocks (OnNewBlock) and the guest instructions that reach it: stores    *)
(* that rewrite code and the CACHE instruction.                            *)
(*                                                                         *)
(* Addresses are counted in words.  A virtual address is a word seen       *)
(* through one of the windows Segs onto physical memory: kseg0 and kseg1   *)
(* for the N64 core, a single one for the RSP.  GetBlock masks the window  *)
(* off.  Mapped segments, whose translation can fail, are not modelled.    *)
(*                                                                         *)
(* The container behind cache_ is ankerl::unordered_dense::map: its values *)
(* lie in one vector, new values are appended, an erased value is replaced *)
(* by the last one, and a pointer to a value is a pointer into the vector. *)
(* buf is the storage of that vector and its first `size` slots are the    *)
(* live values; a slot beyond them keeps what it held until it is reused.  *)
(***************************************************************************)
EXTENDS Integers, Sequences, FiniteSets

CONSTANTS
  PhysWords,    \* words of physical memory
  Segs,         \* the virtual windows onto it
  LineWords,    \* words of an instruction-cache line (8 in the code)
  MaxLen,       \* kCacheBlockMaxLength
  LookupSize,   \* kLookupCacheSize
  Ops,          \* opcodes
  Kind,         \* what an opcode does to the control flow
  Prog,         \* the code memory holds at first
  Patches,      \* <<word, opcode>>: the stores into code the guest may make
  Entry,        \* virtual addresses control is transferred to
  NoDst         \* "no branch delay slot is pending"

Words == 0 .. PhysWords - 1
VA    == [seg : Segs, word : Words]
Phys(va) == va.word
Plus(va, n) == [va EXCEPT !.word = @ + n]
Lines == {w \in Words : w % LineWords = 0}
LineOf(l) == {w \in Words : l <= w /\ w < l + LineWords}

ASSUME SizeAssumption ==
  /\ PhysWords \in Nat \ {0} /\ LineWords \in Nat \ {0}
  /\ LookupSize \in Nat \ {0}
  /\ MaxLen \in Nat /\ MaxLen >= 2

ASSUME ProgramAssumption ==
  /\ Kind \in [Ops -> {"plain", "branch", "trap"}]
  /\ Prog \in [Words -> Ops]
  /\ Patches \subseteq Words \X Ops
  /\ Entry \subseteq VA /\ Entry # {}
  /\ NoDst \notin VA

\* Code does not run off the end of memory: the last word ends every block.
ASSUME LastWordAssumption ==
  /\ Kind[Prog[PhysWords - 1]] = "trap"
  /\ \A p \in Patches : p[1] = PhysWords - 1 => Kind[p[2]] = "trap"

VARIABLES
  mem,        \* physical memory, one opcode per word
  buf, size,  \* cache_: the vector of blocks and its number of live slots
  lookup,     \* lookup_cache_: address_ and block_, a slot of buf (0: nullptr)
  pending,    \* pending_invalidations_
  todo,       \* what the loop over pending_invalidations_ has still to visit
  fullClear,  \* full_clear_queued_
  hasWork,    \* has_pending_work_
  phase,      \* where RunCached is
  pc, dst,    \* pc_; branch_delay_dst_ while has_branch_delay_, else NoDst
  cur, i,     \* the block being run (a slot of buf) and the entry to run next
  seen,       \* history: per word, the opcodes stored since its cached copies
              \* were last invalidated, its current one among them
  posted      \* history: words whose invalidation has been requested

cacheVars == <<buf, size, lookup, pending, todo, fullClear, hasWork>>
cpuVars   == <<phase, pc, dst, cur, i>>
history   == <<seen, posted>>
vars      == <<mem, cacheVars, cpuVars, history>>

Phases == {"poll", "head", "clear", "get", "build", "retry", "exec", "panic"}

-----------------------------------------------------------------------------
(* MipsCacheBlock: start is physical, the entries carry the virtual        *)
(* addresses of the window the block was built through.                    *)

Block == [start : Words, seg : Segs, ops : Seq(Ops)]
EntryAddress(b, k) == [seg |-> b.seg, word |-> b.start + k - 1]
End(b) == b.start + Len(b.ops)
BlockWords(b) == {w \in Words : b.start <= w /\ w < End(b)}
Live == 1 .. size
NoBlock == 0

Index(a) == a % LookupSize
EmptyLookup == [x \in 0 .. LookupSize - 1 |-> [addr |-> 0, slot |-> NoBlock]]
NullLookups ==
  [x \in DOMAIN lookup |-> [addr |-> lookup[x].addr, slot |-> NoBlock]]

Init ==
  /\ mem = Prog
  /\ buf = <<>> /\ size = 0
  /\ lookup = EmptyLookup
  /\ pending = {} /\ todo = {} /\ fullClear = FALSE /\ hasWork = FALSE
  /\ phase = "poll"
  /\ pc \in Entry /\ dst = NoDst
  /\ cur = NoBlock /\ i = 1
  /\ seen = [w \in Words |-> {mem[w]}] /\ posted = {}

-----------------------------------------------------------------------------
(* The head of RunCached's loop. *)

\* CheckInterrupt may raise an exception between two blocks: its handler's
\* address replaces pc_, and the pending delay slot is cancelled.
Poll ==
  /\ phase = "poll"
  /\ phase' = "head"
  /\ \/ UNCHANGED <<pc, dst>>
     \/ pc' \in Entry /\ dst' = NoDst
  /\ UNCHANGED <<mem, cacheVars, cur, i, history>>

\* The requests made so far have been carried out.
Served ==
  /\ seen' = [w \in Words |-> IF w \in posted THEN {mem[w]} ELSE seen[w]]
  /\ posted' = {}

NoWork ==
  /\ phase = "head" /\ ~hasWork
  /\ phase' = "get"
  /\ Served
  /\ UNCHANGED <<mem, cacheVars, pc, dst, cur, i>>

\* ExecuteCacheClear, full_clear_queued_.
ClearAll ==
  /\ phase = "head" /\ hasWork /\ fullClear
  /\ buf' = <<>> /\ size' = 0
  /\ lookup' = EmptyLookup
  /\ pending' = {} /\ fullClear' = FALSE /\ hasWork' = FALSE
  /\ phase' = "get"
  /\ Served
  /\ UNCHANGED <<mem, todo, pc, dst, cur, i>>

\* ExecuteCacheClear, individual invalidations: the loop starts.
BeginClear ==
  /\ phase = "head" /\ hasWork /\ ~fullClear
  /\ todo' = pending
  /\ phase' = IF pending = {} THEN "get" ELSE "clear"
  /\ UNCHANGED <<mem, buf, size, lookup, pending, fullClear, hasWork,
                 pc, dst, cur, i, history>>

Contains(b, a) == b.start <= a /\ a < End(b)

\* The erased slot takes the last live block, which is then popped.
Erase(k) ==
  /\ buf' = [buf EXCEPT ![k] = buf[size]]
  /\ size' = size - 1

\* Variant: erasing leaves the lookup cache alone.
Forget_Never(s) == UNCHANGED lookup

\* The lookup slot of a block's start forgets the block.
Forget(s) ==
  lookup' = [lookup EXCEPT ![Index(s)] =
               IF @.addr = s THEN [addr |-> s, slot |-> NoBlock] ELSE @]

\* One round: the first block, in the order of the vector, that contains the
\* address (std::set yields the addresses in ascending order).
ClearOne ==
  /\ phase = "clear"
  /\ \E a \in todo :
       /\ \A c \in todo : a <= c
       /\ todo' = todo \ {a}
       /\ \/ \E k \in Live :
               /\ Contains(buf[k], a)
               /\ \A j \in 1 .. k - 1 : ~Contains(buf[j], a)
               /\ Forget(buf[k].start)
               /\ Erase(k)
          \/ /\ \A k \in Live : ~Contains(buf[k], a)
             /\ UNCHANGED <<buf, size, lookup>>
  /\ UNCHANGED <<mem, pending, fullClear, hasWork, cpuVars, history>>

\* Variant: the flag stays up (line 196 missing).
EndClear_FlagStays ==
  /\ phase = "clear" /\ todo = {}
  /\ pending' = {}
  /\ phase' = "get"
  /\ Served
  /\ UNCHANGED <<mem, buf, size, lookup, todo, fullClear, hasWork,
                 pc, dst, cur, i>>

EndClear ==
  /\ phase = "clear" /\ todo = {}
  /\ pending' = {} /\ hasWork' = FALSE
  /\ phase' = "get"
  /\ Served
  /\ UNCHANGED <<mem, buf, size, lookup, todo, fullClear, pc, dst, cur, i>>

-----------------------------------------------------------------------------
(* GetBlock(pc_), before and after OnNewBlock. *)

Start(k) == cur' = k /\ i' = 1 /\ phase' = "exec"

IsLookupHit(a) ==
  lookup[Index(a)].addr = a /\ lookup[Index(a)].slot # NoBlock

GetFromLookup ==
  /\ phase \in {"get", "retry"}
  /\ IsLookupHit(Phys(pc))
  /\ Start(lookup[Index(Phys(pc))].slot)
  /\ UNCHANGED <<mem, cacheVars, pc, dst, history>>

GetFromMap ==
  /\ phase \in {"get", "retry"}
  /\ ~IsLookupHit(Phys(pc))
  /\ \E k \in Live :
       /\ buf[k].start = Phys(pc)
       /\ lookup' = [lookup EXCEPT ![Index(Phys(pc))] =
                       [addr |-> Phys(pc), slot |-> k]]
       /\ Start(k)
  /\ UNCHANGED <<mem, buf, size, pending, todo, fullClear, hasWork,
                 pc, dst, history>>

GetMiss ==
  /\ phase \in {"get", "retry"}
  /\ ~IsLookupHit(Phys(pc))
  /\ \A k \in Live : buf[k].start # Phys(pc)
  /\ phase' = IF phase = "get" THEN "build" ELSE "panic"
  /\ UNCHANGED <<mem, cacheVars, pc, dst, cur, i, history>>

-----------------------------------------------------------------------------
(* OnNewBlock(pc_) and InsertBlock. *)

EndsBlock(op) == Kind[op] # "plain"      \* IsInstBranch
HasDelaySlot(op) == Kind[op] = "branch"  \* DoesInstHaveDelaySlot

\* Variant: the body may fill entries_, leaving no place for the delay slot.
BodyEnds_FullLength(a, n) == EndsBlock(mem[a + n - 1]) \/ n = MaxLen

\* n instructions from word a, the last one a branch or the MaxLen-1'st.
BodyEnds(a, n) == EndsBlock(mem[a + n - 1]) \/ n = MaxLen - 1
IsBody(a, n) ==
  /\ a + n <= PhysWords      \* the last word ends every body
  /\ \A k \in 1 .. n - 1 : ~BodyEnds(a, k)
  /\ BodyEnds(a, n)

BodyAndSlot(a, n) ==
  LET len == IF HasDelaySlot(mem[a + n - 1]) THEN n + 1 ELSE n
  IN  [k \in 1 .. len |-> mem[a + k - 1]]

\* Variant: code that a live block already covers is not inserted again.
InsertBlock_NoOverlap(b) ==
  /\ IF \E k \in Live : Contains(buf[k], b.start)
     THEN UNCHANGED <<buf, size>>
     ELSE /\ buf' = Append(SubSeq(buf, 1, size), b)
          /\ size' = size + 1
  /\ lookup' = NullLookups

\* InsertBlock: insert keeps a value that is already there; appending may
\* move the vector, so every lookup pointer is dropped.
InsertBlock(b) ==
  /\ IF \E k \in Live : buf[k].start = b.start
     THEN UNCHANGED <<buf, size>>
     ELSE /\ buf' = Append(SubSeq(buf, 1, size), b)
          /\ size' = size + 1
  /\ lookup' = NullLookups

OnNewBlock ==
  /\ phase = "build"
  /\ \E n \in 1 .. MaxLen :
       /\ IsBody(Phys(pc), n)
       /\ InsertBlock([start |-> Phys(pc), seg |-> pc.seg,
                       ops |-> BodyAndSlot(Phys(pc), n)])
  /\ phase' = "retry"
  /\ UNCHANGED <<mem, pending, todo, fullClear, hasWork, pc, dst, cur, i,
                 history>>

-----------------------------------------------------------------------------
(* The body of RunCached: one instruction of the block at a time. *)

Op == buf[cur].ops[i]

\* Variant: the block runs to its end whatever happens to pc_.
NextEntry_Blind ==
  IF i < Len(buf[cur].ops)
  THEN phase' = "exec" /\ cur' = cur /\ i' = i + 1
  ELSE phase' = "poll" /\ cur' = NoBlock /\ i' = 1

\* The block goes on only if its next entry is the instruction at pc_.
NextEntry ==
  IF i < Len(buf[cur].ops) /\ pc' = EntryAddress(buf[cur], i + 1)
  THEN phase' = "exec" /\ cur' = cur /\ i' = i + 1
  ELSE phase' = "poll" /\ cur' = NoBlock /\ i' = 1

\* After an instruction that is no branch: the delay slot's target, the next
\* word, or wherever an exception or ERET leads.
Sequential ==
  IF dst # NoDst THEN {dst} ELSE {Plus(pc, 1)} \cap VA

ExecPlain ==
  /\ phase = "exec" /\ Kind[Op] = "plain"
  /\ pc' \in Sequential \cup Entry
  /\ dst' = NoDst
  /\ NextEntry

\* SYSCALL and BREAK: an exception, or nothing on a core without exceptions.
ExecTrap ==
  /\ phase = "exec" /\ Kind[Op] = "trap"
  /\ pc' \in Sequential \cup Entry
  /\ dst' = NoDst
  /\ NextEntry
  /\ UNCHANGED <<mem, cacheVars, history>>

\* Taken or not taken; a likely branch not taken, which skips its slot wherever it
\* stands itself; or BC1 with coprocessor 1 unusable, an exception.
ExecBranch ==
  /\ phase = "exec" /\ Kind[Op] = "branch"
  /\ \/ pc' \in Sequential /\ dst' \in Entry \cup {NoDst}
     \/ pc' \in {Plus(pc, 2)} \cap VA /\ dst' = NoDst
     \/ pc' \in Entry /\ dst' = NoDst
  /\ NextEntry
  /\ UNCHANGED <<mem, cacheVars, history>>

\* An instruction that touches neither code nor the cache.
Compute ==
  /\ ExecPlain
  /\ UNCHANGED <<mem, cacheVars, history>>

StoreCode ==
  /\ ExecPlain
  /\ \E p \in Patches :
       /\ mem' = [mem EXCEPT ![p[1]] = p[2]]
       /\ seen' = [seen EXCEPT ![p[1]] = @ \cup {p[2]}]
  /\ UNCHANGED <<cacheVars, posted>>

\* Variants: only blocks that start in the range; a block that starts at the
\* range's last word is missed; only the first overlapping block.
Overlapping_StartInside(lo, hi) ==
  {k \in Live : lo <= buf[k].start /\ buf[k].start < hi}
Overlapping_OffByOne(lo, hi) ==
  {k \in Live : buf[k].start + 1 < hi /\ End(buf[k]) > lo}
Overlapping_FirstOnly(lo, hi) ==
  {k \in Live : /\ buf[k].start < hi /\ End(buf[k]) > lo
                /\ \A j \in 1 .. k - 1 :
                     ~(buf[j].start < hi /\ End(buf[j]) > lo)}

\* InvalidateBlockRange: the start of every block that overlaps the range.
Overlapping(lo, hi) == {k \in Live : buf[k].start < hi /\ End(buf[k]) > lo}

\* Variant: the flag is not raised.
InvalidateBlockRange_NoFlag(lo, hi) ==
  /\ pending' = pending \cup {buf[k].start : k \in Overlapping(lo, hi)}
  /\ UNCHANGED hasWork

InvalidateBlockRange(lo, hi) ==
  LET hit == {buf[k].start : k \in Overlapping(lo, hi)}
  IN  /\ pending' = pending \cup hit
      /\ hasWork' = (hasWork \/ hit # {})

\* Variant: CACHE erases a block at once instead of queueing its start.
InstCache_AtOnce ==
  /\ ExecPlain
  /\ \E l \in Lines : \E k \in Overlapping(l, l + LineWords) :
       Forget(buf[k].start) /\ Erase(k) /\ posted' = posted \cup LineOf(l)
  /\ UNCHANGED <<mem, pending, todo, fullClear, hasWork, seen>>

\* CACHE on the instruction cache.
InstCache ==
  /\ ExecPlain
  /\ \E l \in Lines :
       /\ InvalidateBlockRange(l, l + LineWords)
       /\ posted' = posted \cup LineOf(l)
  /\ UNCHANGED <<mem, buf, size, lookup, todo, fullClear, seen>>

\* QueueCacheClear, from the host between blocks or from a bus device while a
\* block runs (the instruction then goes on).  A second call changes nothing.
QueueCacheClear ==
  /\ phase \in {"poll", "exec"} /\ ~fullClear
  /\ fullClear' = TRUE /\ hasWork' = TRUE
  /\ posted' = Words
  /\ UNCHANGED <<mem, buf, size, lookup, pending, todo, cpuVars, seen>>

\* MipsBase::Reset and the SetPc that follows it, from the host between two
\* calls of Run.
Reset ==
  /\ phase = "poll"
  /\ buf' = <<>> /\ size' = 0 /\ lookup' = EmptyLookup
  /\ pending' = {} /\ fullClear' = FALSE /\ hasWork' = FALSE
  /\ pc' \in Entry /\ dst' = NoDst
  /\ seen' = [w \in Words |-> {mem[w]}] /\ posted' = {}
  /\ UNCHANGED <<mem, todo, phase, cur, i>>

RunCached ==
  \/ Poll \/ NoWork \/ ClearAll \/ BeginClear \/ ClearOne \/ EndClear
  \/ GetFromLookup \/ GetFromMap \/ GetMiss \/ OnNewBlock
  \/ Compute \/ StoreCode \/ InstCache \/ ExecBranch \/ ExecTrap

Next == RunCached \/ QueueCacheClear \/ Reset

\* The host calls Run for as long as the guest is on.
Spec == Init /\ [][Next]_vars /\ WF_vars(RunCached)

-----------------------------------------------------------------------------
Types ==
  /\ mem \in [Words -> Ops]
  /\ buf \in Seq(Block) /\ size \in 0 .. Len(buf)
  /\ lookup \in [0 .. LookupSize - 1 -> [addr : Words, slot : 0 .. Len(buf)]]
  /\ pending \subseteq Words /\ todo \subseteq Words
  /\ fullClear \in BOOLEAN /\ hasWork \in BOOLEAN
  /\ phase \in Phases
  /\ pc \in VA /\ dst \in VA \cup {NoDst}
  /\ cur \in 0 .. Len(buf) /\ i \in Nat \ {0}
  /\ seen \in [Words -> SUBSET Ops] /\ posted \subseteq Words

\* entries_ has kCacheBlockMaxLength places: a full body and its delay slot
\* fit (OnNewBlock lines 1398-1421).
BlockFits == \A k \in Live : Len(buf[k].ops) \in 1 .. MaxLen

\* Every variable has its type, and no block is longer than its array.
TypeOK == Types /\ BlockFits

\* No two live blocks have the same start: cache_ is a map (lines 85-103, 161-198).
KeysUnique ==
  \A j, k \in Live : buf[j].start = buf[k].start => j = k

\* A lookup slot that is not null leads to the contents of the live block
\* whose start is the slot's address.  Erasing moves blocks inside the vector,
\* so the pointer may lie beyond the live slots: what it finds there is still
\* that block (GetBlock lines 60-63, ExecuteCacheClear lines 183-188).
LookupSound ==
  \A x \in DOMAIN lookup :
    lookup[x].slot # NoBlock =>
      \E k \in Live :
        /\ buf[k] = buf[lookup[x].slot]
        /\ buf[k].start = lookup[x].addr
        /\ Index(buf[k].start) = x

\* RunCached asks only HasPendingWork: the flag is up exactly when a request
\* is outstanding (lines 109-118, 145-158, 161-197).
WorkFlag == hasWork <=> fullClear \/ pending # {}

\* The entry about to run is the one for the word pc_ stands on, whichever
\* window the block was built through (RunCached lines 302-315).
HeldAtPc ==
  phase = "exec" =>
    i <= Len(buf[cur].ops) /\ Phys(pc) = buf[cur].start + i - 1

\* Every opcode of a live block is one its word has held since the word's cached
\* copies were last invalidated: no request that has been served left a stale copy
\* behind.  With HeldAtPc this is so of every opcode that is run.
Coherent ==
  \A k \in Live : \A w \in BlockWords(buf[k]) :
    buf[k].ops[w - buf[k].start + 1] \in seen[w]

\* "Block creation failed": the block OnNewBlock builds is the one GetBlock
\* looks for (RunCached lines 293-300).
NoPanic == phase # "panic"

\* ExecuteCacheClear leaves no block that overlaps a line whose invalidation
\* was requested.
RequestedAreGone ==
  [][posted # {} /\ posted' = {} =>
       \A k \in 1 .. size' : BlockWords(buf'[k]) \cap posted = {}]_vars

\* While its instructions run, a block stays where it is and as it is: the
\* requests those instructions make are only queued.
HeldBlockStable ==
  [][phase = "exec" /\ phase' = "exec" =>
       cur' = cur /\ buf'[cur] = buf[cur]]_vars

\* A queued request is carried out: the loop passes its head again.
WorkDone == hasWork ~> ~hasWork

\* The cache and its loop are an instruction cache: every fetch is one the
\* abstract cache allows, and every invalidation is served in the end.
Code == INSTANCE CodeMemory WITH
          fetch <- IF phase = "exec" THEN <<Phys(pc), Op>> ELSE <<>>
ImplementsCodeMemory == Code!Spec

-----------------------------------------------------------------------------
(* Code whose blocks are nested, so that the loop over pending_invalidations_ *)
(* erases the blocks that were asked for: conditions on the constants.        *)

Ends(w) == Kind[Prog[w]] # "plain"
Slot(w) == w > 0 /\ Kind[Prog[w - 1]] = "branch"

\* The last word OnNewBlock takes from a on, the delay slot apart; where the block ends.
LastOfBody(a, e) ==
  /\ a <= e /\ e <= a + MaxLen - 2
  /\ \A w \in Words : a <= w /\ w < e => ~Ends(w)
  /\ Ends(e) \/ e = a + MaxLen - 2
After(e) == IF Kind[Prog[e]] = "branch" THEN e + 2 ELSE e + 1

\* A delay slot at which nothing in S begins.
FreeSlot(S, w) == Slot(w) /\ \A va \in S : va.word # w

\* Blocks begin in S alone: at an entry, after a block, or, at a word reached through
\* two windows, after its first instruction.  Those that overlap are nested.  No branch
\* is in a delay slot, and patches keep the kind of a word that may begin or end a block.
WellPlaced(S) ==
  /\ Entry \subseteq S /\ S \subseteq VA
  /\ \A va \in S : \A e \in Words :
       LastOfBody(va.word, e) /\ After(e) \in Words
         => [seg |-> va.seg, word |-> After(e)] \in S
  /\ \A va, vb \in S :
       va.word = vb.word /\ va # vb /\ Plus(va, 1) \in VA => Plus(va, 1) \in S
  /\ \A va, vb \in S : \A e, f \in Words :
       /\ LastOfBody(va.word, e) /\ LastOfBody(vb.word, f)
       /\ va.word <= vb.word /\ vb.word < After(e)
       => After(f) <= After(e)
  /\ \A w \in Words : Slot(w) => Kind[Prog[w]] # "branch"
  /\ \A p \in Patches :
       IF FreeSlot(S, p[1]) THEN Kind[p[2]] # "branch"
                            ELSE Kind[p[2]] = Kind[Prog[p[1]]]

\* Ordinary code: one window, a branch or trap in the length of every block, patches
\* that keep the kind of a word, and neither an entry nor a branch in a delay slot.
PlainCode ==
  /\ \A s, t \in Segs : s = t
  /\ \A p \in Patches : Kind[p[2]] = Kind[Prog[p[1]]]
  /\ \A a \in Words : \E n \in 1 .. MaxLen - 1 : a + n - 1 \in Words /\ Ends(a + n - 1)
  /\ \A va \in Entry : ~Slot(va.word)
  /\ \A w \in Words : Slot(w) => Kind[Prog[w]] # "branch"
=============================================================================
