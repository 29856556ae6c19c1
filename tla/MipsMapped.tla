----------------------------- MODULE MipsMapped -----------------------------
(***************************************************************************)
(* The block cache under the TLB: user code that runs in mapped pages.     *)
(* Blocks are kept by the physical address of their start, but hold the    *)
(* virtual addresses, and the code, they were decoded from; GetBlock,      *)
(* InsertBlock and InvalidateBlockRange translate one address each.        *)
(*                                                                         *)
(* MipsTlb is reduced to the function from pages to frames that            *)
(* TranslatesAsAsked shows it to be, MipsCache to the map from starts to   *)
(* blocks that LookupSound and HeldBlockStable show it to be.  The kernel  *)
(* runs in kseg0; of its code only what it does to the TLB, to memory and  *)
(* to the cache is here.                                                   *)
(***************************************************************************)
EXTENDS Integers, Sequences

CONSTANTS
  PageWords,    \* words in a page (1024 in the code)
  LineWords,    \* words of an instruction-cache line (8)
  Frames,       \* number of frames of physical memory the guest uses
  VPages,       \* number of mapped pages
  MaxLen,       \* kCacheBlockMaxLength
  Ops, Kind,    \* opcodes, and what they do to the control flow
  Prog,         \* the code memory holds at first
  Patches,      \* <<word, opcode>>: what the kernel stores into code
  Entry         \* where the kernel returns to, and user code jumps to

None == -1      \* no frame; no delay slot pending
Kernel == -2    \* pc_ is in the kernel

Words  == 0 .. Frames * PageWords - 1
VWords == 0 .. VPages * PageWords - 1

ASSUME MappedAssumption ==
  /\ PageWords \in Nat \ {0} /\ LineWords \in Nat \ {0}
  /\ PageWords % LineWords = 0     \* a page is whole lines
  /\ Frames \in Nat \ {0} /\ VPages \in Nat \ {0}
  /\ MaxLen \in Nat /\ MaxLen >= 2
  /\ Kind \in [Ops -> {"plain", "branch", "trap"}]
  /\ Prog \in [Words -> Ops] /\ Patches \subseteq Words \X Ops
  /\ Entry \subseteq VWords

VARIABLES
  mem,      \* physical memory, one opcode per word
  page,     \* the TLB: the frame each page is mapped to, or None
  cache,    \* cache_: start |-> the block that starts there
  pending,  \* pending_invalidations_
  phase,    \* where RunCached is
  pc, dst,  \* pc_; branch_delay_dst_ while has_branch_delay_, else None
  cur, i,   \* the block being run and the entry to run next
  first,    \* history: pc_ when the block was looked up
  missed,   \* the address whose Fetch raised a TLB exception, or None
  seen,     \* history: per word, the opcodes stored since its cached copies
            \* were last invalidated, its current one among them
  posted,   \* history: words whose invalidation has been requested
  strayed   \* history: ExecuteCacheClear has erased a block it was not to

turn == <<cur, i, first>>
history == <<seen, posted, strayed>>
vars == <<mem, page, cache, pending, phase, pc, dst, turn, missed, history>>

\* What OnNewBlock makes: the virtual address of the first instruction, and the
\* opcodes.  Entry k has the address va + k - 1.
Block == [va : VWords, ops : Seq(Ops)]
NoBlock == [va |-> 0, ops |-> <<>>]

Init ==
  /\ mem = Prog
  /\ page = [v \in 0 .. VPages - 1 |-> None]
  /\ cache = [a \in {} |-> NoBlock] /\ pending = {}
  /\ phase = "head"
  /\ pc = Kernel /\ dst = None
  /\ cur = NoBlock /\ i = 1 /\ first = 0
  /\ missed = None
  /\ seen = [w \in Words |-> {mem[w]}] /\ posted = {} /\ strayed = FALSE

-----------------------------------------------------------------------------
PageOf(a) == a \div PageWords

Mapped(a) == a \in VWords /\ page[PageOf(a)] # None
Translate(a) == page[PageOf(a)] * PageWords + (a % PageWords)

\* The head of the loop: CheckInterrupt may enter the kernel.
Interrupt ==
  /\ phase = "head" /\ pc # Kernel
  /\ pc' = Kernel /\ dst' = None
  /\ UNCHANGED <<mem, page, cache, pending, phase, turn, missed, history>>

Contains(s, a) == s <= a /\ a < s + Len(cache[s].ops)
Erase(s) == cache' = [t \in DOMAIN cache \ {s} |-> cache[t]]

\* ExecuteCacheClear, one round: in ascending order, one of the blocks that
\* contain the address (which one depends on the order of the map's vector).
ClearOne ==
  /\ phase \in {"head", "clear"}
  /\ \E a \in pending :
       /\ \A c \in pending : a <= c
       /\ pending' = pending \ {a}
       /\ \/ \E s \in DOMAIN cache :
               /\ Contains(s, a) /\ Erase(s)
               /\ strayed' = (strayed \/ s # a)
          \/ (\A s \in DOMAIN cache : ~Contains(s, a)) /\ UNCHANGED <<cache, strayed>>
  /\ phase' = "clear"
  /\ UNCHANGED <<mem, page, pc, dst, turn, missed, seen, posted>>

Turn ==
  /\ phase \in {"head", "clear"} /\ pending = {}
  /\ phase' = IF pc = Kernel THEN "kernel" ELSE "get"
  /\ seen' = [w \in Words |-> IF w \in posted THEN {mem[w]} ELSE seen[w]]
  /\ posted' = {}
  /\ UNCHANGED <<mem, page, cache, pending, pc, dst, turn, missed, strayed>>

-----------------------------------------------------------------------------
(* The kernel, in kseg0. *)

\* TLBWI or TLBWR.
MapPage ==
  /\ phase = "kernel"
  /\ \E v \in 0 .. VPages - 1, f \in 0 .. Frames - 1 \cup {None} :
       page' = [page EXCEPT ![v] = f]
  /\ UNCHANGED <<mem, cache, pending, phase, pc, dst, turn, missed, history>>

StoreCode ==
  /\ phase = "kernel"
  /\ \E p \in Patches :
       /\ mem' = [mem EXCEPT ![p[1]] = p[2]]
       /\ seen' = [seen EXCEPT ![p[1]] = @ \cup {p[2]}]
  /\ UNCHANGED <<page, cache, pending, phase, pc, dst, turn, missed, posted, strayed>>

\* InvalidateBlockRange, once its argument is translated.
Overlapping(lo) ==
  {s \in DOMAIN cache : s < lo + LineWords /\ s + Len(cache[s].ops) > lo}
Invalidate(lo) ==
  /\ pending' = pending \cup Overlapping(lo)
  /\ posted' = posted \cup lo .. lo + LineWords - 1

IsLine(a) == a % LineWords = 0

\* Variant: the address of the line is not translated.
CacheMapped_Virtual ==
  /\ phase = "kernel"
  /\ \E a \in VWords :
       /\ IsLine(a) /\ Mapped(a)
       /\ pending' = pending \cup Overlapping(a)
       /\ posted' = posted \cup Translate(a) .. Translate(a) + LineWords - 1
  /\ UNCHANGED <<mem, page, cache, phase, pc, dst, turn, missed, seen, strayed>>

\* CACHE on a line named by a mapped address, or by its address in kseg0.  On an
\* address that is not mapped InvalidateBlockRange returns, and nothing changes.
CacheMapped ==
  /\ phase = "kernel"
  /\ \E a \in VWords : IsLine(a) /\ Mapped(a) /\ Invalidate(Translate(a))
  /\ UNCHANGED <<mem, page, cache, phase, pc, dst, turn, missed, seen, strayed>>

CacheUnmapped ==
  /\ phase = "kernel"
  /\ \E w \in Words : IsLine(w) /\ Invalidate(w)
  /\ UNCHANGED <<mem, page, cache, phase, pc, dst, turn, missed, seen, strayed>>

\* The end of a block of the kernel, which may return to user code.
KernelTurn ==
  /\ phase = "kernel"
  /\ phase' = "head"
  /\ pc' \in Entry \cup {Kernel}
  /\ UNCHANGED <<mem, page, cache, pending, dst, turn, missed, history>>

-----------------------------------------------------------------------------
(* GetBlock(pc_) and OnNewBlock(pc_). *)

Hit == Mapped(pc) /\ Translate(pc) \in DOMAIN cache

GetBlock ==
  /\ phase = "get" /\ Hit
  /\ phase' = "exec"
  /\ cur' = cache[Translate(pc)] /\ i' = 1 /\ first' = pc
  /\ UNCHANGED <<mem, page, cache, pending, pc, dst, missed, history>>

Fetched(a) == mem[Translate(a)]

\* Variants: decoding goes on past branches; the body may fill entries_.
BodyEnds_Straight(a, n) == n = MaxLen - 1
BodyEnds_FullLength(a, n) == Kind[Fetched(a + n - 1)] # "plain" \/ n = MaxLen

\* The body is n instructions long; all but the last are fetched before it.
BodyEnds(a, n) == Kind[Fetched(a + n - 1)] # "plain" \/ n = MaxLen - 1

BodyReaches(a, n) ==
  \A k \in 1 .. n - 1 : Mapped(a + k - 1) /\ ~BodyEnds(a, k)

\* How many instructions are fetched for a body of n.
Fetches(a, n) == IF Kind[Fetched(a + n - 1)] = "branch" THEN n + 1 ELSE n

OnNewBlock ==
  /\ phase = "get" /\ ~Hit
  /\ \E n \in 1 .. MaxLen :
       /\ BodyReaches(pc, n) /\ Mapped(pc + n - 1) /\ BodyEnds(pc, n)
       /\ LET len == Fetches(pc, n) IN
          /\ Mapped(pc + len - 1)
          /\ cache' = [s \in DOMAIN cache \cup {Translate(pc)} |->
                         IF s # Translate(pc) THEN cache[s]
                         ELSE [va |-> pc, ops |-> [k \in 1 .. len |-> Fetched(pc + k - 1)]]]
  /\ UNCHANGED <<mem, page, pending, phase, pc, dst, turn, missed, history>>

\* A Fetch on the way raises a TLB exception, and TriggerException panics.
DecodeMisses ==
  /\ phase = "get" /\ ~Hit
  /\ \E n \in 1 .. MaxLen :
       /\ BodyReaches(pc, n)
       /\ \/ ~Mapped(pc + n - 1) /\ missed' = pc + n - 1
          \/ /\ Mapped(pc + n - 1) /\ BodyEnds(pc, n)
             /\ Fetches(pc, n) = n + 1 /\ ~Mapped(pc + n) /\ missed' = pc + n
  /\ phase' = "panic"
  /\ UNCHANGED <<mem, page, cache, pending, pc, dst, turn, history>>

-----------------------------------------------------------------------------
(* The body of RunCached. *)

Op == cur.ops[i]

\* Variant: the block goes on wherever pc_ is.
NextEntry_Blind ==
  IF i < Len(cur.ops)
  THEN i' = i + 1 /\ UNCHANGED <<phase, cur, first>>
  ELSE phase' = "head" /\ i' = 1 /\ cur' = NoBlock /\ first' = 0

\* The block goes on only if the address of its next entry is pc_.
NextEntry ==
  IF i < Len(cur.ops) /\ pc' = cur.va + i
  THEN i' = i + 1 /\ UNCHANGED <<phase, cur, first>>
  ELSE phase' = "head" /\ i' = 1 /\ cur' = NoBlock /\ first' = 0

NextPc == IF dst = None THEN pc + 1 ELSE dst

\* Overflow, an address that is not aligned, a coprocessor that is not usable: any
\* instruction may raise an exception, which leaves the block for the kernel.
Exception == pc' = Kernel /\ dst' = None

ExecPlain ==
  /\ phase = "exec" /\ Kind[Op] = "plain"
  /\ (pc' = NextPc /\ dst' = None) \/ Exception
  /\ NextEntry
  /\ UNCHANGED <<mem, page, cache, pending, missed, history>>

\* Taken or not taken; a likely branch not taken skips its slot, also when it is in
\* a delay slot itself; BC1 may find coprocessor 1 unusable.
ExecBranch ==
  /\ phase = "exec" /\ Kind[Op] = "branch"
  /\ \/ pc' = NextPc /\ dst' \in Entry \cup {None}
     \/ pc' = pc + 2 /\ dst' = None
     \/ Exception
  /\ NextEntry
  /\ UNCHANGED <<mem, page, cache, pending, missed, history>>

\* SYSCALL and BREAK.
ExecTrap ==
  /\ phase = "exec" /\ Kind[Op] = "trap"
  /\ Exception
  /\ NextEntry
  /\ UNCHANGED <<mem, page, cache, pending, missed, history>>

Next ==
  \/ Interrupt \/ ClearOne \/ Turn
  \/ MapPage \/ StoreCode \/ CacheMapped \/ CacheUnmapped \/ KernelTurn
  \/ GetBlock \/ OnNewBlock \/ DecodeMisses
  \/ ExecPlain \/ ExecBranch \/ ExecTrap

Spec == Init /\ [][Next]_vars

-----------------------------------------------------------------------------
TypeOK ==
  /\ mem \in [Words -> Ops]
  /\ page \in [0 .. VPages - 1 -> 0 .. Frames - 1 \cup {None}]
  /\ DOMAIN cache \subseteq Words
  /\ \A s \in DOMAIN cache :
       cache[s] \in Block /\ Len(cache[s].ops) \in 1 .. MaxLen
  /\ pending \subseteq Words
  /\ phase \in {"head", "clear", "kernel", "get", "exec", "panic"}
  /\ pc \in Nat \cup {Kernel} /\ dst \in Entry \cup {None}
  /\ cur \in Block /\ i \in Nat \ {0} /\ first \in Nat
  /\ missed \in Nat \cup {None}
  /\ seen \in [Words -> SUBSET Ops] /\ posted \subseteq Words
  /\ strayed \in BOOLEAN

\* The entries of a block that lie in the page of its start.
InStartPage(b) == {k \in 1 .. Len(b.ops) : PageOf(b.va + k - 1) = PageOf(b.va)}

\* However pages are mapped and mapped again, a block's entries in its first page
\* are copies of the words that follow its physical start, never staler than the
\* last invalidation by either name of the line (InsertBlock lines 91-103,
\* InvalidateBlockRange lines 138-158).  Entries of the next page are not: their
\* words are elsewhere, and no invalidation of them finds the block.  The other
\* reason for a stale copy is an ExecuteCacheClear that erased a block around a
\* queued start in place of the one that starts there (lines 177-190).
StartPageCoherent ==
  ~strayed =>
    \A s \in DOMAIN cache : \A k \in InStartPage(cache[s]) :
      s + k - 1 \in Words /\ cache[s].ops[k] \in seen[s + k - 1]

\* A turn that has not left its page runs what is mapped there, also when the
\* block was built through another page of the same frame, or for another frame
\* of the same page (GetBlock lines 47-72, RunCached lines 302-315).
RunsWhatIsMapped ==
  /\ phase = "exec" /\ ~strayed
  /\ PageOf(pc) = PageOf(first)
  /\ i = 1 \/ PageOf(pc) = PageOf(cur.va)
  => Mapped(pc) /\ Op \in seen[Translate(pc)]

\* The TLB exception that decoding ahead may raise is one that straight-line
\* execution from pc_ would run into: no branch or trap lies before it, unless it
\* is in the delay slot (OnNewBlock lines 1398-1423).
MissIsAhead ==
  phase = "panic" =>
    /\ ~Mapped(missed)
    /\ \A a \in pc .. missed - 1 :
         /\ Mapped(a)
         /\ Kind[Fetched(a)] = "plain" \/ (Kind[Fetched(a)] = "branch" /\ a = missed - 1)
=============================================================================
