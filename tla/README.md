# A TLA+ model of ngmips

ngmips is a MIPS emulator core in C++. One class template, `MipsBase`, is
instantiated twice: `N64Mips` (64 bits, COP0, a TLB) and `RspMips` (32 bits, no
COP0, no TLB). A host calls `Run(cycle)`; the core runs instructions until the
budget is spent, either one by one (`RunInst`) or from a cache of decoded blocks
(`RunCached`). The program is sequential, but four actors meet in it: the host
between two `Run`s, the bus with its interrupt line and its devices, the guest
program, and time. Most of what can go wrong is an unlucky order of their steps.

## Inventory

| Component | State | Operations | Talks to | What makes it correct |
|---|---|---|---|---|
| Block cache (`mips_cache.cpp`) | `cache_` (a hash map over one vector), `lookup_cache_`, `pending_invalidations_`, `full_clear_queued_`, `has_pending_work_` | `GetBlock`, `InsertBlock`, `InvalidateBlockRange`, `QueueCacheClear`, `ExecuteCacheClear`, `Reset` | TLB (keys are physical), `RunCached`, CACHE | lookup pointers never mislead; no request is lost; no fetch older than the last invalidation |
| Cached loop (`RunCached`, `OnNewBlock`) | the block being run, `pc_`, `interrupt_poll_counter_` | one turn: poll, clear, get or build a block, run it | cache, bus, COP0 | the entry run is the one at `pc_`; the block is not pulled away |
| Interpreter and exceptions (`Run`, `RunInst`, `TriggerException`, `CheckInterrupt`, `CheckCompare`) | `pc_`, `next_pc_`, `has_branch_delay_`, `branch_delay_dst_`, Status, Cause, EPC, ErrorEPC | one instruction; a poll | bus interrupt line, COP0 | interrupts are invisible to the guest, also in delay slots; every one is served |
| Time and timer (`mips_cop0.cpp`, the loops) | `cycle_spent_total_`, `cycle_spent_`, `cpi_counter_`, Count's origin, Compare, the last look | charge, idle skip, halt; `GetCount`, `WriteCount`, `CheckCompareInterrupt` | the loops, interrupts | no time lost; a timer interrupt exactly when Count meets Compare; `Run` returns |
| TLB (`mips_tlb_normal.cpp`) and its COP0 registers | 32 entries; EntryHi, EntryLo0/1, PageMask, Index, Wired, BadVAddr | translate, write, read, probe | every access, the cache | a translation is what the guest asked for; address spaces are kept apart |
| Loads and stores | memory, registers, `use_big_endian_` | aligned and unaligned ones | bus, TLB | the halves of an unaligned access fit together |
| Integer arithmetic | general registers, HI, LO | add, subtract, logic, compare, shift, multiply, divide, moves of HI and LO | exceptions (overflow) | overflow traps exactly when it should; exact products and quotients; 32-bit results stay sign-extended |
| FPU (`mips_fpu.cpp`) | 32 registers, FCR31 with the condition bit | moves, loads, stores, arithmetic, conversion, comparison, BC1 | Status.FR and CU1 | the two views of the registers agree; rounding and saturation; branches see the last comparison |
| Decoder (`mips_decode.cpp`) | none | `Decode`, `IsInstBranch`, `DoesInstHaveDelaySlot`, disassembler | both loops | the tables agree |
| Load delay, hooks, PlayStation side, logging | `delayed_load_op_`, hooks, log | - | - | compiled out, or without effect on the machine |

There are no threads. The behaviours that are hard to test are the order in
which interrupts, halts, invalidations and host calls meet the loop; values that
are cached and can be stale (decoded blocks, lookup pointers, Cause.IP, the last
look at Compare); limits (block length, the fraction of a cycle, the wrap of
Count, page masks); and the long legal sequences that lead to a bad state.
`hazards` in `PROJECT.json` lists them line by line with the properties that
catch them, or the reason that none does yet.

## Modules

| Module | Models | Refines |
|---|---|---|
| `MipsCache` | block cache, `RunCached`, `OnNewBlock`, CACHE, stores into code | `CodeMemory` |
| `CodeMemory` | abstract: an instruction cache without coherence | |
| `MipsCpu` | the uncached interpreter, delay slots, exceptions, interrupts | `UserProgram` |
| `UserProgram` | abstract: a guest program that never sees an interrupt | |
| `MipsTimer` | cycles, Count and Compare under both loops | |
| `MipsTlb` | TLB, its COP0 registers and commands | |
| `MipsMapped` | the block cache over mapped pages: `MipsCache` and `MipsTlb` composed, each reduced to what it was shown to promise | |
| `MipsLoadStore` | loads and stores, aligned and not, on both byte orders | |
| `MipsFpu` | the FPU's registers, conversions, comparisons, and the instructions of coprocessor 1 | |
| `MipsAlu` | integer instructions, HI and LO | |
| `MipsCacheProofs`, `MipsCpuProofs`, `MipsTimerProofs`, `MipsTlbProofs`, `MipsLoadStoreProofs`, `MipsFpuProofs`, `MipsMappedProofs`, `MipsAluProofs` | theorems | |
| `MC...` | values of the constants for TLC | |

The modules share no variables: each keeps the part of the machine its
properties are about and leaves the rest open. What is open appears as a
nondeterministic choice: in `MipsCache` any instruction, branches included, may
raise an exception and leave the block from its middle, and an interrupt may come
between two turns of the loop (what `MipsCpu` says about it is one of the choices); in
`MipsCpu` the timer may have fired at any poll (`MipsTimer` says when); in
`MipsTimer` an instruction is only what it does to the clock.

### MipsCache

Addresses are words. A virtual address is a word seen through a window (kseg0,
kseg1), as `GetBlock` masks the window off. `cache_` is modelled as the container
it is: values in one vector `buf`, erasing moves the last one into the hole, and a
pointer in `lookup_cache_` is a position in the vector; the slots beyond `size`
keep what they held. `RunCached` is split at the points where the code looks at
shared state: `Poll` (the exception an interrupt raises), `NoWork`/`ClearAll`/
`BeginClear`/`ClearOne`/`EndClear` (`ExecuteCacheClear`, one round of its loop per
step), `GetFromLookup`/`GetFromMap`/`GetMiss` (`GetBlock`, before and after
building), `OnNewBlock` (with `InsertBlock`), and one action per kind of
instruction. `NextEntry` is the test at the top of the block's loop. A branch may be
taken or not; it may raise Coprocessor Unusable instead, as BC1 does; and a likely one
may skip the word after it, also when it stands in a delay slot itself. A device may
call `QueueCacheClear` between two instructions of a block. Two history variables
carry the specification: `seen`, the opcodes a word has held since its copies
were last invalidated, and `posted`, the words whose invalidation was asked for.
Mapped segments are in `MipsMapped`.

### MipsCpu

The guest is a constant program; what an instruction computes is an arbitrary
function of the registers, and a branch's condition a set of them. The exception
functions take and return a record of the fields they touch, because `Run` calls
them one after another. `Run` may return after any instruction, so its poll may
come between any two. A branch may link (`LinkForJump`): it changes a register
before its slot, and when an interrupt makes it run again it must decide and write
alike, which `Repeatable` asks of the guest, as compilers do (a JALR whose two
registers are the same is not repeatable on any MIPS). The guest's kernel is two
instructions, `Serve` (it acknowledges what Cause shows, or steps over the system
call) and ERET; kernel and bus are external. `Restart` is the host's Reset followed
by SetPc, at any moment between two instructions. A branch that Reset forgot to
cancel would show as a jump in the new run. Hooks are left out.

### MipsTimer

`total` is `cycle_spent_total_`; Count is derived from it as in the code. The
cached loop charges a block when it is over (`EndBlock`), so instructions in a
block read a clock that stands still. With `Cached = FALSE` and `MaxLen = 1` the
same actions are `Run` and `RunInst`: the poll comes before the loop. The history
variable `due` says that Count has passed through Compare since the last look,
counted step by step; the code's interval arithmetic (`Crossed`) is checked
against it.

### MipsTlb

Addresses are counted in 4 KB pages and a page mask is a size; the masks of the
code become quotients. `asked` keeps what the guest wrote into each entry, and the
properties compare translations with it. A TLB exception ends the run
(`TriggerException` panics), which is why deadlock is not checked there. The draw
loop of Random is one step, since a rejected draw changes nothing; with Wired
above the last entry there is no such step.

### MipsMapped

User code runs in pages that the kernel maps, remaps and unmaps at will. `page` is
the function `TranslatesAsAsked` shows the TLB to be, `cache` the map from physical
starts to blocks that `LookupSound` and `HeldBlockStable` show `cache_` to be. What
is left of the two is what their meeting brings: `GetBlock`, `InsertBlock` and
`InvalidateBlockRange` translate one address, while a block holds the virtual
addresses it was decoded from. The kernel runs in kseg0 and is one phase here: TLB
writes, stores into code, CACHE by either name of a line, and the return to user
code. Any user instruction, branches included, may raise an exception
(`TriggerException`), which leaves the block for the kernel; the kernel may return to
any entry. A TLB exception of a load or store panics and ends the run. User code
stores no code and uses neither CACHE nor ERET: the kernel does.

The properties say what the code achieves and leave out three things that it does
not: the entries of a block beyond the page of its start (`InStartPage`),
whose words may be anywhere and which no invalidation finds; a block entered
through an alias that has left the page of its entry (`RunsWhatIsMapped`); and
what `strayed` records, an `ExecuteCacheClear` that erased a block around a queued
start (the subject of `cache_long_code`). A TLB exception while decoding panics,
so deadlock is not checked.

### MipsLoadStore

Memory and one register as bytes; every load and store is an action for every
address. `bigEndian` is `use_big_endian_`, chosen at the start: on a little-endian
bus the loops of the unaligned accesses keep their direction and change only their
number of rounds. `LeftInside` and `RightInside` keep the loops inside the memory of
the model. The run is bounded to two instructions (`MaxInsts`), which is what a pair
is; the model stops there, so deadlock is not checked.

### MipsFpu

A word is a number below `2 * Half`, a doubleword a pair of words; the number a
pattern means is a constant function, in quarters, so that halves and the values
beside them can be told apart. Arithmetic may compute anything (`Results`);
rounding, saturation, comparison, the two register views and FCR31 are computed as
in the code. Moves, loads, stores, control moves, every command, BC1, Status.FR and
CU1 are actions. The host's rounding mode is taken to be to nearest, as a C++
program finds it; where a branch on the condition leads is in `MipsCpu`. `panic`
records that a comparison that does not allow NaN has met one (`PANIC("FPU
EXCEPTION")`). PANIC raises SIGABRT, which ends the process unless the host handles
it; if its handler returns, the comparison goes on and writes the condition, as it
does in the model. `known` is history: for each half of a register the word last put
there, or `Open` where the architecture does not say what it holds, as in the upper
half of a register that took a 32-bit result with FR set. It is kept by the
architecture's rules for the two modes, not by the code's.

### MipsAlu

A word has `Bits` bits, a register twice as many. Each instruction is modelled with
the width it reads, computes and writes at. `Overflow*` are the sign tricks of the
code, compared in `TrapsIffOverflows` with the exact sum. `last` and `narrow` are
history: the last instruction with its operands, and whether only 32-bit
instructions on 32-bit values have run. With overflow the exception is only noted
(`ovf`); `MipsCpu` has what it does.

## Runs

| Run | Checks | Bounds, and why they are enough |
|---|---|---|
| `cache` | types and the length of blocks, `LookupSound`, `WorkFlag`, `HeldAtPc`, `Coherent`, `NoPanic`, `RequestedAreGone`, `HeldBlockStable` | Six words, blocks of three, a lookup cache of two slots (starts 0 and 4 collide), lines of three words. The program has a block cut at its maximal length, overlapping blocks with one end, a block across two lines, a word entered through both windows, and stores that change a delay slot and a trap. Up to four blocks are live: enough for an erased, a moved and a stale one at the same time. |
| `cache_refines` | `ImplementsCodeMemory`, `WorkDone` | Four words, one window: liveness on a smaller graph, with a patched branch target and a patched delay slot. |
| `cache_long_code` | `RequestedAreGone`, violated | Straight-line code of six words and blocks of three. |
| `mapped` | types and the length of blocks, `StartPageCoherent`, `RunsWhatIsMapped`, `MissIsAhead` | Two pages over two frames of four words, mapped in any way, lines of two words, blocks of three. Blocks cross from page to page and run out of the last one, with a delay slot and with straight-line code at the end of a page; the code one of them runs into is patched from a trap into a plain instruction. |
| `cpu` | types, `NonBranchOnBd`, `KernelSeesReason`, `Transparent`, `BusServed` | A guest with every kind of instruction, linking branches taken and not; registers with three values; all three interrupt lines; a restart at any point. |
| `cpu_slot_trap` | `SlotExceptionReturnsToBranch`, violated | A system call in a delay slot. |
| `timer` | types, `TimeConserved`, `RunReturnsElapsed`, `NeverAhead`, `RaisedIfMet`, `RunEnds` | The default cost of 384/256 cycles, so that fractions occur; blocks of two; a poll every second turn; a Count of two bits and Runs that start up to cycle 6 (`Horizon`): Count has wrapped at some looks, and no two looks are more than one turn of Count apart, as `Window` in the proof wants. With the constants of the code that is no restriction (`TimerCorrectInTheCode`). An idle skip of 3 cycles moves Count over Compare. |
| `tlb` | types, `TranslatesAsAsked`, `ProbeFindsMapped` | Two entries, one of them possibly wired, two ASIDs, global and local halves, read-only halves, two page sizes, and pages at both sides of every boundary. |
| `tlb_entry_hi` | `EntryHiNamesFault`, violated | A page above the 28th bit. |
| `load_store` | types, `UnalignedLoad`, `UnalignedStore`, `HalfRoundTrip` | Sixteen bytes, so that a doubleword crosses its alignment at all seven offsets; bytes all different, half of them with the sign bit; both byte orders. |
| `fpu` | types, `ConvertsRight`, `ConditionIsLast`, `ReadsLastWritten` | Words of four bits, four registers. The sixteen singles and the doubles lie on halves, just inside and just outside the range of either integer, and NaN. Two instructions (`MaxInsts`): every half of every register is known at the start, in either mode, so a write of any width and a change of FR, or two writes, are enough for a half to be misplaced. The other properties are about one instruction. |
| `alu` | types, `TrapsIffOverflows`, `DivMulExact`, `Canonical` | Words of four bits, three registers. The initial states have every combination of the ends of both widths, their neighbours and doublewords that are not words; an instruction keeps nothing but the registers, HI and LO, so one instruction (`MaxInsts`) from every such state is enough. |

The bounds are constants of the modules: `PhysWords`, `MaxLen`, `LookupSize`,
`Horizon`, `CountMod`, `MaxInsts`, `Entries`, `Frames`, `VPages`, `Half`, `Bits`.
Deadlock is checked in the runs of `MipsCache`, `MipsCpu` and `MipsTimer`. The others
may stop: at a panic (`MipsTlb`, `MipsMapped`) or at `MaxInsts`.

### Fairness

`MipsCache` and `MipsTimer` assume that a `Run` that has begun goes on
(`WF(RunCached)`, `WF(Running)`): the loops are sequential code that waits for
nothing. In `MipsCache` it also says that the host calls `Run` again.
`MipsCpu` assumes that the host keeps calling `Run` and that each call polls and
runs at least one instruction (`WF(Poll)`, `WF(RunInst)`). Nothing is assumed of
the bus, of the timer or of host calls other than `Run`. A guest that loops on
system calls, a guest that keeps interrupts disabled and a host that restarts it
again and again can keep every poll at a moment when the interrupt is masked, and
no fairness the code justifies forbids that: `BusServed` says that a raised line is
served unless one of these goes on for ever (a reset disables interrupts, too).

### What the three violations show

- `cache_long_code`: `InvalidateBlockRange` queues the starts of all overlapping
  blocks, but `ExecuteCacheClear` (line 182) erases for each start the first block
  that contains it. With blocks 0-1 and 1-2 and a request that covers both, start 1
  lies inside the first block, which is erased in its place; the block queued
  survives with the old code. The comment in `InstCache` promises that the line is
  invalidated. In the program of
  the run `cache` overlapping blocks have one end and the property holds.
- `cpu_slot_trap`: `RunInst` clears `has_branch_delay_` before it calls the handler,
  so the code in `TriggerException` that sets BD and EPC for a delay slot is
  reached by interrupts only. A system call in a slot returns to the slot.
- `tlb_entry_hi`: the mask `0xFFFE000` in `InformTlbException` has seven digits.

## Proofs

`tlapm` proves these for every value of the constants that the assumptions of the
modules allow.

**MipsCacheProofs** (`SizeAssumption`, `ProgramAssumption`, `LastWordAssumption`).
`LookupSound` is not inductive: erasing the block at a position is harmless only if
no other live block has its start. `IInv` adds that the keys of the map are unique
(`KeysUnique`), that no full clear is queued while single invalidations are
processed (`ClearPhase`), that the block held is inside the vector and its entry the
one at `pc_` (`Held`), that none is held between blocks (`Released`), that after
`OnNewBlock` the map has the block (`Built`), that blocks left behind fit too
(`AllFit`), and that memory ends in a trap (`LastTrap`, so that decoding ends). Each
part has a lemma with one case per action. From it: `TypeCorrect` (the length of
blocks included), `LookupCorrect`, `FlagCorrect`, `HeldCorrect`, `NoPanicCorrect` and,
as a property of steps, `HeldBlockCorrect`.

Coherence does not hold in every run, because `ExecuteCacheClear` erases the first
block around a queued start, which need not be the one that starts there. The theorems
name the condition that this leaves: `Nested`, that no live block starts inside another
and reaches beyond its end. Blocks that share words usually end at the same branch, and
then it holds; it is lost when a block is cut at `entries_` (the run
`cache_long_code`), and when code is entered in a delay slot. In the instance of the
run `cache` every reachable state satisfies it. Under `[]Nested` the
inductive invariant is `CInv`: memory is in its own history (`MemorySeen`), nothing is
outstanding while a block is looked for (`Idle`), a block that holds a requested word
is queued or still to be visited (`PostedQueued`), a queued block is queued with all
that contain its start (`PendingClosed`), one the clearing loop has passed is gone
(`StillToDo`), and the block that runs is live (`HeldLive`). The last two do the work:
erasing an overlapping block in place of the queued one is harmless when it is queued
itself and covers all the other's words. It gives `CoherentIfNested`,
`RequestsServedIfNested` and
`IsInstructionCacheIfNested`, the safety part of `ImplementsCodeMemory`: every step
maps to a step of `CodeMemory` or a stutter.

`WellPlaced(S)` is a condition on the constants alone from which `Nested` follows in
every run. `S` is a set of places where blocks may begin: it has every entry, the place
after each of its blocks, and, for a word reached through two windows, the place after
it, since a block that was built through the other window is left after its first
instruction. The condition is that blocks from `S` that overlap are nested, that no
branch is in a delay slot, and that patches do not move the ends of blocks. Then every
block begins in `S` and ends where the program says (`Whole`), every block is left at a
place in `S` (`InPlace`), and `PlacedCodeIsCoherent`, `PlacedCodeIsServed` and
`PlacedCodeHasInstructionCache` need no hypothesis about the run. `PlainCode` describes
ordinary code: one window, a branch or trap at least once in the length of a block,
patches that keep the kind of a word, and neither an entry nor a branch in a delay slot;
`PlainIsPlaced` shows that it is well placed, with every word but the delay slots in
`S`. The code of the run `cache` is well placed and that of `cache_refines` is plain:
`MCMipsCache` assumes so, and TLC evaluates it (`CodeIsPlaced`). That of
`cache_long_code` is neither.

In place of liveness, `RequestsAreServedInTime` bounds how long a request waits. `Wait`
counts the steps that are left at most, the rest of the block, the turn of the loop and
one round for each queued start, twice, since `QueueCacheClear` may come in between
once; while `has_pending_work_` is up every step lowers it. It starts at most at
`2 * (PhysWords + MaxLen + 4) + 1`. Where `WorkDone` says that requests are served in
the end if the guest goes on, this says when, and that later requests do not put it off.

**MipsCpuProofs** (`CodeAssumption`, and for a set `H` of addresses
`WellBehaved(H)`: the user program stays in `H`, every branch may be repeated and has
a plain instruction in its slot, and the kernel is `Serve` and ERET). In user mode a
pending delay slot belongs to a branch before it whose condition still holds
(`InSlot`); in the kernel EPC is in `H` and no slot is pending (`InKernel`); the
reason of an interrupt is in Cause and still pending (`Reason`). From the invariant
come `TypesAreRight`, `SlotsFollowBranches` and `ReasonIsSeen`.
`InterruptsTransparent` then maps each step of the machine to a step of
`UserProgram` or a stutter: a taken branch waits for its slot, an interrupt in the
slot goes back to the branch and repeats its link, and a restart by the host is one
of the user program.

**MipsTimerProofs** (`TimerAssumption`; both values of `Cached`). `IInv` is the
conjunction of the four invariants and of `Elapsed`, which says where `Run` is and
how much of its budget has passed. `CrossedIsStepwise` shows that the modular test
equals counting step by step when at most one turn lies between two looks. With
`DueInv`, which ties `due` to the steps counted since the last look, it gives
`TimerCorrect`, under the hypothesis `[]Window` that looks are at most a turn apart.
`TimerCorrectInShortRuns` replaces that hypothesis by one on the constants,
`ShortRuns(M)` for budgets up to `M`: with the cached interpreter `PollInterval` turns of
the loop fit into a turn of Count, without it one Run. The invariant is `Looked`: in
`RunCached` the poll counter counts the turns since the last look, also from one Run to
the next, and a turn takes at most `LongestTurn(M)` cycles, a block with an idle skip at
each instruction or the whole budget of a halted core; `Run` looks when it begins, and
what passes from there is what it has spent. `TimerCorrectInTheCode` checks the numbers:
with the constants of the code `ShortRuns` holds for every budget that fits an `int` and
every cost of an instruction that `cpi_`, a `uint16_t`, can hold.

`RunsAreBounded` is `RunEnds` without fairness: `Rank` is a natural number that starts at
most at `(MaxLen + 4) * (256 * budget + 1)` and goes down in every step of a Run, by the
cycles that a block of one instruction or more is charged (`ChargeLeft`) and, between
charges, by the place in the loop. That the next step is taken is all that is left to
fairness.

**MipsTlbProofs** (`TlbAssumption`: any number of entries, any sizes of pages of
which each is a multiple of the base page). What `SetTlbEntry` keeps is the inductive
part (`Made`): every entry is the one asked for with G normalised, and every pair of
pages begins at an even one (`EvenPairs`), without which the bit that chooses the half
would not be the parity of the page. Given that, `TranslationsAreRight` and
`ProbesAreRight` are arithmetic: an address lies in a pair exactly when the divided
addresses agree, and the first match is the least element of the set of matches.

**MipsLoadStoreProofs** (`MemoryAssumption`: any size of memory, either byte order).
The properties are about two instructions in a row, so the invariant says what the
first has left: after a half load the register holds the bytes of its part
(`Loaded`), after a half store memory holds those of the register and is else as
before (`Scattered`). `Cover` shows that the two loops of a pair leave no byte out,
big-endian; where they overlap both give the same byte.

**MipsFpuProofs** (`FpuAssumption`: any width of a word, any meaning of its
patterns). Types and `ConditionIsLast` are inductive together; the eight expressions
of `compare` are shown to be the architecture's predicate for all pairs of operands.
`ConvertsRight` needs no invariant beyond the types: each rounding is a fact about a
number and its two neighbours, proved once for all numbers, and saturation does not
disturb it. `ReadsAreLastWritten` rests on an invariant of its own (`Recalls`): each half
of each physical register holds the word `known` has for it, or `known` leaves it open,
also for the odd registers that cannot be reached while FR is clear and come back
unchanged when it is set. `SingleRecalled` and `DoubleRecalled` show that a write of either width
in either mode keeps it, for any number of instructions and changes of FR.

**MipsMappedProofs** (`MappedAssumption`: any number of pages and frames, a page being
whole lines, without which a line could reach into two frames). A block starts as far
into its frame as into its page (`InStep`), so that the words of its first page follow
its physical start and a line's invalidation by either name finds it (`Queued`);
requests are made in the kernel and served before user code goes on (`Quiet`), and the
block that runs is the one kept for the frame of its first address (`Held`). From the
invariant come `TypesAreRight`, `StartPagesAreCoherent`, `MappedCodeRuns` and
`MissesAreAhead`. The two properties about contents are stated, here as in the runs,
for a cache from which the clearing loop has erased no block in place of another.

**MipsAluProofs** (`AluAssumption`: any width of a word, with immediate operands
narrower than it; `PowerAssumption` says only that `Pow` is the power of two). Each
property is about the instruction that ran, except `Canonical`, which leans on the
state before; the four together are inductive. `TrapsAreExact` comes from
`AddOverflow` and `SubOverflow`, that the two tests of sign bits tell the sums out of
range; `HiLoIsExact` from the bounds on the upper half of a product and from the
uniqueness of quotient and remainder, with the division of the least number by -1 and
division by zero apart. `WordsStayExtended` needs that logic on doublewords, defined
bit by bit, keeps extended words: `CanonBits` shows that a doubleword is one exactly
when the bits of its upper half repeat the sign of the lower, by induction on powers
(in the form of a least counterexample).

**Only model-checked**: liveness (`WorkDone`, `BusServed`, `RunEnds`, the fairness of
`CodeMemory` and so that part of `ImplementsCodeMemory`), which is out of the prover's
reach, beyond the bounds above. Coherence is not claimed for code that is not
`WellPlaced`: `cache_long_code` shows what happens to it.

## Not modelled

- What floating-point arithmetic computes (the host's hardware computes it), and the
  bits of FCR31 that nothing reads.
- Decoding bit by bit and the disassembler: tables without state. What the loops ask
  of the decoder, `IsInstBranch` and `DoesInstHaveDelaySlot`, is in `MipsCache` and
  `MipsCpu`.
- LL, SC and the trap instructions: the decoder names some of them, but no handler
  exists, and `llbit_` is written and never read.
- The load delay and the PlayStation side (`CheckHook`, the isolated cache), which
  both instances compile out; lazy interrupt polling, which is off.
- The RSP: the same templates without COP0, exceptions and TLB. `MipsAlu` has the
  32-bit forms with exceptions off, `MipsTimer` and `MipsCache` the loop.
- Hooks, logging, `DumpProcessorLog`; `InvalidateBlock` and `GetOverlappingEntry`,
  which nothing calls.
- SetPc without Reset in the middle of a delay slot: see `hazards`.

## Plan

Done, in order: `MipsCache` with `CodeMemory` and its invariant; `MipsCpu` with
`UserProgram` and its refinement; `MipsTimer`; `MipsTlb`; `MipsLoadStore` with both
byte orders, and the proofs of both; `MipsFpu` with its proofs; `MipsAlu`; `MipsMapped`, the composition of
cache and TLB; resets by the host and linking branches in `MipsCpu`.

Every invariant of a passing run is also a theorem, coherence under its condition, and
bounds on the steps of a Run and on how long a request waits are proved in place of
liveness. What is left: the two properties of `MipsMapped` about contents carry a
condition about the run where `MipsCache` has one about the code.
