----------------------------- MODULE MipsTimer -----------------------------
(***************************************************************************)
(* Time: how Run and RunCached charge cycles, and the Count/Compare timer  *)
(* of COP0 that is derived from them.                                      *)
(*                                                                         *)
(* cycle_spent_total_ is the only clock.  Count is half of it less an      *)
(* offset; Compare is looked at now and then, by asking whether Count has  *)
(* passed it since the last look.  The cached interpreter charges a block  *)
(* when the block is over, so within a block the clock stands still.       *)
(*                                                                         *)
(* An instruction is what it does to the clock: nothing, a read or a write *)
(* of Count, a write of Compare, the idle loop's skip, or a halt (by a     *)
(* store to a device or by BREAK).  Interrupts take no time: MipsCpu.      *)
(***************************************************************************)
EXTENDS Integers

CONSTANTS
  Cached,        \* use_cached_interpreter_
  Cpi,           \* cpi_, in 1/256 cycles
  IdleSkip,      \* 100
  PollInterval,  \* kInterruptCheckInterval
  MaxLen,        \* the longest block; 1 stands for RunInst
  CountMod,      \* 2^32: Count and Compare are uint32_t
  Budgets,       \* the cycles a host asks Run for
  Values,        \* what a guest writes to Count and to Compare
  Horizon        \* bound: no Run starts later than this

ASSUME TimerAssumption ==
  /\ Cached \in BOOLEAN /\ (~Cached => MaxLen = 1)
  /\ Cpi \in Nat \ {0} /\ IdleSkip \in Nat
  /\ PollInterval \in Nat \ {0} /\ MaxLen \in Nat \ {0}
  /\ CountMod \in Nat \ {0} /\ Values \subseteq 0 .. CountMod - 1
  /\ Budgets \subseteq Nat \ {0} /\ Horizon \in Nat

VARIABLES
  at,        \* "idle", or where Run is: "loop", "check", "body"
  total,     \* cycle_spent_total_
  spent,     \* cycle_spent_
  cpi,       \* cpi_counter_
  budget,    \* Run's argument
  executed,  \* instructions of this block not charged yet
  polls,     \* interrupt_poll_counter_
  halt,      \* halt_
  start,     \* count_start_timestamp_
  last,      \* last_compare_check_timestamp_
  compare,   \* compare_
  suppress,  \* surpress_compare_interrupt_
  pending,   \* compare_interrupt_
  \* History, for the properties.
  result,    \* what the last Run returned
  entered,   \* total when Run was called
  work,      \* the cost of all instructions charged, in 1/256 cycles
  skipped,   \* cycles that passed without instructions
  due,       \* Count has come to equal Compare since the last look or write
  jumped     \* a write has put Count back to 0 since the last look

clock   == <<total, spent, cpi>>
timer   == <<start, last, compare, suppress, pending, due, jumped>>
call    == <<budget, result, entered>>
history == <<work, skipped>>
vars    == <<at, clock, executed, polls, halt, timer, call, history>>

Init ==
  /\ at = "idle"
  /\ total = 0 /\ spent = 0 /\ cpi = 0
  /\ executed = 0 /\ polls = 0 /\ halt = FALSE
  /\ start = 0 /\ last = 0 /\ compare = 0 /\ suppress = FALSE /\ pending = FALSE
  /\ budget = 0 /\ result = 0 /\ entered = 0
  /\ work = 0 /\ skipped = 0 /\ due = FALSE /\ jumped = FALSE

-----------------------------------------------------------------------------
(* The clock. *)

Timestamp(t) == t \div 2

\* Count takes every value between two timestamps, one after the other.
Meets(from, to) == \E t \in from + 1 .. to : (t - start) % CountMod = compare

\* n cycles pass.
Advance(n) ==
  /\ total' = total + n
  /\ due' = (due \/ Meets(Timestamp(total), Timestamp(total + n)))

\* Variant: the fraction is dropped.
Charge_DropFraction(n) ==
  LET c == cpi + n * Cpi IN
  /\ cpi' = 0
  /\ spent' = spent + c \div 256
  /\ Advance(c \div 256)

\* The cost of n instructions; the fraction of a cycle is carried over.
Charge(n) ==
  LET c == cpi + n * Cpi IN
  /\ cpi' = c % 256
  /\ spent' = spent + c \div 256
  /\ Advance(c \div 256)

-----------------------------------------------------------------------------
(* Count and Compare. *)

\* Is Compare in (countStart, countEnd]?  The subtractions are uint32_t's.
Crossed(from, to) ==
  LET countStart == (from - start) % CountMod
      countEnd   == (to - start) % CountMod
  IN  (compare - countStart - 1) % CountMod <= (countEnd - countStart - 1) % CountMod

\* Variant: a suppressed look does not note the time.
CheckCompareInterrupt_KeepLast ==
  LET now == Timestamp(total)
  IN  /\ pending' = (pending \/ (~suppress /\ last < now /\ Crossed(last, now)))
      /\ suppress' = FALSE
      /\ last' = IF suppress THEN last ELSE now

\* CheckCompare and CheckCompareInterrupt.
CheckCompareInterrupt ==
  LET now == Timestamp(total)
  IN  /\ pending' = (pending \/ (~suppress /\ last < now /\ Crossed(last, now)))
      /\ suppress' = FALSE
      /\ last' = now

Look ==
  /\ CheckCompareInterrupt
  /\ due' = FALSE /\ jumped' = FALSE
  /\ UNCHANGED <<start, compare>>

GetCount ==
  LET now == Timestamp(total) IN
  /\ start' = IF now < start THEN now ELSE start
  /\ UNCHANGED <<last, compare, suppress, pending, due, jumped>>

\* A value the clock has not reached yet is not representable: Count becomes 0.
WriteCount(v) ==
  LET now == Timestamp(total) IN
  /\ IF now < v
     THEN start' = now /\ jumped' = TRUE /\ UNCHANGED suppress
     ELSE start' = now - v /\ suppress' = TRUE /\ UNCHANGED jumped
  /\ due' = FALSE
  /\ UNCHANGED <<last, compare, pending>>

WriteCompare(v) ==
  /\ compare' = v /\ suppress' = TRUE /\ pending' = FALSE
  /\ due' = FALSE
  /\ UNCHANGED <<start, last, jumped>>

-----------------------------------------------------------------------------
(* Run and RunCached: one loop, which polls before it in the one case and  *)
(* in it in the other.                                                     *)

Run ==
  /\ at = "idle" /\ total <= Horizon
  /\ \E c \in Budgets : budget' = c
  /\ spent' = 0 /\ entered' = total
  /\ at' = IF Cached THEN "loop" ELSE "check"
  /\ UNCHANGED <<total, cpi, executed, polls, halt, timer, result, history>>

\* A host may also call CheckCompare itself.
HostCheck ==
  /\ at = "idle" /\ Look
  /\ UNCHANGED <<at, clock, executed, polls, halt, call, history>>

Check ==
  /\ at = "check" /\ Look
  /\ at' = "body"
  /\ UNCHANGED <<clock, executed, polls, halt, call, history>>

\* Variant: interrupt_poll_counter_ is not reset.
Iterate_KeepsCounter ==
  /\ at = "loop" /\ spent < budget
  /\ polls' = IF Cached THEN polls + 1 ELSE polls
  /\ at' = IF Cached /\ polls + 1 >= PollInterval THEN "check" ELSE "body"
  /\ UNCHANGED <<clock, executed, halt, timer, call, history>>

\* The top of the loop; RunCached counts its polls here.
Iterate ==
  /\ at = "loop" /\ spent < budget
  /\ IF Cached /\ polls + 1 >= PollInterval
     THEN polls' = 0 /\ at' = "check"
     ELSE polls' = (IF Cached THEN polls + 1 ELSE polls) /\ at' = "body"
  /\ UNCHANGED <<clock, executed, halt, timer, call, history>>

Leave(r) == at' = "idle" /\ result' = r /\ UNCHANGED <<budget, entered>>

Return ==
  /\ at = "loop" /\ spent >= budget
  /\ Leave(spent)
  /\ UNCHANGED <<clock, executed, polls, halt, timer, history>>

\* Variant: a halted core stays in the loop until it is resumed.
ReturnHalted_Spins ==
  /\ at = "body" /\ executed = 0 /\ halt
  /\ at' = "loop"
  /\ UNCHANGED <<clock, executed, polls, halt, timer, call, history>>

\* A halted core lets the rest of the budget pass.
ReturnHalted ==
  /\ at = "body" /\ executed = 0 /\ halt
  /\ Advance(budget - spent)
  /\ skipped' = skipped + (budget - spent)
  /\ Leave(budget)
  /\ UNCHANGED <<spent, cpi, executed, polls, halt, start, last, compare,
                 suppress, pending, jumped, work>>

\* One instruction of the block; halt_ is not looked at before its end.
Instruction ==
  /\ at = "body" /\ executed < MaxLen /\ (executed = 0 => ~halt)
  /\ executed' = executed + 1
  /\ UNCHANGED <<at, cpi, polls, call, work>>

Plain == Instruction /\ UNCHANGED <<total, spent, halt, timer, skipped>>

SetHalt == Instruction /\ halt' = TRUE /\ UNCHANGED <<total, spent, timer, skipped>>

ReadCount == Instruction /\ GetCount /\ UNCHANGED <<total, spent, halt, skipped>>

MoveToCount ==
  /\ Instruction /\ \E v \in Values : WriteCount(v)
  /\ UNCHANGED <<total, spent, halt, skipped>>

MoveToCompare ==
  /\ Instruction /\ \E v \in Values : WriteCompare(v)
  /\ UNCHANGED <<total, spent, halt, skipped>>

\* Variant: the skip is not added to what Run returns.
Idle_TotalOnly ==
  /\ Instruction /\ Advance(IdleSkip)
  /\ skipped' = skipped + IdleSkip
  /\ UNCHANGED <<spent, halt, start, last, compare, suppress, pending, jumped>>

\* A jump to itself over an empty delay slot.
Idle ==
  /\ Instruction /\ Advance(IdleSkip)
  /\ spent' = spent + IdleSkip
  /\ skipped' = skipped + IdleSkip
  /\ UNCHANGED <<halt, start, last, compare, suppress, pending, jumped>>

\* The block is over, at its end or because pc_ has left it.
EndBlock ==
  /\ at = "body" /\ executed > 0
  /\ Charge(executed)
  /\ work' = work + executed * Cpi
  /\ executed' = 0 /\ at' = "loop"
  /\ UNCHANGED <<polls, halt, start, last, compare, suppress, pending, jumped,
                 call, skipped>>

\* The host restarts a halted core.
Resume ==
  /\ at = "idle" /\ halt /\ halt' = FALSE
  /\ UNCHANGED <<at, clock, executed, polls, timer, call, history>>

\* Variant: COP0 is not reset with the processor.
Reset_KeepsCop0 ==
  /\ at = "idle" /\ total > 0
  /\ total' = 0 /\ cpi' = 0 /\ halt' = FALSE
  /\ work' = 0 /\ skipped' = 0 /\ result' = 0 /\ entered' = 0 /\ budget' = 0
  /\ UNCHANGED <<at, spent, executed, polls, timer>>

\* Reset, between two Runs; interrupt_poll_counter_ and cycle_spent_ stay.
Reset ==
  /\ at = "idle" /\ total > 0
  /\ total' = 0 /\ cpi' = 0 /\ halt' = FALSE
  /\ start' = 0 /\ last' = 0 /\ compare' = 0 /\ suppress' = FALSE /\ pending' = FALSE
  /\ work' = 0 /\ skipped' = 0 /\ result' = 0 /\ entered' = 0
  /\ budget' = 0 /\ due' = FALSE /\ jumped' = FALSE
  /\ UNCHANGED <<at, spent, executed, polls>>

Running ==
  \/ Check \/ Iterate \/ Return \/ ReturnHalted
  \/ Plain \/ SetHalt \/ ReadCount \/ MoveToCount \/ MoveToCompare \/ Idle
  \/ EndBlock

Next == Running \/ Run \/ HostCheck \/ Resume \/ Reset

\* A Run that has begun goes on.
Spec == Init /\ [][Next]_vars /\ WF_vars(Running)

-----------------------------------------------------------------------------
TypeOK ==
  /\ at \in {"idle", "loop", "check", "body"}
  /\ total \in Nat /\ spent \in Nat /\ cpi \in 0 .. 255
  /\ budget \in Nat /\ executed \in 0 .. MaxLen /\ polls \in 0 .. PollInterval - 1
  /\ halt \in BOOLEAN
  /\ start \in Nat /\ last \in Nat /\ compare \in 0 .. CountMod - 1
  /\ suppress \in BOOLEAN /\ pending \in BOOLEAN
  /\ result \in Nat /\ entered \in Nat /\ work \in Nat /\ skipped \in Nat
  /\ due \in BOOLEAN /\ jumped \in BOOLEAN

\* Nothing is lost in the rounding: the clock is what the instructions cost and
\* what was skipped, to the fraction in cpi_counter_ (Run, RunInst and RunCached).
TimeConserved == 256 * total + cpi = work + 256 * skipped

\* Run tells its host how far the clock moved, and moves it at least as far as
\* it was asked to, halted or not (Run lines 252-265, RunCached lines 279-287).
RunReturnsElapsed ==
  at = "idle" => result = total - entered /\ result >= budget

\* Count's origin and the last look are never in the future: the repairs in
\* GetCount, WriteCount and CheckCompareInterrupt for that case (a read of Count
\* that sets it to 0, "Time went backwards") do not happen.
NeverAhead == start <= Timestamp(total) /\ last <= Timestamp(total)

\* A look raises the timer interrupt exactly if Count has come to equal Compare
\* since the look before it, unless Count or Compare were written in between
\* (CheckCompareInterrupt line 479).
RaisedIfMet ==
  [][at = "check" /\ at' = "body" /\ ~jumped
       => pending' = (pending \/ (due /\ ~suppress))]_vars

\* A Run ends, also in an endless loop and on a halted core.
RunEnds == at # "idle" ~> at = "idle"
=============================================================================
