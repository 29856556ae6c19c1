-------------------------- MODULE MipsTimerProofs --------------------------
(***************************************************************************)
(* Proofs about MipsTimer, for every cost of an instruction, every block   *)
(* length and every width of Count.                                        *)
(***************************************************************************)
EXTENDS MipsTimer, TLAPS

\* While Run is under way the time it will report has passed since it was
\* called; a look waits for a Run that still has budget.
Elapsed ==
  /\ at # "idle" => spent = total - entered
  /\ at \in {"check", "body"} /\ executed = 0 => spent < budget
  /\ at \in {"idle", "loop", "check"} => executed = 0

\* The inductive invariant.
IInv == TypeOK /\ TimeConserved /\ RunReturnsElapsed /\ NeverAhead /\ Elapsed

\* Halving does not reverse the order of two times.
LEMMA TimestampMonotone ==
  ASSUME NEW t \in Nat, NEW n \in Nat
  PROVE  /\ Timestamp(t) \in Nat
         /\ Timestamp(t) <= Timestamp(t + n)
BY DEF Timestamp

\* Splitting a cost into cycles and a fraction loses nothing.
LEMMA SplitCost ==
  ASSUME NEW c \in Nat
  PROVE  /\ c \div 256 \in Nat /\ c % 256 \in 0 .. 255
         /\ 256 * (c \div 256) + (c % 256) = c
OBVIOUS

LEMMA CostNat ==
  ASSUME NEW n \in Nat
  PROVE  n * Cpi \in Nat
BY TimerAssumption

LEMMA ZeroInRange ==
  /\ 0 \in 0 .. CountMod - 1 /\ 0 \in 0 .. PollInterval - 1 /\ 0 \in 0 .. MaxLen
  /\ MaxLen \in Nat /\ CountMod \in Nat /\ PollInterval \in Nat
BY TimerAssumption

LEMMA InitIInv == Init => IInv
<1> SUFFICES ASSUME Init PROVE IInv
  OBVIOUS
<1>a. /\ executed \in 0 .. MaxLen /\ polls \in 0 .. PollInterval - 1
      /\ compare \in 0 .. CountMod - 1
  BY ZeroInRange DEF Init
<1>b. /\ halt \in BOOLEAN /\ suppress \in BOOLEAN /\ pending \in BOOLEAN
      /\ due \in BOOLEAN /\ jumped \in BOOLEAN
  BY DEF Init
<1>c. /\ at \in {"idle", "loop", "check", "body"} /\ cpi \in 0 .. 255
      /\ total \in Nat /\ spent \in Nat /\ budget \in Nat /\ start \in Nat
      /\ last \in Nat /\ result \in Nat /\ entered \in Nat /\ work \in Nat
      /\ skipped \in Nat
  BY DEF Init
<1>1. TypeOK
  BY <1>a, <1>b, <1>c DEF TypeOK
<1>2. TimeConserved /\ RunReturnsElapsed /\ NeverAhead /\ Elapsed
  BY DEF Init, TimeConserved, RunReturnsElapsed, NeverAhead, Timestamp, Elapsed
<1> QED BY <1>1, <1>2 DEF IInv

LEMMA NextIInv == IInv /\ [Next]_vars => IInv'
<1> SUFFICES ASSUME IInv, [Next]_vars PROVE IInv'
  OBVIOUS
<1> USE DEF IInv
<1>1. CASE Check
  <2>1. last' = Timestamp(total) /\ pending' \in BOOLEAN /\ suppress' = FALSE
        /\ start' = start /\ compare' = compare /\ due' = FALSE /\ jumped' = FALSE
    BY <1>1 DEF Check, Look, CheckCompareInterrupt, TypeOK
  <2>2. at = "check" /\ at' = "body"
        /\ UNCHANGED <<clock, executed, polls, halt, call, history>>
    BY <1>1 DEF Check
  <2>3. Timestamp(total) \in Nat
    BY TimestampMonotone DEF TypeOK
  <2>4. TypeOK'
    BY <2>1, <2>2, <2>3 DEF TypeOK, clock, call, history
  <2> QED
    BY <2>1, <2>2, <2>3, <2>4
    DEF TimeConserved, RunReturnsElapsed, NeverAhead, Elapsed, clock, call,
        history, TypeOK, Timestamp
<1>2. CASE HostCheck
  <2>1. last' = Timestamp(total) /\ pending' \in BOOLEAN /\ suppress' = FALSE
        /\ start' = start /\ compare' = compare /\ due' = FALSE /\ jumped' = FALSE
    BY <1>2 DEF HostCheck, Look, CheckCompareInterrupt, TypeOK
  <2>2. UNCHANGED <<at, clock, executed, polls, halt, call, history>>
    BY <1>2 DEF HostCheck
  <2>3. Timestamp(total) \in Nat
    BY TimestampMonotone DEF TypeOK
  <2>4. TypeOK'
    BY <2>1, <2>2, <2>3 DEF TypeOK, clock, call, history
  <2> QED
    BY <2>1, <2>2, <2>3, <2>4
    DEF TimeConserved, RunReturnsElapsed, NeverAhead, Elapsed, clock, call,
        history, TypeOK, Timestamp
<1>3. CASE Run
  BY <1>3, TimerAssumption
  DEF Run, TypeOK, TimeConserved, RunReturnsElapsed, NeverAhead, Elapsed, timer,
      history, Timestamp
<1>4. CASE Iterate
  BY <1>4, TimerAssumption
  DEF Iterate, TypeOK, TimeConserved, RunReturnsElapsed, NeverAhead, Elapsed,
      clock, timer, call, history, Timestamp
<1>5. CASE Return
  BY <1>5
  DEF Return, Leave, TypeOK, TimeConserved, RunReturnsElapsed, NeverAhead,
      Elapsed, clock, timer, history, Timestamp
<1>6. CASE ReturnHalted
  <2>1. budget - spent \in Nat
    BY <1>6 DEF ReturnHalted, Elapsed, TypeOK
  <2>2. total' = total + (budget - spent) /\ due' \in BOOLEAN
    BY <1>6 DEF ReturnHalted, Advance, TypeOK
  <2>3. Timestamp(total) <= Timestamp(total')
    BY <2>1, <2>2, TimestampMonotone DEF TypeOK
  <2>4. TypeOK'
    BY <1>6, <2>1, <2>2 DEF ReturnHalted, Leave, TypeOK
  <2>5. TimeConserved' /\ RunReturnsElapsed' /\ Elapsed'
    BY <1>6, <2>1, <2>2
    DEF ReturnHalted, Leave, TypeOK, TimeConserved, RunReturnsElapsed, Elapsed
  <2>6. NeverAhead'
    BY <1>6, <2>2, <2>3, TimestampMonotone DEF ReturnHalted, NeverAhead, TypeOK, Timestamp
  <2> QED BY <2>4, <2>5, <2>6
<1>7. CASE Plain \/ SetHalt
  <2>1. /\ at = "body" /\ executed < MaxLen /\ executed' = executed + 1
        /\ halt' \in {halt, TRUE}
        /\ UNCHANGED <<at, cpi, polls, call, work, total, spent, timer, skipped>>
    BY <1>7 DEF Plain, SetHalt, Instruction
  <2>a. /\ executed' \in 0 .. MaxLen /\ polls' \in 0 .. PollInterval - 1
        /\ compare' \in 0 .. CountMod - 1
    BY <2>1, ZeroInRange DEF TypeOK, call, timer
  <2>2. TypeOK'
    BY <2>1, <2>a DEF TypeOK, call, timer
  <2> QED
    BY <2>1, <2>2
    DEF TypeOK, TimeConserved, RunReturnsElapsed, NeverAhead, Elapsed, timer,
        call, Timestamp
<1>8. CASE ReadCount
  <2>1. start' = start
    BY <1>8 DEF ReadCount, GetCount, NeverAhead, Timestamp, TypeOK
  <2> QED
    BY <1>8, <2>1, ZeroInRange
    DEF ReadCount, GetCount, Instruction, TypeOK, TimeConserved,
        RunReturnsElapsed, NeverAhead, Elapsed, call, Timestamp
<1>9. CASE MoveToCount
  <2>1. PICK v \in Values : WriteCount(v)
    BY <1>9 DEF MoveToCount
  <2>2. v \in Nat
    BY TimerAssumption
  <2> DEFINE now == Timestamp(total)
  <2>n. now \in Nat
    BY TimestampMonotone DEF TypeOK
  <2>s. ASSUME now < v
        PROVE  start' \in Nat /\ start' <= now /\ suppress' \in BOOLEAN
               /\ jumped' \in BOOLEAN
    <3> HIDE DEF now
    <3>1. start' = now /\ jumped' = TRUE /\ suppress' = suppress
      BY <2>1, <2>s DEF WriteCount, now
    <3> QED BY <3>1, <2>n DEF TypeOK
  <2>l. ASSUME ~(now < v)
        PROVE  start' \in Nat /\ start' <= now /\ suppress' \in BOOLEAN
               /\ jumped' \in BOOLEAN
    <3> HIDE DEF now
    <3>1. start' = now - v /\ suppress' = TRUE /\ jumped' = jumped
      BY <2>1, <2>l DEF WriteCount, now
    <3> QED BY <3>1, <2>n, <2>l, <2>2 DEF TypeOK
  <2>3. start' \in Nat /\ start' <= Timestamp(total)
        /\ suppress' \in BOOLEAN /\ due' \in BOOLEAN /\ jumped' \in BOOLEAN
        /\ UNCHANGED <<last, compare, pending>>
    BY <2>1, <2>s, <2>l DEF WriteCount
  <2>4. TypeOK'
    BY <1>9, <2>3, ZeroInRange DEF MoveToCount, Instruction, TypeOK, call
  <2> QED
    BY <1>9, <2>3, <2>4
    DEF MoveToCount, Instruction, TypeOK, TimeConserved, RunReturnsElapsed,
        NeverAhead, Elapsed, call, Timestamp
<1>10. CASE MoveToCompare
  <2>1. /\ at = "body" /\ executed < MaxLen /\ executed' = executed + 1
        /\ compare' \in 0 .. CountMod - 1 /\ suppress' = TRUE
        /\ pending' = FALSE /\ due' = FALSE
        /\ UNCHANGED <<at, cpi, polls, call, work, total, spent, halt, skipped,
                       start, last, jumped>>
    BY <1>10, TimerAssumption DEF MoveToCompare, WriteCompare, Instruction
  <2>a. /\ executed' \in 0 .. MaxLen /\ polls' \in 0 .. PollInterval - 1
        /\ compare' \in 0 .. CountMod - 1
    BY <2>1, ZeroInRange DEF TypeOK, call
  <2>2. TypeOK'
    BY <2>1, <2>a DEF TypeOK, call
  <2> QED
    BY <2>1, <2>2
    DEF TypeOK, TimeConserved, RunReturnsElapsed, NeverAhead, Elapsed, call,
        Timestamp
<1>11. CASE Idle
  <2>1. IdleSkip \in Nat
    BY TimerAssumption
  <2>2. total' = total + IdleSkip /\ due' \in BOOLEAN
    BY <1>11 DEF Idle, Advance, TypeOK
  <2>3. Timestamp(total) <= Timestamp(total')
    BY <2>1, <2>2, TimestampMonotone DEF TypeOK
  <2>4. TypeOK'
    BY <1>11, <2>1, <2>2, ZeroInRange DEF Idle, Instruction, call, TypeOK
  <2>5. TimeConserved' /\ RunReturnsElapsed' /\ Elapsed'
    BY <1>11, <2>1, <2>2
    DEF Idle, Instruction, call, TypeOK, TimeConserved, RunReturnsElapsed, Elapsed
  <2>6. NeverAhead'
    BY <1>11, <2>2, <2>3, TimestampMonotone DEF Idle, NeverAhead, TypeOK, Timestamp
  <2> QED BY <2>4, <2>5, <2>6
<1>12. CASE EndBlock
  <2> DEFINE cost == executed * Cpi
             c    == cpi + cost
  <2>1. cost \in Nat /\ c \in Nat
    BY CostNat DEF TypeOK
  <2> HIDE DEF cost
  <2>2. /\ cpi' = c % 256 /\ spent' = spent + c \div 256
        /\ total' = total + c \div 256
        /\ due' \in BOOLEAN /\ work' = work + cost
        /\ executed' = 0 /\ at' = "loop" /\ at = "body"
        /\ UNCHANGED <<polls, halt, start, last, compare, suppress, pending,
                       jumped, call, skipped>>
    BY <1>12 DEF EndBlock, Charge, Advance, TypeOK, cost
  <2>3. /\ c \div 256 \in Nat /\ c % 256 \in 0 .. 255
        /\ 256 * (c \div 256) + (c % 256) = c
    BY <2>1, SplitCost
  <2> HIDE DEF c
  <2>4. Timestamp(total) <= Timestamp(total')
    <3> DEFINE n == c \div 256
    <3>1. n \in Nat /\ total \in Nat /\ total' = total + n
      BY <2>2, <2>3 DEF TypeOK
    <3> HIDE DEF n
    <3> QED BY <3>1, TimestampMonotone
  <2>5. TypeOK'
    BY <2>1, <2>2, <2>3, ZeroInRange DEF TypeOK, call
  <2>6. TimeConserved'
    BY <2>1, <2>2, <2>3 DEF TypeOK, TimeConserved, c
  <2>7. RunReturnsElapsed' /\ Elapsed'
    BY <2>2, <2>3 DEF TypeOK, RunReturnsElapsed, Elapsed, call
  <2>8. NeverAhead'
    BY <2>2, <2>3, <2>4, TimestampMonotone DEF NeverAhead, TypeOK, Timestamp
  <2> QED BY <2>5, <2>6, <2>7, <2>8
<1>13. CASE Resume
  <2>1. /\ at' = at /\ halt' = FALSE
        /\ UNCHANGED <<clock, executed, polls, timer, call, history>>
    BY <1>13 DEF Resume
  <2>2. Timestamp(total)' = Timestamp(total)
    BY <2>1 DEF clock, Timestamp
  <2>3. TypeOK'
    BY <2>1 DEF clock, timer, call, history, TypeOK
  <2>4. TimeConserved' /\ RunReturnsElapsed'
    BY <2>1 DEF clock, timer, call, history, TimeConserved, RunReturnsElapsed
  <2>5. NeverAhead' /\ Elapsed'
    BY <2>1, <2>2 DEF clock, timer, call, history, NeverAhead, Elapsed
  <2> QED BY <2>3, <2>4, <2>5
<1>14. CASE Reset
  <2>a. /\ executed' \in 0 .. MaxLen /\ polls' \in 0 .. PollInterval - 1
        /\ compare' \in 0 .. CountMod - 1
    BY <1>14, ZeroInRange DEF Reset, TypeOK
  <2>b. /\ halt' \in BOOLEAN /\ suppress' \in BOOLEAN /\ pending' \in BOOLEAN
        /\ due' \in BOOLEAN /\ jumped' \in BOOLEAN
    BY <1>14 DEF Reset
  <2>c. /\ at' \in {"idle", "loop", "check", "body"} /\ cpi' \in 0 .. 255
        /\ total' \in Nat /\ spent' \in Nat /\ budget' \in Nat /\ start' \in Nat
        /\ last' \in Nat /\ result' \in Nat /\ entered' \in Nat /\ work' \in Nat
        /\ skipped' \in Nat
    BY <1>14 DEF Reset, TypeOK
  <2>1. TypeOK'
    BY <2>a, <2>b, <2>c DEF TypeOK
  <2> QED
    BY <1>14, <2>1
    DEF Reset, TypeOK, TimeConserved, RunReturnsElapsed, NeverAhead, Elapsed,
        Timestamp
<1>15. CASE UNCHANGED vars
  BY <1>15
  DEF vars, clock, timer, call, history, TypeOK, TimeConserved,
      RunReturnsElapsed, NeverAhead, Elapsed, Timestamp
<1> QED
  BY <1>1, <1>2, <1>3, <1>4, <1>5, <1>6, <1>7, <1>8, <1>9, <1>10, <1>11, <1>12,
     <1>13, <1>14, <1>15
  DEF Next, Running

\* The conjuncts hold together, in every reachable state.
THEOREM InvariantHolds == Spec => []IInv
BY InitIInv, NextIInv, PTL DEF Spec

\* Every variable has its type; in particular cpi_counter_ stays a fraction and
\* the poll counter below the interval.
THEOREM TypeCorrect == Spec => []TypeOK
BY InvariantHolds, PTL DEF IInv

\* No time is lost or made: Run, RunCached and the idle loop, whatever an
\* instruction costs.
THEOREM TimeIsConserved == Spec => []TimeConserved
BY InvariantHolds, PTL DEF IInv

\* What Run returns is what the clock moved, and no less than it was asked for.
THEOREM RunReturnCorrect == Spec => []RunReturnsElapsed
BY InvariantHolds, PTL DEF IInv

\* Count's origin and the last look at Compare are never in the future.
THEOREM OriginNeverAhead == Spec => []NeverAhead
BY InvariantHolds, PTL DEF IInv

-----------------------------------------------------------------------------
(* The Compare interrupt. *)

\* A number's remainder is the one there is.
LEMMA ModUnique ==
  ASSUME NEW W \in Nat \ {0}, NEW q \in Int, NEW r \in 0 .. W - 1
  PROVE  (q * W + r) % W = r
BY SMT

\* Every number is a multiple and a remainder.
LEMMA DivMod ==
  ASSUME NEW W \in Nat \ {0}, NEW x \in Int
  PROVE  \E q \in Int, r \in 0 .. W - 1 : x = q * W + r /\ x % W = r
<1>1. x \div W \in Int /\ x % W \in 0 .. W - 1
  BY SMT
<1>2. x = (x \div W) * W + (x % W)
  BY SMT
<1> QED BY <1>1, <1>2

\* The distance from one Count to a later one, less one, in modular arithmetic.
LEMMA Distance ==
  ASSUME NEW W \in Nat \ {0}, NEW a \in Int, NEW b \in Int, a < b, b - a <= W
  PROVE  ((b % W) - (a % W) - 1) % W = b - a - 1
<1>1. PICK q \in Int, r \in 0 .. W - 1 : a = q * W + r /\ a % W = r
  BY DivMod
<1>2. PICK p \in Int, s \in 0 .. W - 1 : b = p * W + s /\ b % W = s
  BY DivMod
<1>3. b - a = (p * W - q * W) + (s - r)
  BY <1>1, <1>2
<1>4. p * W - q * W = (p - q) * W
  OBVIOUS
<1>5. s - r - 1 = (q - p) * W + (b - a - 1)
  BY <1>3, <1>4
<1>6. b - a - 1 \in 0 .. W - 1 /\ q - p \in Int
  OBVIOUS
<1>7. ((q - p) * W + (b - a - 1)) % W = b - a - 1
  BY <1>6, ModUnique
<1> QED BY <1>1, <1>2, <1>5, <1>7

\* Going from a Count as far as the distance to c says, one comes to c.
LEMMA Landing ==
  ASSUME NEW W \in Nat \ {0}, NEW a \in Int, NEW c \in 0 .. W - 1
  PROVE  (a + 1 + ((c - (a % W) - 1) % W)) % W = c
<1>1. PICK q \in Int, r \in 0 .. W - 1 : a = q * W + r /\ a % W = r
  BY DivMod
<1>d. c - r - 1 \in Int
  OBVIOUS
<1>2. PICK p \in Int, s \in 0 .. W - 1 :
        c - r - 1 = p * W + s /\ (c - r - 1) % W = s
  <2> DEFINE x == c - r - 1
  <2> HIDE DEF x
  <2>1. x \in Int
    BY <1>d DEF x
  <2>2. \E p \in Int, s \in 0 .. W - 1 : x = p * W + s /\ x % W = s
    BY <2>1, DivMod
  <2> QED BY <2>2 DEF x
<1> DEFINE qW == q * W
           pW == p * W
<1>n. qW \in Int /\ pW \in Int /\ r \in Int /\ s \in Int /\ c \in Int
  OBVIOUS
<1>e. a = qW + r /\ c - r - 1 = pW + s
  BY <1>1, <1>2
<1> HIDE DEF qW, pW
<1>3. a + 1 + s = (qW - pW) + c
  BY <1>n, <1>e
<1>4. qW - pW = (q - p) * W
  BY DEF qW, pW
<1>5. a + 1 + s = (q - p) * W + c /\ q - p \in Int
  BY <1>3, <1>4
<1>6. ((q - p) * W + c) % W = c
  BY <1>5, ModUnique
<1> QED BY <1>1, <1>2, <1>5, <1>6

\* The interval arithmetic of CheckCompareInterrupt (lines 477-480) finds the
\* same as counting up step by step (the loop in lines 466-475), as long as
\* Count has not gone round more than once since the last look.
THEOREM CrossedIsStepwise ==
  ASSUME TypeOK, NEW from \in Nat, NEW to \in Nat,
         from < to, to - from <= CountMod
  PROVE  Crossed(from, to) <=> Meets(from, to)
<1> DEFINE W == CountMod
           a == from - start
           far == (compare - (a % W) - 1) % W
<1>1. /\ W \in Nat \ {0} /\ a \in Int /\ to - start \in Int
      /\ compare \in 0 .. W - 1
  BY TimerAssumption DEF TypeOK
<1>2. (((to - start) % W) - (a % W) - 1) % W = to - from - 1
  <2> DEFINE b == to - start
  <2>1. b \in Int /\ a < b /\ b - a <= W /\ b - a = to - from
    BY <1>1 DEF TypeOK
  <2> HIDE DEF a, b, W
  <2>2. ((b % W) - (a % W) - 1) % W = b - a - 1
    BY <1>1, <2>1, Distance
  <2> QED BY <2>1, <2>2 DEF b
<1>3. Crossed(from, to) <=> far <= to - from - 1
  BY <1>2 DEF Crossed
<1>4. far \in 0 .. W - 1
  <2> HIDE DEF a, W
  <2>1. PICK r \in 0 .. W - 1 : a % W = r
    BY <1>1, DivMod
  <2>2. compare - (a % W) - 1 \in Int
    BY <1>1, <2>1
  <2> QED BY <1>1, <2>2, DivMod
<1>5. ASSUME far <= to - from - 1
      PROVE  Meets(from, to)
  <2>1. from + 1 + far \in from + 1 .. to
    BY <1>4, <1>5, <1>1
  <2>2. ((from + 1 + far) - start) % W = compare
    <3>1. (a + 1 + far) % W = compare
      <4> HIDE DEF a, W
      <4> QED BY <1>1, Landing
    <3>2. (from + 1 + far) - start = a + 1 + far
      <4> HIDE DEF far
      <4> QED BY <1>1, <1>4 DEF TypeOK
    <3> QED BY <3>1, <3>2
  <2> QED BY <2>1, <2>2 DEF Meets
<1>6. ASSUME Meets(from, to)
      PROVE  far <= to - from - 1
  <2>1. PICK t \in from + 1 .. to : (t - start) % W = compare
    BY <1>6 DEF Meets
  <2> DEFINE b == t - start
  <2>2. b \in Int /\ a < b /\ b - a <= W /\ b - a = t - from
    BY <1>1 DEF TypeOK
  <2>3. b % W = compare
    BY <2>1
  <2>4. far = b - a - 1
    <3> HIDE DEF a, b, W
    <3>1. ((b % W) - (a % W) - 1) % W = b - a - 1
      BY <1>1, <2>2, Distance
    <3> QED BY <2>3, <3>1
  <2> QED BY <2>2, <2>4
<1> QED BY <1>3, <1>5, <1>6

\* What the history variable due records, while no write has got in between: a
\* match since the last look.
DueInv == ~suppress /\ ~jumped => (due <=> Meets(last, Timestamp(total)))

LEMMA MeetsSplits ==
  ASSUME NEW f \in Nat, NEW m \in Nat, NEW t \in Nat, f <= m, m <= t
  PROVE  Meets(f, t) <=> Meets(f, m) \/ Meets(m, t)
BY DEF Meets

LEMMA MeetsNothing ==
  ASSUME NEW f \in Nat
  PROVE  ~Meets(f, f)
BY DEF Meets

LEMMA AdvanceDue ==
  ASSUME IInv, DueInv, NEW n \in Nat, Advance(n),
         UNCHANGED <<start, last, compare, suppress, jumped>>
  PROVE  DueInv'
<1> DEFINE from == Timestamp(total)
           to   == Timestamp(total + n)
<1>1. from \in Nat /\ to \in Nat /\ from <= to /\ last \in Nat /\ last <= from
  <2>1. total \in Nat /\ total + n \in Nat /\ last \in Nat
    BY DEF IInv, TypeOK
  <2>2. from \in Nat /\ to \in Nat /\ from <= to
    BY <2>1, TimestampMonotone
  <2>3. last <= from
    BY DEF IInv, NeverAhead
  <2> QED BY <2>1, <2>2, <2>3
<1>2. Timestamp(total)' = to /\ due' = (due \/ Meets(from, to))
  BY DEF Advance, Timestamp
<1>3. Meets(last, to) <=> Meets(last, from) \/ Meets(from, to)
  <2> HIDE DEF from, to
  <2> QED BY <1>1, MeetsSplits
<1>4. Meets(last, Timestamp(total))' <=> Meets(last, to)
  BY <1>2 DEF Meets
<1> QED BY <1>2, <1>3, <1>4 DEF DueInv

LEMMA InitDue == Init => DueInv
BY MeetsNothing DEF Init, DueInv, Timestamp

LEMMA NextDue == IInv /\ DueInv /\ [Next]_vars => DueInv'
<1> SUFFICES ASSUME IInv, DueInv, [Next]_vars PROVE DueInv'
  OBVIOUS
<1>1. CASE Check \/ HostCheck
  <2>1. last' = Timestamp(total) /\ due' = FALSE /\ total' = total
    BY <1>1
    DEF Check, HostCheck, Look, CheckCompareInterrupt, clock
  <2>2. Timestamp(total) \in Nat
    BY TimestampMonotone DEF IInv, TypeOK
  <2>3. ~Meets(last, Timestamp(total))'
    BY <2>1, <2>2 DEF Meets, Timestamp
  <2> QED BY <2>1, <2>3 DEF DueInv
<1>2. CASE ReturnHalted
  <2>1. budget - spent \in Nat
    BY <1>2 DEF ReturnHalted, IInv, Elapsed, TypeOK
  <2> QED BY <1>2, <2>1, AdvanceDue DEF ReturnHalted
<1>3. CASE Idle
  BY <1>3, AdvanceDue, TimerAssumption DEF Idle
<1>4. CASE EndBlock
  <2> DEFINE n == (cpi + executed * Cpi) \div 256
  <2>1. n \in Nat
    BY CostNat, SplitCost DEF IInv, TypeOK
  <2>2. Advance(n) /\ UNCHANGED <<start, last, compare, suppress, jumped>>
    BY <1>4 DEF EndBlock, Charge
  <2> HIDE DEF n
  <2> QED BY <2>1, <2>2, AdvanceDue
<1>5. CASE MoveToCompare
  BY <1>5 DEF MoveToCompare, WriteCompare, DueInv
<1>6. CASE MoveToCount
  BY <1>6 DEF MoveToCount, WriteCount, DueInv
<1>7. CASE ReadCount
  <2>1. start' = start
    BY <1>7 DEF ReadCount, GetCount, IInv, NeverAhead, Timestamp, TypeOK
  <2> QED
    BY <1>7, <2>1 DEF ReadCount, GetCount, DueInv, Meets, Timestamp
<1>8. CASE Reset
  BY <1>8, MeetsNothing DEF Reset, DueInv, Meets, Timestamp
<1>9. CASE Run \/ Iterate \/ Return \/ Plain \/ SetHalt \/ Resume \/ UNCHANGED vars
  <2>1. UNCHANGED <<total, timer>>
    BY <1>9
    DEF Run, Iterate, Return, Plain, SetHalt, Resume, vars, clock
  <2> QED BY <2>1 DEF timer, DueInv, Meets, Timestamp
<1> QED
  BY <1>1, <1>2, <1>3, <1>4, <1>5, <1>6, <1>7, <1>8, <1>9 DEF Next, Running

\* At a look Count has gone round at most once since the one before: with 2^32
\* half cycles to a round, a host that calls Run at all sees to that.
Window == at = "check" => Timestamp(total) - last <= CountMod

\* As long as looks come often enough, none raises the timer interrupt without
\* a match of Count and Compare, and none that is not suppressed misses one.
THEOREM TimerCorrect == Spec /\ []Window => RaisedIfMet
<1> DEFINE Raised == at = "check" /\ at' = "body" /\ ~jumped
                       => pending' = (pending \/ (due /\ ~suppress))
<1>1. IInv /\ DueInv /\ Window /\ [Next]_vars => [Raised]_vars
  <2> SUFFICES ASSUME IInv, DueInv, Window, [Next]_vars,
                      at = "check", at' = "body", ~jumped
               PROVE  pending' = (pending \/ (due /\ ~suppress))
    OBVIOUS
  <2> DEFINE now == Timestamp(total)
  <2>1. Check
    BY DEF Next, Running, Run, HostCheck, Iterate, Return, ReturnHalted, Plain,
           SetHalt, ReadCount, MoveToCount, MoveToCompare, Idle, EndBlock,
           Resume, Reset, Instruction, vars
  <2>2. pending' = (pending \/ (~suppress /\ last < now /\ Crossed(last, now)))
    BY <2>1 DEF Check, Look, CheckCompareInterrupt
  <2>3. now \in Nat /\ last \in Nat /\ last <= now /\ now - last <= CountMod
    BY TimestampMonotone DEF IInv, TypeOK, NeverAhead, Window
  <2> HIDE DEF now
  <2>4. Meets(last, now) <=> last < now /\ Crossed(last, now)
    <3>1. CASE last < now
      BY <3>1, <2>3, CrossedIsStepwise DEF IInv
    <3>2. CASE ~(last < now)
      <4>1. last = now
        BY <3>2, <2>3
      <4> QED BY <3>2, <4>1, <2>3, MeetsNothing
    <3> QED BY <3>1, <3>2
  <2>5. ~suppress => (due <=> last < now /\ Crossed(last, now))
    BY <2>4 DEF DueInv, now
  <2> QED BY <2>2, <2>5
<1>2. Spec => []DueInv
  BY InvariantHolds, InitDue, NextDue, PTL DEF Spec
<1> QED
  BY <1>1, <1>2, InvariantHolds, PTL DEF Spec, RaisedIfMet

-----------------------------------------------------------------------------
(* How long Count may go unlooked at, from the constants alone.             *)

\* The most cycles one turn of the loop takes: a block, with an idle skip at each
\* of its instructions, or the rest of the budget of a halted core.
TurnMost == MaxLen * IdleSkip + (255 + MaxLen * Cpi) \div 256
LongestTurn(M) == IF M < TurnMost THEN TurnMost ELSE M

\* No Run is asked for more than M cycles, and what passes between two looks is no
\* more than a turn of Count: with the cached interpreter kInterruptCheckInterval
\* turns of the loop, else one Run.
ShortRuns(M) ==
  /\ \A b \in Budgets : b <= M
  /\ IF Cached THEN PollInterval * LongestTurn(M) <= 2 * CountMod
               ELSE M + TurnMost <= 2 * CountMod

\* RunCached: the turns since the last look, which the poll counter counts also
\* from one Run to the next.
LookedCached(M) ==
  /\ at \in {"idle", "loop"} => total <= 2 * last + 1 + (polls + 1) * LongestTurn(M)
  /\ at = "check" => total <= 2 * last + 1 + PollInterval * LongestTurn(M)
  /\ at = "body" => total <= 2 * last + 1 + polls * LongestTurn(M) + executed * IdleSkip

\* Run: it looks when it begins.
LookedFirst(M) ==
  /\ at \in {"idle", "check"} => total <= 2 * last + 1 + (M + TurnMost)
  /\ at \in {"loop", "body"} => total <= 2 * last + 1 + spent
  /\ at = "loop" => spent <= M + TurnMost
  /\ at = "body" => spent <= M + executed * IdleSkip

Looked(M) ==
  /\ budget <= M
  /\ Cached => LookedCached(M)
  /\ ~Cached => LookedFirst(M)

\* A part of a block costs no more than a block.
LEMMA PartOfTurn ==
  ASSUME NEW x \in 0 .. MaxLen, NEW f \in 0 .. 255
  PROVE  /\ x * IdleSkip \in Nat /\ TurnMost \in Nat
         /\ x * IdleSkip + (f + x * Cpi) \div 256 <= TurnMost
<1>1. /\ MaxLen \in Nat /\ IdleSkip \in Nat /\ Cpi \in Nat /\ x \in Nat /\ f \in Nat
      /\ MaxLen - x \in Nat
  BY TimerAssumption
<1>2. ASSUME NEW n \in Nat
      PROVE  x * n \in Nat /\ MaxLen * n \in Nat /\ x * n <= MaxLen * n
  <2> DEFINE d == MaxLen - x
  <2>1. d \in Nat /\ MaxLen = x + d
    BY <1>1
  <2> HIDE DEF d
  <2>2. d * n \in Nat /\ x * n \in Nat /\ (x + d) * n = x * n + d * n
    BY <1>1, <2>1
  <2> QED BY <2>1, <2>2
<1> DEFINE a == x * Cpi
           b == MaxLen * Cpi
<1>3. a \in Nat /\ b \in Nat /\ a <= b
  BY <1>1, <1>2
<1> HIDE DEF a, b
<1>4. /\ (f + a) \div 256 \in Nat /\ (255 + b) \div 256 \in Nat
      /\ (f + a) \div 256 <= (255 + b) \div 256
  BY <1>1, <1>3
<1>5. x * IdleSkip \in Nat /\ MaxLen * IdleSkip \in Nat /\ x * IdleSkip <= MaxLen * IdleSkip
  BY <1>1, <1>2
<1> DEFINE u == x * IdleSkip
           v == MaxLen * IdleSkip
<1> HIDE DEF u, v
<1>6. u \in Nat /\ v \in Nat /\ u <= v
  BY <1>5 DEF u, v
<1>7. u + (f + a) \div 256 <= v + (255 + b) \div 256 /\ v + (255 + b) \div 256 \in Nat
  BY <1>4, <1>6
<1> QED BY <1>6, <1>7 DEF TurnMost, a, b, u, v

\* One instruction more.
LEMMA OneMore ==
  ASSUME NEW x \in Nat, NEW n \in Nat
  PROVE  (x + 1) * n = x * n + n /\ x * n \in Nat
OBVIOUS

LEMMA LongestIs ==
  ASSUME NEW M \in Nat
  PROVE  /\ TurnMost \in Nat /\ LongestTurn(M) \in Nat
         /\ M <= LongestTurn(M) /\ TurnMost <= LongestTurn(M)
<1>1. TurnMost \in Nat
  BY PartOfTurn, ZeroInRange, 0 \in 0 .. 255
<1>2. LongestTurn(M) \in Nat /\ M <= LongestTurn(M) /\ TurnMost <= LongestTurn(M)
  BY <1>1 DEF LongestTurn
<1> QED BY <1>1, <1>2

LEMMA InitLooked ==
  ASSUME NEW M \in Nat, ShortRuns(M), Init
  PROVE  Looked(M)
<1>1. /\ at = "idle" /\ total = 0 /\ last = 0 /\ polls = 0 /\ budget = 0
  BY DEF Init
<1>2. (polls + 1) * LongestTurn(M) \in Nat /\ M + TurnMost \in Nat
  <2>1. LongestTurn(M) \in Nat /\ TurnMost \in Nat
    BY LongestIs
  <2>2. 0 * LongestTurn(M) \in Nat /\ (0 + 1) * LongestTurn(M) = 0 * LongestTurn(M) + LongestTurn(M)
    BY <2>1, OneMore, 0 \in Nat, Zenon
  <2> QED BY <1>1, <2>1, <2>2
<1>3. LookedCached(M) /\ LookedFirst(M)
  BY <1>1, <1>2 DEF LookedCached, LookedFirst
<1> QED BY <1>1, <1>3 DEF Looked

\* A look is at the present.
LEMMA LookIsNow ==
  ASSUME IInv, Look, total' = total
  PROVE  \A n \in Nat, m \in Nat : total' <= 2 * last' + 1 + n + m
<1>1. last' = total \div 2 /\ total \in Nat
  BY DEF Look, CheckCompareInterrupt, Timestamp, IInv, TypeOK
<1> QED BY <1>1

\* With the cached interpreter every turn of the loop stays within its share.
LEMMA LookedCachedStep ==
  ASSUME NEW M \in Nat, ShortRuns(M), IInv, Cached, budget <= M, LookedCached(M), [Next]_vars
  PROVE  LookedCached(M)'
<1> DEFINE L == LongestTurn(M)
           P == polls * L
<1>1. /\ L \in Nat /\ M <= L /\ TurnMost <= L /\ P \in Nat /\ (polls + 1) * L = P + L
  <2>1. L \in Nat /\ M <= L /\ TurnMost <= L
    BY LongestIs
  <2>2. polls \in Nat
    BY DEF IInv, TypeOK
  <2> HIDE DEF L
  <2> QED BY <2>1, <2>2, OneMore
<1>2. /\ total \in Nat /\ last \in Nat /\ polls \in Nat /\ executed \in Nat
      /\ spent \in Nat /\ budget \in Nat /\ PollInterval \in Nat /\ IdleSkip \in Nat
      /\ polls <= PollInterval - 1
  BY TimerAssumption DEF IInv, TypeOK
<1>3. at \in {"idle", "loop"} => total <= 2 * last + 1 + (P + L)
  BY <1>1 DEF LookedCached
<1>4. at = "body" => total <= 2 * last + 1 + P + executed * IdleSkip
  BY DEF LookedCached
<1>5. /\ executed * IdleSkip \in Nat
      /\ (executed + 1) * IdleSkip = executed * IdleSkip + IdleSkip
  BY <1>2, OneMore
<1> HIDE DEF L
<1>6. LookedCached(M)' <=>
        /\ at' \in {"idle", "loop"} => total' <= 2 * last' + 1 + (polls' + 1) * L
        /\ at' = "check" => total' <= 2 * last' + 1 + PollInterval * L
        /\ at' = "body" => total' <= 2 * last' + 1 + polls' * L + executed' * IdleSkip
  BY DEF LookedCached, L
<1> HIDE DEF P
<1>7. P = polls * L
  BY DEF P
<1>8. CASE HostCheck
  <2>1. at' = "idle" /\ polls' = polls /\ Look /\ total' = total
    BY <1>8 DEF HostCheck, clock
  <2>2. (polls' + 1) * L = P + L
    BY <1>1, <2>1
  <2>3. total' <= 2 * last' + 1 + (P + L) + 0
    BY <1>1, <2>1, LookIsNow
  <2>4. last' \in Nat /\ 2 * last' + 1 + (P + L) + 0 = 2 * last' + 1 + (P + L)
    BY <1>1, NextIInv DEF IInv, TypeOK
  <2> QED BY <1>6, <2>1, <2>2, <2>3, <2>4
<1>9. CASE Check
  <2>1. at' = "body" /\ polls' = polls /\ executed' = 0 /\ Look /\ total' = total
    BY <1>9 DEF Check, clock, IInv, Elapsed
  <2>2. polls' * L \in Nat /\ executed' * IdleSkip \in Nat
    BY <1>1, <1>2, <1>7, <2>1
  <2>3. total' <= 2 * last' + 1 + polls' * L + executed' * IdleSkip
    BY <2>1, <2>2, LookIsNow
  <2> QED BY <1>6, <2>1, <2>3
<1>10. CASE Run
  <2>1. at = "idle" /\ at' = "loop" /\ UNCHANGED <<total, last, polls>>
    BY <1>10 DEF Run, timer
  <2> QED BY <1>1, <1>3, <1>6, <1>7, <2>1
<1>11. CASE Iterate
  <2>1. at = "loop" /\ UNCHANGED <<total, last, executed>> /\ executed = 0
    BY <1>11 DEF Iterate, timer, clock, IInv, Elapsed
  <2>2. executed' * IdleSkip = 0
    BY <1>2, <2>1
  <2>3. CASE at' = "check" /\ polls + 1 >= PollInterval
    <3>1. polls + 1 = PollInterval
      BY <1>2, <2>3
    <3>2. PollInterval * L = P + L
      BY <1>1, <3>1
    <3> QED BY <1>1, <1>2, <1>3, <1>6, <2>1, <2>3, <3>2
  <2>4. CASE at' = "body" /\ polls' = polls + 1
    <3>1. polls' * L = P + L
      BY <1>1, <2>4
    <3> QED BY <1>1, <1>2, <1>3, <1>6, <2>1, <2>2, <2>4, <3>1
  <2> QED BY <1>11, <2>3, <2>4 DEF Iterate
<1>12. CASE Return
  <2>1. at = "loop" /\ at' = "idle" /\ UNCHANGED <<total, last, polls>>
    BY <1>12 DEF Return, Leave, timer, clock
  <2> QED BY <1>1, <1>3, <1>6, <1>7, <2>1
<1>13. CASE ReturnHalted
  <2>1. /\ at = "body" /\ executed = 0 /\ at' = "idle" /\ UNCHANGED <<last, polls>>
        /\ total' = total + (budget - spent)
    BY <1>13 DEF ReturnHalted, Leave, Advance
  <2>2. executed * IdleSkip = 0
    BY <1>2, <2>1
  <2>3. total' <= 2 * last' + 1 + (P + L)
    BY <1>1, <1>2, <1>4, <2>1, <2>2
  <2> QED BY <1>1, <1>6, <2>1, <2>3
<1>14. CASE Plain \/ SetHalt \/ ReadCount \/ MoveToCount \/ MoveToCompare
  <2>1. /\ at = "body" /\ at' = "body" /\ UNCHANGED <<total, last, polls>>
        /\ executed' = executed + 1
    BY <1>14
    DEF Plain, SetHalt, ReadCount, MoveToCount, MoveToCompare, Instruction, timer, GetCount,
        WriteCount, WriteCompare
  <2>2. total' <= 2 * last' + 1 + P + executed' * IdleSkip
    BY <1>1, <1>2, <1>4, <1>5, <2>1
  <2> QED BY <1>6, <1>7, <2>1, <2>2
<1>15. CASE Idle
  <2>1. /\ at = "body" /\ at' = "body" /\ UNCHANGED <<last, polls>>
        /\ executed' = executed + 1 /\ total' = total + IdleSkip
    BY <1>15 DEF Idle, Instruction, Advance
  <2>2. total' <= 2 * last' + 1 + P + executed' * IdleSkip
    BY <1>1, <1>2, <1>4, <1>5, <2>1
  <2> QED BY <1>6, <1>7, <2>1, <2>2
<1>16. CASE EndBlock
  <2> DEFINE n == (cpi + executed * Cpi) \div 256
  <2>1. /\ at = "body" /\ at' = "loop" /\ UNCHANGED <<last, polls>> /\ total' = total + n
    BY <1>16 DEF EndBlock, Charge, Advance
  <2>2. executed * IdleSkip + n <= TurnMost
    BY PartOfTurn DEF IInv, TypeOK
  <2>3. n \in Nat /\ TurnMost \in Nat
    <3> DEFINE c == cpi + executed * Cpi
    <3>1. c \in Nat /\ TurnMost \in Nat
      BY CostNat, LongestIs DEF IInv, TypeOK
    <3> HIDE DEF c
    <3>2. c \div 256 \in Nat
      BY <3>1
    <3> QED BY <3>1, <3>2 DEF c
  <2> HIDE DEF n
  <2>4. total' <= 2 * last' + 1 + (P + L)
    BY <1>1, <1>2, <1>4, <1>5, <2>1, <2>2, <2>3
  <2> QED BY <1>1, <1>6, <2>1, <2>4
<1>17. CASE Resume
  <2>1. at = "idle" /\ at' = "idle" /\ UNCHANGED <<total, last, polls>>
    BY <1>17 DEF Resume, clock, timer
  <2> QED BY <1>1, <1>3, <1>6, <1>7, <2>1
<1>18. CASE Reset
  <2>1. at' = "idle" /\ total' = 0 /\ last' = 0 /\ polls' = polls
    BY <1>18 DEF Reset
  <2> QED BY <1>1, <1>6, <2>1
<1>19. CASE UNCHANGED vars
  BY <1>19, Zenon DEF vars, clock, timer, LookedCached
<1> QED
  BY <1>8, <1>9, <1>10, <1>11, <1>12, <1>13, <1>14, <1>15, <1>16, <1>17, <1>18, <1>19
  DEF Next, Running

\* Without the cached interpreter only the Run since the look counts.
LEMMA LookedFirstStep ==
  ASSUME NEW M \in Nat, ShortRuns(M), IInv, ~Cached, budget <= M, LookedFirst(M), [Next]_vars
  PROVE  LookedFirst(M)'
<1>1. M + TurnMost \in Nat /\ TurnMost \in Nat
  BY LongestIs
<1>2. /\ total \in Nat /\ last \in Nat /\ executed \in Nat /\ spent \in Nat /\ budget \in Nat
      /\ IdleSkip \in Nat
  BY TimerAssumption DEF IInv, TypeOK
<1>3. /\ at \in {"idle", "check"} => total <= 2 * last + 1 + (M + TurnMost)
      /\ at \in {"loop", "body"} => total <= 2 * last + 1 + spent
      /\ at = "loop" => spent <= M + TurnMost
      /\ at = "body" => spent <= M + executed * IdleSkip
  BY DEF LookedFirst
<1>4. /\ executed * IdleSkip \in Nat
      /\ (executed + 1) * IdleSkip = executed * IdleSkip + IdleSkip
  BY <1>2, OneMore
<1>5. LookedFirst(M)' <=>
        /\ at' \in {"idle", "check"} => total' <= 2 * last' + 1 + (M + TurnMost)
        /\ at' \in {"loop", "body"} => total' <= 2 * last' + 1 + spent'
        /\ at' = "loop" => spent' <= M + TurnMost
        /\ at' = "body" => spent' <= M + executed' * IdleSkip
  BY DEF LookedFirst
<1>6. CASE HostCheck
  <2>1. at' = "idle" /\ Look /\ total' = total
    BY <1>6 DEF HostCheck, clock
  <2>2. total' <= 2 * last' + 1 + (M + TurnMost) + 0
    BY <1>1, <2>1, LookIsNow
  <2>3. last' \in Nat /\ 2 * last' + 1 + (M + TurnMost) + 0 = 2 * last' + 1 + (M + TurnMost)
    BY <1>1, NextIInv DEF IInv, TypeOK
  <2> QED BY <1>5, <2>1, <2>2, <2>3
<1>7. CASE Check
  <2>1. /\ at' = "body" /\ executed' = 0 /\ executed = 0 /\ Look /\ UNCHANGED <<total, spent>>
        /\ spent < budget
    BY <1>7 DEF Check, clock, IInv, Elapsed
  <2>2. total' <= 2 * last' + 1 + spent' + 0
    BY <1>2, <2>1, LookIsNow
  <2>3. last' \in Nat /\ spent' \in Nat /\ 2 * last' + 1 + spent' + 0 = 2 * last' + 1 + spent'
    BY NextIInv DEF IInv, TypeOK
  <2>4. spent' <= M + executed' * IdleSkip
    BY <1>2, <2>1
  <2> QED BY <1>5, <2>1, <2>2, <2>3, <2>4
<1>8. CASE Run
  <2>1. at = "idle" /\ at' = "check" /\ UNCHANGED <<total, last>>
    BY <1>8 DEF Run, timer
  <2> QED BY <1>3, <1>5, <2>1
<1>9. CASE Iterate
  <2>1. /\ at = "loop" /\ at' = "body" /\ UNCHANGED <<total, last, spent>> /\ spent < budget
        /\ executed' = 0
    BY <1>9 DEF Iterate, timer, clock, IInv, Elapsed
  <2>2. spent <= M + executed' * IdleSkip
    BY <1>2, <2>1
  <2> QED BY <1>3, <1>5, <2>1, <2>2
<1>10. CASE Return
  <2>1. at = "loop" /\ at' = "idle" /\ UNCHANGED <<total, last>>
    BY <1>10 DEF Return, Leave, timer, clock
  <2>2. total <= 2 * last + 1 + (M + TurnMost)
    BY <1>1, <1>2, <1>3, <2>1
  <2> QED BY <1>5, <2>1, <2>2
<1>11. CASE ReturnHalted
  <2>1. /\ at = "body" /\ executed = 0 /\ at' = "idle" /\ last' = last
        /\ total' = total + (budget - spent)
    BY <1>11 DEF ReturnHalted, Leave, Advance
  <2>2. total' <= 2 * last' + 1 + (M + TurnMost)
    BY <1>1, <1>2, <1>3, <2>1
  <2> QED BY <1>5, <2>1, <2>2
<1>12. CASE Plain \/ SetHalt \/ ReadCount \/ MoveToCount \/ MoveToCompare
  <2>1. /\ at = "body" /\ at' = "body" /\ UNCHANGED <<total, last, spent>>
        /\ executed' = executed + 1
    BY <1>12
    DEF Plain, SetHalt, ReadCount, MoveToCount, MoveToCompare, Instruction, timer, GetCount,
        WriteCount, WriteCompare
  <2>2. spent <= M + executed' * IdleSkip
    BY <1>2, <1>3, <1>4, <2>1
  <2> QED BY <1>3, <1>5, <2>1, <2>2
<1>13. CASE Idle
  <2>1. /\ at = "body" /\ at' = "body" /\ last' = last
        /\ executed' = executed + 1 /\ total' = total + IdleSkip /\ spent' = spent + IdleSkip
    BY <1>13 DEF Idle, Instruction, Advance
  <2>2. total' <= 2 * last' + 1 + spent' /\ spent' <= M + executed' * IdleSkip
    BY <1>2, <1>3, <1>4, <2>1
  <2> QED BY <1>5, <2>1, <2>2
<1>14. CASE EndBlock
  <2> DEFINE n == (cpi + executed * Cpi) \div 256
  <2>1. /\ at = "body" /\ at' = "loop" /\ last' = last
        /\ total' = total + n /\ spent' = spent + n
    BY <1>14 DEF EndBlock, Charge, Advance
  <2>2. executed * IdleSkip + n <= TurnMost
    BY PartOfTurn DEF IInv, TypeOK
  <2>3. n \in Nat
    <3> DEFINE c == cpi + executed * Cpi
    <3>1. c \in Nat
      BY CostNat DEF IInv, TypeOK
    <3> HIDE DEF c
    <3>2. c \div 256 \in Nat
      BY <3>1
    <3> QED BY <3>2 DEF c
  <2> HIDE DEF n
  <2>4. total' <= 2 * last' + 1 + spent' /\ spent' <= M + TurnMost
    BY <1>1, <1>2, <1>3, <1>4, <2>1, <2>2, <2>3
  <2> QED BY <1>5, <2>1, <2>4
<1>15. CASE Resume
  <2>1. at = "idle" /\ at' = "idle" /\ UNCHANGED <<total, last>>
    BY <1>15 DEF Resume, clock, timer
  <2> QED BY <1>3, <1>5, <2>1
<1>16. CASE Reset
  <2>1. at' = "idle" /\ total' = 0 /\ last' = 0
    BY <1>16 DEF Reset
  <2> QED BY <1>1, <1>5, <2>1
<1>17. CASE UNCHANGED vars
  BY <1>17, Zenon DEF vars, clock, timer, LookedFirst
<1> QED
  BY <1>6, <1>7, <1>8, <1>9, <1>10, <1>11, <1>12, <1>13, <1>14, <1>15, <1>16, <1>17
  DEF Next, Running

\* A budget is one of Budgets.
LEMMA BudgetStep ==
  ASSUME NEW M \in Nat, ShortRuns(M), IInv, budget <= M, [Next]_vars
  PROVE  budget' <= M
<1>1. CASE Run
  BY <1>1 DEF Run, ShortRuns
<1>2. CASE Reset
  BY <1>2 DEF Reset
<1>3. CASE UNCHANGED budget
  BY <1>3
<1> QED
  BY <1>1, <1>2, <1>3
  DEF Next, Running, HostCheck, Check, Iterate, Return, ReturnHalted, Leave, Plain, SetHalt,
      ReadCount, MoveToCount, MoveToCompare, Idle, Instruction, EndBlock, Resume, call, vars

\* No look comes later than a turn of Count after the one before.
LEMMA LookedInTime ==
  ASSUME NEW M \in Nat, ShortRuns(M), IInv, Looked(M)
  PROVE  Window
<1>1. total \in Nat /\ last \in Nat /\ CountMod \in Nat /\ TurnMost \in Nat
  BY TimerAssumption, LongestIs DEF IInv, TypeOK
<1>2. CASE at = "check"
  <2>1. total <= 2 * last + 1 + 2 * CountMod
    <3>1. CASE Cached
      <4> DEFINE all == PollInterval * LongestTurn(M)
      <4>1. all <= 2 * CountMod /\ total <= 2 * last + 1 + all
        BY <1>2, <3>1 DEF ShortRuns, Looked, LookedCached
      <4>2. all \in Nat
        <5>1. PollInterval \in Nat /\ LongestTurn(M) \in Nat
          BY TimerAssumption, LongestIs
        <5> QED BY <5>1, OneMore
      <4> HIDE DEF all
      <4> QED BY <1>1, <4>1, <4>2
    <3>2. CASE ~Cached
      BY <1>1, <1>2, <3>2 DEF ShortRuns, Looked, LookedFirst
    <3> QED BY <3>1, <3>2
  <2>2. total \div 2 - last <= CountMod
    BY <1>1, <2>1
  <2> QED BY <2>2 DEF Window, Timestamp
<1> QED BY <1>2 DEF Window

\* The timer interrupt is raised exactly when Count has met Compare, in every run of
\* a host whose Runs are short against a turn of Count: then looks are never too far
\* apart, halted or idle, cached or not (CheckCompareInterrupt).
THEOREM TimerCorrectInShortRuns ==
  ASSUME NEW M \in Nat, ShortRuns(M)
  PROVE  Spec => RaisedIfMet
<1>1. Init => Looked(M)
  BY InitLooked
<1>2. IInv /\ Looked(M) /\ [Next]_vars => Looked(M)'
  <2> SUFFICES ASSUME IInv, Looked(M), [Next]_vars PROVE Looked(M)'
    OBVIOUS
  <2>1. Cached => LookedCached(M)'
    BY LookedCachedStep DEF Looked
  <2>2. ~Cached => LookedFirst(M)'
    BY LookedFirstStep DEF Looked
  <2>3. budget' <= M
    BY BudgetStep DEF Looked
  <2> QED BY <2>1, <2>2, <2>3 DEF Looked
<1>3. IInv /\ Looked(M) => Window
  BY LookedInTime
<1> QED
  BY <1>1, <1>2, <1>3, InvariantHolds, TimerCorrect, PTL DEF Spec

\* A turn of the code costs at most 64 idle skips of 100 cycles and 64 instructions of
\* 256 cycles.
LEMMA TurnInTheCode ==
  ASSUME MaxLen <= 64, IdleSkip = 100, Cpi <= 256 * 256
  PROVE  TurnMost <= 64 * 356
<1>1. MaxLen \in Nat /\ Cpi \in Nat
  BY TimerAssumption
<1>2. ASSUME NEW m \in Nat, NEW c \in Nat, m <= 64, c <= 256 * 256
      PROVE  m * c \in Nat /\ m * c <= 64 * 256 * 256
  <2>1. /\ m * c \in Nat
        /\ (64 - m) * c >= 0
        /\ (64 - m) * c = 64 * c - m * c
    BY <1>2, SMT
  <2>2. 64 * c <= 64 * 256 * 256
    BY <1>2, SMT
  <2> QED BY <2>1, <2>2, SMT
<1> DEFINE a == MaxLen * Cpi
<1>3. a \in Nat /\ a <= 64 * 256 * 256
  BY <1>1, <1>2
<1> HIDE DEF a
<1>4. (255 + a) \div 256 <= 64 * 256
  BY <1>3, SMT
<1>5. MaxLen * IdleSkip <= 64 * 100
  BY <1>1, SMT
<1>6. (255 + a) \div 256 \in Nat /\ MaxLen * IdleSkip \in Nat
  BY <1>1, <1>3, SMT
<1> QED BY <1>4, <1>5, <1>6, SMT DEF TurnMost, a

\* The constants of the code are such: with Count of 32 bits, blocks of at most 64
\* instructions, idle skips of 100 cycles, a poll in four turns and any cost of an
\* instruction that cpi_ can hold (a uint16_t in 1/256 cycles), every budget that fits
\* Run's int is short enough.
THEOREM TimerCorrectInTheCode ==
  ASSUME CountMod = 4294967296, PollInterval = 4, MaxLen <= 64, IdleSkip = 100,
         Cpi <= 256 * 256, \A b \in Budgets : b <= 2147483647
  PROVE  Spec => RaisedIfMet
<1>1. TurnMost \in Nat /\ TurnMost <= 64 * 356
  BY TurnInTheCode, LongestIs, SMT
<1>2. LongestTurn(2147483647) = 2147483647
  BY <1>1, SMT DEF LongestTurn
<1>3. ShortRuns(2147483647)
  BY <1>1, <1>2, SMT DEF ShortRuns
<1>4. 2147483647 \in Nat
  BY SMT
<1> QED
  BY <1>3, <1>4, TimerCorrectInShortRuns, SMT


-----------------------------------------------------------------------------
(* How long a Run can take. *)

\* What is left of the budget, in 1/256 cycles.
Remaining(s, b, f) == IF s >= b THEN 0 ELSE 256 * b - 256 * s - f
Left == Remaining(spent, budget, cpi)

\* What is left of this turn of the loop.
Position ==
  CASE at = "idle"  -> 0
    [] at = "loop"  -> IF spent >= budget THEN 0 ELSE MaxLen + 3
    [] at = "check" -> MaxLen + 2
    [] at = "body"  -> (MaxLen - executed) + 1

Rank == (MaxLen + 4) * Left + Position

\* Every step of a Run brings its end nearer, from a distance that depends on the
\* budget alone: Run and RunCached return after finitely many steps, in an endless
\* loop, in the idle loop and on a halted core.
RunIsBounded ==
  [][/\ at = "idle" /\ at' # "idle" => Rank' <= (MaxLen + 4) * (256 * budget' + 1)
     /\ at # "idle" /\ at' # "idle" => Rank' < Rank]_vars

LEMMA LeftIs ==
  ASSUME NEW s \in Nat, NEW b \in Nat, NEW f \in 0 .. 255
  PROVE  Remaining(s, b, f) \in Nat /\ Remaining(s, b, f) <= 256 * b
<1>1. CASE ~(s >= b)
  <2>1. 256 * b - 256 * s - f \in 0 .. 256 * b
    BY <1>1
  <2> QED BY <1>1, <2>1 DEF Remaining
<1>2. CASE s >= b
  BY <1>2 DEF Remaining
<1> QED BY <1>1, <1>2

LEMMA LeftNat ==
  ASSUME IInv
  PROVE  Left \in Nat /\ Left <= 256 * budget /\ Position \in 0 .. MaxLen + 3
<1>1. /\ spent \in Nat /\ budget \in Nat /\ cpi \in 0 .. 255 /\ executed \in 0 .. MaxLen
      /\ MaxLen \in Nat /\ at \in {"idle", "loop", "check", "body"}
  BY ZeroInRange DEF IInv, TypeOK
<1>2. Left \in Nat /\ Left <= 256 * budget
  BY <1>1, LeftIs DEF Left
<1>3. Position \in 0 .. MaxLen + 3
  BY <1>1 DEF Position
<1> QED BY <1>1, <1>2, <1>3

LEMMA LeftNatNext ==
  ASSUME IInv'
  PROVE  Left' \in Nat /\ Left' <= 256 * budget' /\ Position' \in 0 .. MaxLen + 3
<1>1. /\ spent' \in Nat /\ budget' \in Nat /\ cpi' \in 0 .. 255 /\ executed' \in 0 .. MaxLen
      /\ MaxLen \in Nat /\ at' \in {"idle", "loop", "check", "body"}
  BY ZeroInRange DEF IInv, TypeOK
<1>2. Left' \in Nat /\ Left' <= 256 * budget'
  <2>1. Left' = Remaining(spent', budget', cpi')
    BY DEF Left
  <2>2. spent' \in Nat /\ budget' \in Nat /\ cpi' \in 0 .. 255
    BY <1>1, Zenon
  <2> QED BY <2>1, <2>2, LeftIs
<1>3. Position' \in 0 .. MaxLen + 3
  BY <1>1 DEF Position
<1> QED BY <1>2, <1>3, Zenon

\* The first of two numbers counts for more than the second can.
LEMMA Lexicographic ==
  ASSUME NEW k \in Nat, NEW l \in Nat, NEW m \in Nat, NEW p \in 0 .. k - 1, NEW q \in 0 .. k - 1,
         m < l \/ (m = l /\ q < p)
  PROVE  k * m + q < k * l + p
<1>1. CASE m < l
  <2> DEFINE d == l - m - 1
  <2>1. d \in Nat /\ l = (m + 1) + d
    BY <1>1
  <2> HIDE DEF d
  <2>2. k * ((m + 1) + d) = k * m + k + k * d /\ k * d \in Nat /\ k * m \in Nat
    BY <2>1
  <2> DEFINE u == k * m
             w == k * d
  <2>3. k * l = u + k + w /\ u \in Nat /\ w \in Nat
    BY <2>1, <2>2
  <2> HIDE DEF u, w
  <2>4. u + q < u + k + w + p
    BY <2>3
  <2> QED BY <2>3, <2>4 DEF u
<1>2. CASE m = l /\ q < p
  <2> DEFINE u == k * m
  <2>1. u \in Nat /\ k * l = u
    BY <1>2
  <2> HIDE DEF u
  <2>2. u + q < u + p
    BY <1>2, <2>1
  <2> QED BY <2>1, <2>2 DEF u
<1> QED BY <1>1, <1>2

\* A block of one instruction or more uses up some of the budget.
LEMMA ChargeLeft ==
  ASSUME IInv, EndBlock
  PROVE  Left' < Left \/ (Left = 0 /\ Left' = 0 /\ Position' = 0)
<1> DEFINE c == cpi + executed * Cpi
<1>1. /\ spent \in Nat /\ budget \in Nat /\ cpi \in 0 .. 255 /\ executed \in Nat \ {0}
      /\ Cpi \in Nat \ {0} /\ at' = "loop" /\ budget' = budget
      /\ spent' = spent + c \div 256 /\ cpi' = c % 256
  BY TimerAssumption DEF IInv, TypeOK, EndBlock, Charge, call
<1>2. c \in Nat /\ c > cpi
  <2>1. ASSUME NEW e \in Nat \ {0}, NEW n \in Nat \ {0}
        PROVE  e * n \in Nat \ {0}
    OBVIOUS
  <2>2. executed * Cpi \in Nat \ {0}
    BY <1>1, <2>1
  <2> QED BY <1>1, <2>2
<1> HIDE DEF c
<1>3. c \div 256 \in Nat /\ c % 256 \in 0 .. 255 /\ 256 * (c \div 256) + (c % 256) = c
  BY <1>2, SplitCost
<1> DEFINE n == c \div 256
           f == c % 256
<1>4. /\ n \in Nat /\ f \in 0 .. 255 /\ 256 * n + f = c
      /\ spent' = spent + n /\ cpi' = f
  BY <1>1, <1>3
<1> HIDE DEF n, f
<1>5. CASE spent >= budget
  <2>1. spent' >= budget'
    BY <1>1, <1>4, <1>5
  <2> QED BY <1>1, <1>5, <2>1 DEF Left, Remaining, Position
<1>6. CASE ~(spent >= budget)
  <2>1. Left = 256 * budget - 256 * spent - cpi
    BY <1>6 DEF Left, Remaining
  <2>2. CASE spent' >= budget'
    <3>1. Left' = 0
      BY <2>2 DEF Left, Remaining
    <3>2. 256 * budget - 256 * spent - cpi > 0
      BY <1>1, <1>6
    <3> QED BY <2>1, <3>1, <3>2
  <2>3. CASE ~(spent' >= budget')
    <3>1. Left' = 256 * budget - 256 * (spent + n) - f
      BY <1>1, <1>4, <2>3 DEF Left, Remaining
    <3>2. 256 * budget - 256 * (spent + n) - f < 256 * budget - 256 * spent - cpi
      BY <1>1, <1>2, <1>4
    <3> QED BY <2>1, <3>1, <3>2
  <2> QED BY <2>2, <2>3
<1> QED BY <1>5, <1>6

\* Time that passes does not make a budget larger.
LEMMA IdleLeft ==
  ASSUME IInv, Idle
  PROVE  Left' <= Left
<1>1. /\ spent \in Nat /\ budget \in Nat /\ cpi \in 0 .. 255 /\ IdleSkip \in Nat
      /\ budget' = budget /\ cpi' = cpi /\ spent' = spent + IdleSkip
  BY TimerAssumption DEF IInv, TypeOK, Idle, Instruction, call
<1>2. CASE spent' >= budget'
  <2>1. Left' = 0
    BY <1>2 DEF Left, Remaining
  <2> QED BY <2>1, LeftNat
<1>3. CASE ~(spent' >= budget')
  <2>1. Left' = 256 * budget - 256 * (spent + IdleSkip) - cpi
    BY <1>1, <1>3 DEF Left, Remaining
  <2>2. ~(spent >= budget)
    BY <1>1, <1>3
  <2>3. Left = 256 * budget - 256 * spent - cpi
    BY <2>2 DEF Left, Remaining
  <2> QED BY <1>1, <2>1, <2>3
<1> QED BY <1>2, <1>3

LEMMA StepDown ==
  ASSUME IInv, Next, at # "idle", at' # "idle"
  PROVE  \/ Left' < Left
         \/ Left' = Left /\ Position' < Position
<1>1. /\ Left \in Nat /\ Position \in 0 .. MaxLen + 3 /\ MaxLen \in Nat
      /\ executed \in 0 .. MaxLen
  <2>1. executed \in 0 .. MaxLen
    BY DEF IInv, TypeOK
  <2> QED BY <2>1, LeftNat, ZeroInRange
<1>2. Left' \in Nat
  BY NextIInv, LeftNatNext
<1>3. CASE Check
  <2>1. at = "check" /\ at' = "body" /\ executed' = 0 /\ UNCHANGED <<spent, budget, cpi>>
    BY <1>3 DEF Check, clock, call, IInv, Elapsed
  <2> QED BY <1>1, <2>1 DEF Left, Remaining, Position
<1>4. CASE Iterate
  <2>1. /\ at = "loop" /\ at' \in {"check", "body"} /\ executed' = 0
        /\ UNCHANGED <<spent, budget, cpi>> /\ spent < budget
    BY <1>4 DEF Iterate, clock, call, IInv, Elapsed
  <2>2. ~(spent >= budget)
    BY <2>1 DEF IInv, TypeOK
  <2>3. Left' = Left
    BY <2>1 DEF Left, Remaining
  <2>4. Position = MaxLen + 3
    BY <2>1, <2>2 DEF Position
  <2>5. Position' \in {MaxLen + 2, MaxLen + 1}
    BY <1>1, <2>1 DEF Position
  <2> QED BY <1>1, <2>3, <2>4, <2>5
<1>5. CASE Plain \/ SetHalt \/ ReadCount \/ MoveToCount \/ MoveToCompare
  <2>1. /\ at = "body" /\ at' = "body" /\ executed' = executed + 1
        /\ UNCHANGED <<spent, budget, cpi>>
    BY <1>5 DEF Plain, SetHalt, ReadCount, MoveToCount, MoveToCompare, Instruction, call
  <2>2. Left' = Left
    BY <2>1 DEF Left, Remaining
  <2> QED BY <1>1, <2>1, <2>2 DEF Position
<1>6. CASE Idle
  <2>1. at = "body" /\ at' = "body" /\ executed' = executed + 1
    BY <1>6 DEF Idle, Instruction
  <2>2. Position' < Position
    BY <1>1, <2>1 DEF Position
  <2> QED BY <1>1, <1>2, <1>6, <2>2, IdleLeft
<1>7. CASE EndBlock
  <2>1. at = "body" /\ Position > 0
    BY <1>1, <1>7 DEF EndBlock, Position
  <2> QED BY <1>7, <2>1, ChargeLeft
<1> QED
  BY <1>3, <1>4, <1>5, <1>6, <1>7
  DEF Next, Running, Run, HostCheck, Resume, Reset, Return, ReturnHalted, Leave

\* Run and RunCached end, whatever the program does: RunIsBounded.
THEOREM RunsAreBounded == Spec => [](Rank \in Nat) /\ RunIsBounded
<1>1. ASSUME IInv, Next, at = "idle", at' # "idle"
      PROVE  Rank' <= (MaxLen + 4) * (256 * budget' + 1)
  <2>1. /\ spent' = 0 /\ budget' \in Nat /\ cpi' \in 0 .. 255 /\ MaxLen \in Nat
        /\ Position' \in 0 .. MaxLen + 3 
        /\ Left' \in Nat /\ Left' <= 256 * budget'
    <3>1. spent' = 0
      BY <1>1
      DEF Next, Running, Run, HostCheck, Resume, Reset, Check, Iterate, Return, ReturnHalted,
          Plain, SetHalt, ReadCount, MoveToCount, MoveToCompare, Idle, Instruction, EndBlock
    <3>2. IInv'
      BY <1>1, NextIInv
    <3>3. Left' \in Nat /\ Left' <= 256 * budget' /\ Position' \in 0 .. MaxLen + 3
      BY <3>2, LeftNatNext, Zenon
    <3>4. budget' \in Nat /\ cpi' \in 0 .. 255
      BY <3>2 DEF IInv, TypeOK
    <3> QED BY <3>1, <3>3, <3>4, ZeroInRange, Zenon
  <2>3. ASSUME NEW k \in Nat, NEW l \in Nat, NEW b \in Nat, l <= b, NEW p \in 0 .. k - 1
        PROVE  k * l + p <= k * (b + 1)
    <3> DEFINE d == b - l
    <3>1. d \in Nat /\ b + 1 = l + d + 1
      BY <2>3
    <3> HIDE DEF d
    <3>2. k * (l + d + 1) = k * l + k * d + k /\ k * d \in Nat /\ k * l \in Nat
      BY <3>1
    <3> QED BY <3>1, <3>2
  <2>4. ASSUME NEW b \in Nat, NEW p \in 0 .. MaxLen + 3
        PROVE  256 * b \in Nat /\ p \in 0 .. (MaxLen + 4) - 1 /\ MaxLen + 4 \in Nat
    BY ZeroInRange
  <2>5. MaxLen + 4 \in Nat /\ 256 * budget' \in Nat /\ Position' \in 0 .. (MaxLen + 4) - 1
    BY <2>1, <2>4, Zenon
  <2>6. Left' \in Nat /\ Left' <= 256 * budget'
    BY <2>1, Zenon
  <2>7. (MaxLen + 4) * Left' + Position' <= (MaxLen + 4) * (256 * budget' + 1)
    BY <2>3, <2>5, <2>6, Zenon
  <2> QED BY <2>7, Zenon DEF Rank
<1>2. ASSUME IInv, Next, at # "idle", at' # "idle"
      PROVE  Rank' < Rank
  <2>1. /\ Left \in Nat /\ Position \in 0 .. (MaxLen + 4) - 1 /\ MaxLen + 4 \in Nat
    BY <1>2, LeftNat, ZeroInRange
  <2>2. Left' \in Nat /\ Position' \in 0 .. (MaxLen + 4) - 1
    <3>1. IInv'
      BY <1>2, NextIInv
    <3>2. Left' \in Nat /\ Position' \in 0 .. MaxLen + 3
      BY <3>1, LeftNatNext
    <3> QED BY <3>2, ZeroInRange
  <2>3. \/ Left' < Left
        \/ Left' = Left /\ Position' < Position
    BY <1>2, StepDown
  <2>4. (MaxLen + 4) * Left' + Position' < (MaxLen + 4) * Left + Position
    BY <2>1, <2>2, <2>3, Lexicographic
  <2> QED BY <2>4 DEF Rank
<1>3. ASSUME IInv
      PROVE  Rank \in Nat
  <2>1. Left \in Nat /\ Position \in Nat /\ MaxLen + 4 \in Nat
    BY <1>3, LeftNat, ZeroInRange
  <2>2. ASSUME NEW k \in Nat, NEW l \in Nat, NEW q \in Nat
        PROVE  k * l + q \in Nat
    OBVIOUS
  <2> QED BY <2>1, <2>2 DEF Rank
<1> QED
  BY <1>1, <1>2, <1>3, InvariantHolds, PTL DEF Spec, RunIsBounded
====
