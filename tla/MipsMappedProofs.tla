-------------------------- MODULE MipsMappedProofs --------------------------
(***************************************************************************)
(* Theorems about the block cache in mapped pages, for every size of page, *)
(* line and block, every program, and any sequence of mappings.            *)
(*                                                                         *)
(* A block is tied to memory by the frame of its start: its offset in the  *)
(* page is that of its virtual address, and the entries of its first page  *)
(* follow the start as they follow that address.                           *)
(***************************************************************************)
EXTENDS MipsMapped, SequenceTheorems, TLAPS

-----------------------------------------------------------------------------
(* Pages. *)

Offset(a) == a % PageWords

\* The page and the offset of an address are its quotient and remainder.
LEMMA Parts ==
  ASSUME NEW a \in Nat
  PROVE  /\ PageOf(a) \in Nat /\ Offset(a) \in 0 .. PageWords - 1
         /\ a = PageOf(a) * PageWords + Offset(a)
BY MappedAssumption DEF PageOf, Offset

\* They are the only ones.
LEMMA Unique ==
  ASSUME NEW p \in Nat, NEW r \in 0 .. PageWords - 1
  PROVE  PageOf(p * PageWords + r) = p /\ Offset(p * PageWords + r) = r
BY MappedAssumption DEF PageOf, Offset

\* An address in the page of another has the difference in its offset.
LEMMA SamePage ==
  ASSUME NEW a \in Nat, NEW b \in Nat, PageOf(a) = PageOf(b)
  PROVE  b - a = Offset(b) - Offset(a)
<1>. DEFINE x == PageOf(a) * PageWords
            r == Offset(a)
            t == Offset(b)
<1>1. x \in Int /\ r \in Int /\ t \in Int
  BY Parts, MappedAssumption
<1>2. a = x + r /\ b = x + t
  BY Parts
<1>. HIDE DEF x, r, t
<1>3. b - a = t - r
  BY <1>1, <1>2
<1>4. QED BY <1>3 DEF r, t

\* Quotients below a bound are those of the addresses below its multiple.
LEMMA Below ==
  ASSUME NEW a \in Nat, NEW n \in Nat
  PROVE  a < n * PageWords <=> PageOf(a) < n
<1>. DEFINE p == PageOf(a)
            r == Offset(a)
<1>1. p \in Nat /\ r \in 0 .. PageWords - 1 /\ a = p * PageWords + r
      /\ PageWords \in Nat \ {0}
  BY Parts, MappedAssumption
<1>. HIDE DEF p, r
<1>2. CASE p < n
  <2>1. n - p - 1 \in Nat
    BY <1>1, <1>2
  <2>2. (n - p - 1) * PageWords >= 0
    BY <1>1, <2>1
  <2>3. n * PageWords = (n - p - 1) * PageWords + p * PageWords + PageWords
    BY <1>1
  <2>4. p * PageWords \in Int /\ n * PageWords \in Int /\ (n - p - 1) * PageWords \in Int
    BY <1>1
  <2>5. QED BY <1>1, <1>2, <2>2, <2>3, <2>4 DEF p
<1>3. CASE ~(p < n)
  <2>1. p - n \in Nat
    BY <1>1, <1>3
  <2>2. (p - n) * PageWords >= 0
    BY <1>1, <2>1
  <2>3. p * PageWords = (p - n) * PageWords + n * PageWords
    BY <1>1
  <2>4. p * PageWords \in Int /\ n * PageWords \in Int /\ (p - n) * PageWords \in Int
    BY <1>1
  <2>5. QED BY <1>1, <1>3, <2>2, <2>3, <2>4 DEF p
<1>4. QED BY <1>2, <1>3

\* A multiple is the divisor times the quotient.
LEMMA Multiple ==
  ASSUME NEW m \in Nat \ {0}, NEW b \in Nat, b % m = 0
  PROVE  b \div m \in Nat /\ b = m * (b \div m)
OBVIOUS

\* A line that begins in a page ends in it.
LEMMA LineInPage ==
  ASSUME NEW a \in Nat, IsLine(a)
  PROVE  Offset(a) + LineWords <= PageWords
<1>. DEFINE q == PageWords \div LineWords
            x == a \div LineWords
            y == PageOf(a)
            r == Offset(a)
            L == LineWords
<1>1. /\ L \in Nat \ {0} /\ q \in Nat /\ x \in Nat /\ y \in Nat
      /\ PageWords = L * q /\ a = L * x
  BY Parts, Multiple, MappedAssumption DEF IsLine
<1>2. r \in 0 .. PageWords - 1 /\ a = y * PageWords + r
  BY Parts
<1>. HIDE DEF q, x, y, r, L
<1>3. r = L * (x - y * q)
  <2>1. y * PageWords = L * (y * q)
    BY <1>1
  <2>2. L * (x - y * q) = L * x - L * (y * q)
    BY <1>1
  <2>3. L * (y * q) \in Int /\ L * x \in Int
    BY <1>1
  <2>4. QED BY <1>1, <1>2, <2>1, <2>2, <2>3
<1>. DEFINE d == q - (x - y * q)
<1>4. d \in Int /\ L * d = PageWords - r
  BY <1>1, <1>3
<1>. HIDE DEF d
<1>5. d >= 1
  BY <1>1, <1>2, <1>4
<1>6. L * d >= L
  BY <1>1, <1>4, <1>5
<1>7. QED BY <1>1, <1>2, <1>4, <1>6 DEF r, L

\* Another address with that offset is the beginning of a line too.
LEMMA LineMoved ==
  ASSUME NEW a \in Nat, NEW b \in Nat, Offset(a) = Offset(b), IsLine(a)
  PROVE  IsLine(b)
<1>. DEFINE L == LineWords
            q == PageWords \div L
            x == a \div L
            y == PageOf(a)
            z == PageOf(b)
            r == Offset(a)
<1>1. /\ L \in Nat \ {0} /\ q \in Nat /\ x \in Nat /\ y \in Nat /\ z \in Nat
      /\ PageWords = L * q /\ a = L * x
  BY Parts, Multiple, MappedAssumption DEF IsLine
<1>2. r \in Int /\ a = y * PageWords + r /\ b = z * PageWords + r
  BY Parts, MappedAssumption
<1>. HIDE DEF L, q, x, y, z, r
<1>3. b = L * (x - y * q + z * q)
  <2>1. y * PageWords = L * (y * q) /\ z * PageWords = L * (z * q)
    BY <1>1
  <2>2. L * (x - y * q + z * q) = L * x - L * (y * q) + L * (z * q)
    BY <1>1
  <2>3. L * (y * q) \in Int /\ L * (z * q) \in Int /\ L * x \in Int
    BY <1>1
  <2>4. QED BY <1>1, <1>2, <2>1, <2>2, <2>3
<1>. DEFINE d == x - y * q + z * q
<1>4. d \in Int
  BY <1>1
<1>5. b = L * d
  BY <1>3
<1>. HIDE DEF d
<1>6. b % L = 0
  BY <1>1, <1>4, <1>5
<1>7. QED BY <1>6 DEF IsLine, L

-----------------------------------------------------------------------------
(* The invariant. *)

\* User code runs while a block is sought or run.
Running == phase \in {"get", "exec", "panic"}
UserPc == Running => pc \in Nat

\* Requests are served before user code goes on.
Quiet == Running => pending = {} /\ posted = {}

\* Memory is one of the contents a copy may have.
Current == \A w \in Words : mem[w] \in seen[w]

\* A block begins as far into its frame as into its page.
InStep == \A s \in DOMAIN cache : Offset(s) = Offset(cache[s].va)

\* A block that holds a word whose invalidation is requested is queued.
Queued ==
  ~strayed =>
    \A s \in DOMAIN cache : \A w \in posted : Contains(s, w) => s \in pending

\* The block being run is the one kept under the frame of first, and pc_ is at
\* the entry to run next: the first one, or the one with that address.
Held ==
  phase = "exec" =>
    /\ first \in VWords /\ Mapped(first)
    /\ Translate(first) \in DOMAIN cache /\ cur = cache[Translate(first)]
    /\ i \in 1 .. Len(cur.ops)
    /\ pc = IF i = 1 THEN first ELSE cur.va + i - 1

IInv ==
  /\ TypeOK /\ UserPc /\ Quiet /\ Current /\ InStep
  /\ Queued /\ StartPageCoherent /\ Held /\ MissIsAhead

-----------------------------------------------------------------------------
(* Translation. *)

\* The first page has an address, and user code starts at one.
LEMMA Zero == 0 \in VWords /\ Entry \subseteq Nat /\ VWords \subseteq Nat /\ Words \subseteq Nat
<1>1. VPages \in Nat /\ 0 < VPages /\ PageWords \in Nat /\ Frames \in Nat
  BY MappedAssumption
<1>2. VPages * PageWords \in Nat /\ Frames * PageWords \in Nat
  BY <1>1
<1>3. PageOf(0) = 0
  BY <1>1, MappedAssumption DEF PageOf
<1>4. 0 < VPages * PageWords
  BY <1>1, <1>3, Below
<1>5. 0 \in VWords
  BY <1>2, <1>4 DEF VWords
<1>6. VWords \subseteq Nat /\ Words \subseteq Nat
  BY <1>2 DEF VWords, Words
<1>7. QED BY <1>5, <1>6, MappedAssumption

\* The addresses below the end of the pages are those of the pages.
LEMMA InPages ==
  ASSUME NEW a \in Nat
  PROVE  /\ a \in VWords <=> PageOf(a) \in 0 .. VPages - 1
         /\ a \in Words <=> PageOf(a) \in 0 .. Frames - 1
<1>1. VPages \in Nat /\ PageWords \in Nat /\ Frames \in Nat /\ PageOf(a) \in Nat
  BY MappedAssumption, Parts
<1>2. VPages * PageWords \in Nat /\ Frames * PageWords \in Nat
  BY <1>1
<1>3. a < VPages * PageWords <=> PageOf(a) < VPages
  BY <1>1, Below
<1>4. a < Frames * PageWords <=> PageOf(a) < Frames
  BY <1>1, Below
<1>5. a \in VWords <=> a < VPages * PageWords
  BY <1>2 DEF VWords
<1>6. a \in Words <=> a < Frames * PageWords
  BY <1>2 DEF Words
<1>7. QED BY <1>1, <1>3, <1>4, <1>5, <1>6

\* A mapped address is translated to the same place in a frame.
LEMMA Translated ==
  ASSUME TypeOK, NEW a, Mapped(a)
  PROVE  /\ a \in Nat /\ Translate(a) \in Words
         /\ PageOf(Translate(a)) = page[PageOf(a)]
         /\ Offset(Translate(a)) = Offset(a)
<1>1. a \in VWords /\ a \in Nat /\ page[PageOf(a)] # None
  BY Zero DEF Mapped
<1>2. PageOf(a) \in 0 .. VPages - 1
  BY <1>1, InPages
<1>3. page[PageOf(a)] \in 0 .. Frames - 1
  BY <1>1, <1>2 DEF TypeOK
<1>. DEFINE f == page[PageOf(a)]
            r == Offset(a)
            x == Translate(a)
<1>4. f \in Nat /\ r \in 0 .. PageWords - 1 /\ x = f * PageWords + r
  BY <1>1, <1>3, Parts, MappedAssumption DEF Translate, Offset
<1>. HIDE DEF f, r, x
<1>5. x \in Nat /\ PageOf(x) = f /\ Offset(x) = r
  <2>1. PageOf(f * PageWords + r) = f /\ Offset(f * PageWords + r) = r
    BY <1>4, Unique
  <2>2. f * PageWords \in Nat /\ r \in Nat
    BY <1>4, MappedAssumption
  <2>3. f * PageWords + r \in Nat
    BY <2>2
  <2>4. QED BY <1>4, <2>1, <2>3
<1>6. x \in Words
  BY <1>3, <1>5, InPages DEF f
<1>7. QED BY <1>1, <1>5, <1>6 DEF f, r, x

\* Addresses of one page are translated side by side.
LEMMA SideBySide ==
  ASSUME TypeOK, NEW a, NEW b \in Nat, Mapped(a), PageOf(b) = PageOf(a)
  PROVE  Mapped(b) /\ Translate(b) - Translate(a) = b - a
<1>1. a \in Nat /\ a \in VWords /\ page[PageOf(a)] # None
  BY Zero DEF Mapped
<1>2. Mapped(b)
  BY <1>1, InPages DEF Mapped
<1>3. Translate(a) \in Nat /\ Translate(b) \in Nat
  BY <1>2, Translated, Zero
<1>4. Offset(Translate(b)) = Offset(b) /\ Offset(Translate(a)) = Offset(a)
      /\ PageOf(Translate(a)) = PageOf(Translate(b))
  BY <1>2, Translated
<1>5. Translate(b) - Translate(a) = Offset(b) - Offset(a)
  BY <1>3, <1>4, SamePage
<1>6. b - a = Offset(b) - Offset(a)
  BY <1>1, SamePage
<1>7. Translate(b) - Translate(a) = b - a
  BY <1>5, <1>6
<1>8. QED BY <1>2, <1>7

-----------------------------------------------------------------------------
(* What some steps do. *)

\* What OnNewBlock adds: a block that starts at pc_ and is a copy of the words
\* mapped there.
LEMMA NewBlock ==
  ASSUME TypeOK, OnNewBlock
  PROVE  \E b \in Block :
           /\ b.va = pc /\ Len(b.ops) \in 1 .. MaxLen
           /\ \A k \in 1 .. Len(b.ops) :
                Mapped(pc + k - 1) /\ b.ops[k] = mem[Translate(pc + k - 1)]
           /\ cache' = [s \in DOMAIN cache \cup {Translate(pc)} |->
                          IF s # Translate(pc) THEN cache[s] ELSE b]
<1>1. PICK n \in 1 .. MaxLen :
        /\ BodyReaches(pc, n) /\ Mapped(pc + n - 1) /\ BodyEnds(pc, n)
        /\ Mapped(pc + Fetches(pc, n) - 1)
        /\ cache' = [s \in DOMAIN cache \cup {Translate(pc)} |->
                       IF s # Translate(pc) THEN cache[s]
                       ELSE [va |-> pc,
                             ops |-> [k \in 1 .. Fetches(pc, n) |-> Fetched(pc + k - 1)]]]
  BY Zenon DEF OnNewBlock
<1>. DEFINE len == Fetches(pc, n)
<1>2. n \in Nat /\ n >= 1 /\ MaxLen \in Nat /\ MaxLen >= 2
  BY MappedAssumption
<1>3. pc \in Int
  BY DEF TypeOK, Kernel
<1>4. n <= MaxLen - 1
  <2>1. CASE n = MaxLen
    <3>1. MaxLen - 1 \in 1 .. n - 1
      BY <1>2, <2>1
    <3>2. ~BodyEnds(pc, MaxLen - 1)
      BY <1>1, <3>1 DEF BodyReaches
    <3>3. QED BY <3>2 DEF BodyEnds
  <2>2. QED BY <1>2, <2>1
<1>5. len \in Nat /\ len \in 1 .. MaxLen /\ (len = n \/ len = n + 1)
  BY <1>2, <1>4 DEF Fetches
<1>6. ASSUME NEW k \in 1 .. len
      PROVE  Mapped(pc + k - 1)
  <2>1. CASE k < n
    <3>1. k \in 1 .. n - 1
      BY <1>2, <1>5, <2>1
    <3>2. QED BY <1>1, <3>1 DEF BodyReaches
  <2>2. CASE k = n
    BY <1>1, <2>2
  <2>3. CASE k = len
    BY <1>1, <2>3
  <2>4. QED BY <1>2, <1>5, <2>1, <2>2, <2>3
<1>. DEFINE ops == [k \in 1 .. len |-> Fetched(pc + k - 1)]
            b == [va |-> pc, ops |-> ops]
<1>7. \A k \in 1 .. len : Fetched(pc + k - 1) \in Ops
  BY <1>6, Translated DEF Fetched, TypeOK
<1>. HIDE DEF len
<1>8. ops \in Seq(Ops) /\ Len(ops) = len
  <2>1. ops \in [1 .. len -> Ops]
    BY <1>7
  <2>. HIDE DEF ops
  <2>2. QED BY <1>5, <2>1, SeqDef, LenProperties DEF ops
<1>9. pc \in VWords
  <2>1. 1 \in 1 .. len /\ pc + 1 - 1 = pc
    BY <1>3, <1>5
  <2>2. Mapped(pc)
    BY <1>6, <2>1
  <2>3. QED BY <2>2 DEF Mapped
<1>10. b \in Block /\ b.va = pc /\ b.ops = ops
  BY <1>8, <1>9 DEF Block
<1>11. \A k \in 1 .. Len(b.ops) :
         Mapped(pc + k - 1) /\ b.ops[k] = mem[Translate(pc + k - 1)]
  BY <1>6, <1>8, <1>10 DEF Fetched
<1>12. cache' = [s \in DOMAIN cache \cup {Translate(pc)} |->
                   IF s # Translate(pc) THEN cache[s] ELSE b]
  BY <1>1 DEF len
<1>13. QED BY <1>5, <1>8, <1>10, <1>11, <1>12

\* A round of the clearing loop takes a request from the queue; it erases the block
\* that starts there, or strays.
LEMMA ClearOneEffect ==
  ASSUME TypeOK, ClearOne
  PROVE  \E a \in pending :
           /\ pending' = pending \ {a}
           /\ \/ \E s \in DOMAIN cache :
                   /\ Contains(s, a) /\ Erase(s) /\ strayed' = (strayed \/ s # a)
              \/ /\ \A s \in DOMAIN cache : ~Contains(s, a)
                 /\ UNCHANGED <<cache, strayed>>
BY Zenon DEF ClearOne

\* A line that is invalidated lies in memory.
LEMMA LineInMemory ==
  ASSUME TypeOK, NEW w \in Words, IsLine(w)
  PROVE  w .. w + LineWords - 1 \subseteq Words
<1>1. w \in Nat /\ LineWords \in Nat \ {0} /\ Offset(w) + LineWords <= PageWords
  BY Zero, LineInPage, MappedAssumption
<1>. DEFINE p == PageOf(w) * PageWords
            r == Offset(w)
<1>2. p \in Nat /\ r \in Nat /\ w = p + r /\ PageWords \in Nat /\ PageOf(w) \in Nat
  <2>1. /\ PageOf(w) \in Nat /\ PageWords \in Nat /\ r \in 0 .. PageWords - 1
        /\ w = p + r
    BY <1>1, Parts, MappedAssumption
  <2>2. p \in Nat
    BY <2>1
  <2>3. QED BY <2>1, <2>2
<1>. HIDE DEF p, r
<1>3. ASSUME NEW x \in w .. w + LineWords - 1
      PROVE  x \in Words
  <2>1. x \in Nat /\ x - p \in 0 .. PageWords - 1
    BY <1>1, <1>2 DEF r
  <2>2. PageOf(p + (x - p)) = PageOf(w)
    BY <1>2, <2>1, Unique DEF p
  <2>3. p + (x - p) = x
    BY <1>2, <2>1
  <2>4. PageOf(x) = PageOf(w)
    BY <2>2, <2>3
  <2>5. QED BY <1>1, <2>1, <2>4, InPages
<1>4. QED BY <1>3

\* CACHE requests the invalidation of a line of memory and queues its blocks.
LEMMA CacheEffect ==
  ASSUME TypeOK, CacheMapped \/ CacheUnmapped
  PROVE  \E w \in Words : IsLine(w) /\ Invalidate(w)
<1>1. CASE CacheUnmapped
  BY <1>1 DEF CacheUnmapped
<1>2. CASE CacheMapped
  <2>1. PICK a \in VWords : IsLine(a) /\ Mapped(a) /\ Invalidate(Translate(a))
    BY <1>2 DEF CacheMapped
  <2>2. /\ a \in Nat /\ Translate(a) \in Words /\ Translate(a) \in Nat
        /\ Offset(Translate(a)) = Offset(a)
    BY <2>1, Translated, Zero
  <2>3. /\ PageOf(a) \in Nat /\ PageOf(Translate(a)) \in Nat /\ Offset(a) \in Nat
        /\ a = PageOf(a) * PageWords + Offset(a)
        /\ Translate(a) = PageOf(Translate(a)) * PageWords + Offset(a)
    BY <2>2, Parts, MappedAssumption
  <2>4. IsLine(Translate(a))
    BY <2>1, <2>2, <2>3, LineMoved
  <2>5. QED BY <2>1, <2>2, <2>4
<1>3. QED BY <1>1, <1>2

\* The loop goes on with the next entry, or leaves the block.
LEMMA NextEntryType ==
  ASSUME TypeOK, phase = "exec", NextEntry
  PROVE  /\ cur' \in Block /\ i' \in Nat \ {0} /\ first' \in Nat
         /\ phase' \in {"exec", "head"}
         /\ phase' = "exec" =>
              /\ cur' = cur /\ first' = first /\ i' = i + 1
              /\ i' \in 1 .. Len(cur.ops) /\ pc' = cur.va + i' - 1 /\ pc' \in Nat
<1>1. /\ NoBlock \in Block
      /\ cur.va \in Nat /\ Len(cur.ops) \in Nat /\ i \in Nat \ {0}
  BY Zero, EmptySeq, LenProperties DEF TypeOK, Block, NoBlock
<1>2. CASE i < Len(cur.ops) /\ pc' = cur.va + i
  BY <1>1, <1>2 DEF NextEntry, TypeOK
<1>3. CASE ~(i < Len(cur.ops) /\ pc' = cur.va + i)
  BY <1>1, <1>3 DEF NextEntry
<1>4. QED BY <1>2, <1>3

\* The instructions of a block change pc_, the delay slot and the place in the
\* block only.
LEMMA ExecEffect ==
  ASSUME TypeOK, UserPc, ExecPlain \/ ExecBranch \/ ExecTrap
  PROVE  /\ phase = "exec" /\ NextEntry
         /\ pc' \in Nat \cup {Kernel} /\ dst' \in Entry \cup {None}
         /\ UNCHANGED <<mem, page, cache, pending, missed, seen, posted, strayed>>
<1>1. phase = "exec" /\ NextEntry
      /\ UNCHANGED <<mem, page, cache, pending, missed, seen, posted, strayed>>
  BY DEF ExecPlain, ExecBranch, ExecTrap, history
<1>2. pc \in Nat /\ dst \in Entry \cup {None} /\ Entry \subseteq Nat
  BY <1>1, Zero DEF UserPc, Running, TypeOK
<1>3. NextPc \in Nat
  BY <1>2 DEF NextPc
<1>4. pc + 2 \in Nat
  BY <1>2
<1>5. pc' \in Nat \cup {Kernel} /\ dst' \in Entry \cup {None}
  BY <1>2, <1>3, <1>4 DEF ExecPlain, ExecBranch, ExecTrap, Exception
<1>6. QED BY <1>1, <1>5

-----------------------------------------------------------------------------
(* Types. *)

\* Every step keeps the types.
LEMMA TypeStep ==
  ASSUME TypeOK, UserPc, [Next]_vars
  PROVE  TypeOK'
<1>1. CASE UNCHANGED vars
  BY <1>1 DEF vars, turn, history, TypeOK
<1>2. CASE Interrupt
  BY <1>2 DEF Interrupt, turn, history, TypeOK
<1>3. CASE ClearOne
  <2>1. PICK a \in pending :
          /\ pending' = pending \ {a}
          /\ \/ \E s \in DOMAIN cache :
                  /\ Contains(s, a) /\ Erase(s) /\ strayed' = (strayed \/ s # a)
             \/ /\ \A s \in DOMAIN cache : ~Contains(s, a)
                /\ UNCHANGED <<cache, strayed>>
    BY <1>3, ClearOneEffect
  <2>2. /\ DOMAIN cache' \subseteq DOMAIN cache
        /\ \A t \in DOMAIN cache' : cache'[t] = cache[t]
        /\ strayed' \in BOOLEAN
    BY <2>1 DEF Erase, TypeOK
  <2>3. QED BY <1>3, <2>1, <2>2 DEF ClearOne, turn, TypeOK
<1>4. CASE Turn
  BY <1>4 DEF Turn, turn, TypeOK
<1>5. CASE MapPage
  <2>1. page' \in [0 .. VPages - 1 -> 0 .. Frames - 1 \cup {None}]
    BY <1>5 DEF MapPage, TypeOK
  <2>2. QED BY <1>5, <2>1 DEF MapPage, turn, history, TypeOK
<1>6. CASE StoreCode
  <2>1. PICK p \in Patches : mem' = [mem EXCEPT ![p[1]] = p[2]]
                             /\ seen' = [seen EXCEPT ![p[1]] = @ \cup {p[2]}]
    BY <1>6 DEF StoreCode
  <2>2. p[1] \in Words /\ p[2] \in Ops
    BY MappedAssumption
  <2>3. mem' \in [Words -> Ops] /\ seen' \in [Words -> SUBSET Ops]
    BY <2>1, <2>2 DEF TypeOK
  <2>4. QED BY <1>6, <2>3 DEF StoreCode, turn, TypeOK
<1>7. CASE CacheMapped \/ CacheUnmapped
  <2>1. PICK w \in Words : IsLine(w) /\ Invalidate(w)
    BY <1>7, CacheEffect
  <2>2. pending' \subseteq Words
    BY <2>1 DEF Invalidate, Overlapping, TypeOK
  <2>3. posted' \subseteq Words
    BY <2>1, LineInMemory DEF Invalidate, TypeOK
  <2>4. UNCHANGED <<mem, page, cache, phase, pc, dst, turn, missed, seen, strayed>>
    BY <1>7 DEF CacheMapped, CacheUnmapped
  <2>5. QED BY <2>2, <2>3, <2>4 DEF turn, TypeOK
<1>8. CASE KernelTurn
  <2>1. pc' \in Nat \cup {Kernel}
    BY <1>8, Zero DEF KernelTurn
  <2>2. QED BY <1>8, <2>1 DEF KernelTurn, turn, history, TypeOK
<1>9. CASE GetBlock
  <2>1. cache[Translate(pc)] \in Block /\ pc \in Nat
    BY <1>9 DEF GetBlock, Hit, TypeOK, UserPc, Running
  <2>2. QED BY <1>9, <2>1 DEF GetBlock, history, TypeOK
<1>10. CASE OnNewBlock
  <2>1. PICK b \in Block :
          /\ b.va = pc /\ Len(b.ops) \in 1 .. MaxLen
          /\ \A k \in 1 .. Len(b.ops) :
               Mapped(pc + k - 1) /\ b.ops[k] = mem[Translate(pc + k - 1)]
          /\ cache' = [s \in DOMAIN cache \cup {Translate(pc)} |->
                         IF s # Translate(pc) THEN cache[s] ELSE b]
    BY <1>10, NewBlock
  <2>2. pc \in Int /\ 1 \in 1 .. Len(b.ops)
    BY <2>1 DEF TypeOK, Kernel
  <2>3. Mapped(pc + 1 - 1) /\ pc + 1 - 1 = pc
    BY <2>1, <2>2
  <2>4. Translate(pc) \in Words
    BY <2>3, Translated
  <2>5. DOMAIN cache' \subseteq Words
    BY <2>1, <2>4 DEF TypeOK
  <2>6. \A s \in DOMAIN cache' : cache'[s] \in Block /\ Len(cache'[s].ops) \in 1 .. MaxLen
    BY <2>1 DEF TypeOK
  <2>7. QED BY <1>10, <2>5, <2>6 DEF OnNewBlock, turn, history, TypeOK
<1>11. CASE DecodeMisses
  <2>1. PICK n \in 1 .. MaxLen : missed' = pc + n - 1 \/ missed' = pc + n
    BY <1>11 DEF DecodeMisses
  <2>2. pc \in Nat /\ n \in Nat /\ n >= 1
    BY <1>11, MappedAssumption DEF DecodeMisses, UserPc, Running
  <2>3. missed' \in Nat
    BY <2>1, <2>2
  <2>4. QED BY <1>11, <2>3 DEF DecodeMisses, turn, history, TypeOK
<1>12. CASE ExecPlain \/ ExecBranch \/ ExecTrap
  BY <1>12, ExecEffect, NextEntryType DEF TypeOK
<1>13. QED
  BY <1>1, <1>2, <1>3, <1>4, <1>5, <1>6, <1>7, <1>8, <1>9, <1>10, <1>11, <1>12
  DEF Next

\* User code has a program counter, also after a block goes on.
LEMMA UserPcStep ==
  ASSUME TypeOK, UserPc, [Next]_vars
  PROVE  UserPc'
<1>1. CASE UNCHANGED <<phase, pc>>
  BY <1>1 DEF UserPc, Running
<1>2. CASE Turn
  BY <1>2 DEF Turn, turn, UserPc, Running, TypeOK
<1>3. CASE pc' = pc /\ Running
  BY <1>3 DEF UserPc
<1>4. CASE phase' \notin {"get", "exec", "panic"}
  BY <1>4 DEF UserPc, Running
<1>5. CASE ExecPlain \/ ExecBranch \/ ExecTrap
  <2>1. phase' = "exec" => pc' \in Nat
    BY <1>5, ExecEffect, NextEntryType
  <2>2. phase' \in {"exec", "head"}
    BY <1>5, ExecEffect, NextEntryType
  <2>3. QED BY <2>1, <2>2 DEF UserPc, Running
<1>6. QED
  BY <1>1, <1>2, <1>3, <1>4, <1>5
  DEF Next, vars, turn, Running, Interrupt, ClearOne, MapPage, StoreCode, CacheMapped,
      CacheUnmapped, KernelTurn, GetBlock, OnNewBlock, DecodeMisses

-----------------------------------------------------------------------------
(* Requests and what memory held. *)

\* Requests are made in the kernel and served by Turn.
LEMMA QuietStep ==
  ASSUME Quiet, [Next]_vars
  PROVE  Quiet'
BY DEF Quiet, Running, Next, vars, turn, history, Interrupt, ClearOne, Turn, MapPage,
       StoreCode, CacheMapped, CacheUnmapped, KernelTurn, GetBlock, OnNewBlock,
       DecodeMisses, ExecPlain, ExecBranch, ExecTrap

\* The steps that change memory or its history.
LEMMA SeenSteps ==
  ASSUME [Next]_vars
  PROVE  UNCHANGED <<mem, seen>> \/ Turn \/ StoreCode
BY DEF Next, vars, turn, history, Interrupt, ClearOne, MapPage,
       CacheMapped, CacheUnmapped, KernelTurn, GetBlock, OnNewBlock,
       DecodeMisses, ExecPlain, ExecBranch, ExecTrap

\* What memory holds is always one of the contents seen.
LEMMA CurrentStep ==
  ASSUME TypeOK, Current, [Next]_vars
  PROVE  Current'
<1>1. CASE UNCHANGED <<mem, seen>>
  BY <1>1 DEF Current
<1>2. CASE Turn
  BY <1>2 DEF Turn, Current
<1>3. CASE StoreCode
  <2>1. PICK p \in Patches : mem' = [mem EXCEPT ![p[1]] = p[2]]
                             /\ seen' = [seen EXCEPT ![p[1]] = @ \cup {p[2]}]
    BY <1>3 DEF StoreCode
  <2>2. ASSUME NEW w \in Words
        PROVE  mem'[w] \in seen'[w]
    <3>1. CASE w = p[1]
      BY <2>1, <3>1 DEF TypeOK
    <3>2. CASE w # p[1]
      BY <2>1, <3>2 DEF TypeOK, Current
    <3>3. QED BY <3>1, <3>2
  <2>3. QED BY <2>2 DEF Current
<1>4. QED BY <1>1, <1>2, <1>3, SeenSteps

-----------------------------------------------------------------------------
(* The blocks. *)

\* The steps that change the map.
LEMMA CacheSteps ==
  ASSUME [Next]_vars
  PROVE  UNCHANGED cache \/ ClearOne \/ OnNewBlock
BY DEF Next, vars, turn, history, Interrupt, Turn, MapPage, StoreCode,
       CacheMapped, CacheUnmapped, KernelTurn, GetBlock,
       DecodeMisses, ExecPlain, ExecBranch, ExecTrap

\* A round of the clearing loop adds no block.
LEMMA ClearOneKeeps ==
  ASSUME TypeOK, ClearOne
  PROVE  /\ DOMAIN cache' \subseteq DOMAIN cache
         /\ \A s \in DOMAIN cache' : cache'[s] = cache[s]
         /\ strayed => strayed'
<1>1. CASE UNCHANGED <<cache, strayed>>
  BY <1>1
<1>2. ASSUME NEW s \in DOMAIN cache, NEW a, Erase(s), strayed' = (strayed \/ s # a)
      PROVE  /\ DOMAIN cache' \subseteq DOMAIN cache
             /\ \A t \in DOMAIN cache' : cache'[t] = cache[t]
             /\ strayed => strayed'
  BY <1>2 DEF Erase
<1>3. QED BY <1>1, <1>2, ClearOneEffect

\* What a block that is kept is, after the step that keeps it.
LEMMA NewOrOld ==
  ASSUME TypeOK, OnNewBlock
  PROVE  /\ Mapped(pc) /\ Translate(pc) \in DOMAIN cache'
         /\ \A s \in DOMAIN cache' :
              \/ s \in DOMAIN cache /\ s # Translate(pc) /\ cache'[s] = cache[s]
              \/ /\ s = Translate(pc) /\ cache'[s] \in Block /\ cache'[s].va = pc
                 /\ Len(cache'[s].ops) \in 1 .. MaxLen
                 /\ \A k \in 1 .. Len(cache'[s].ops) :
                      /\ Mapped(pc + k - 1)
                      /\ cache'[s].ops[k] = mem[Translate(pc + k - 1)]
<1>1. PICK b \in Block :
        /\ b.va = pc /\ Len(b.ops) \in 1 .. MaxLen
        /\ \A k \in 1 .. Len(b.ops) :
             Mapped(pc + k - 1) /\ b.ops[k] = mem[Translate(pc + k - 1)]
        /\ cache' = [s \in DOMAIN cache \cup {Translate(pc)} |->
                       IF s # Translate(pc) THEN cache[s] ELSE b]
  BY NewBlock
<1>2. pc \in Int /\ 1 \in 1 .. Len(b.ops)
  BY <1>1 DEF TypeOK, Kernel
<1>3. Mapped(pc + 1 - 1) /\ pc + 1 - 1 = pc
  BY <1>1, <1>2
<1>4. QED BY <1>1, <1>3

\* A new block begins as far into its frame as into its page.
LEMMA InStepStep ==
  ASSUME TypeOK, InStep, [Next]_vars
  PROVE  InStep'
<1>1. CASE UNCHANGED cache
  BY <1>1 DEF InStep
<1>2. CASE ClearOne
  BY <1>2, ClearOneKeeps DEF InStep
<1>3. CASE OnNewBlock
  BY <1>3, NewOrOld, Translated DEF InStep
<1>4. QED BY <1>1, <1>2, <1>3, CacheSteps

\* The words of a block follow its start.
LEMMA Inside ==
  ASSUME TypeOK, NEW s \in DOMAIN cache, NEW k \in 1 .. Len(cache[s].ops)
  PROVE  Contains(s, s + k - 1)
<1>1. s \in Nat /\ Len(cache[s].ops) \in Nat
  BY Zero, LenProperties DEF TypeOK, Block
<1>2. QED BY <1>1 DEF Contains

\* A line's invalidation queues every block that holds a word of it, and a request
\* leaves the queue with the block it is for.
LEMMA QueuedStep ==
  ASSUME TypeOK, UserPc, Quiet, Queued, [Next]_vars
  PROVE  Queued'
<1>1. CASE UNCHANGED <<cache, pending, posted, strayed>>
  BY <1>1 DEF Queued, Contains
<1>2. CASE posted' = {}
  BY <1>2 DEF Queued
<1>3. CASE ClearOne
  <2>1. PICK a \in pending :
          /\ pending' = pending \ {a}
          /\ \/ \E s \in DOMAIN cache :
                  /\ Contains(s, a) /\ Erase(s) /\ strayed' = (strayed \/ s # a)
             \/ /\ \A s \in DOMAIN cache : ~Contains(s, a)
                /\ UNCHANGED <<cache, strayed>>
    BY <1>3, ClearOneEffect
  <2>2. SUFFICES ASSUME ~strayed', NEW t \in DOMAIN cache', NEW w \in posted',
                        (Contains(t, w))'
                 PROVE  t \in pending'
    BY DEF Queued
  <2>3. /\ ~strayed /\ t \in DOMAIN cache /\ cache'[t] = cache[t] /\ w \in posted
        /\ Contains(t, w)
    BY <1>3, <2>2, ClearOneKeeps DEF ClearOne, Contains
  <2>4. t \in pending
    BY <2>3 DEF Queued
  <2>5. t # a
    <3>1. CASE \E s \in DOMAIN cache :
                 Contains(s, a) /\ Erase(s) /\ strayed' = (strayed \/ s # a)
      <4>1. PICK s \in DOMAIN cache : Erase(s) /\ strayed' = (strayed \/ s # a)
        BY <3>1
      <4>2. s = a
        BY <2>2, <4>1
      <4>3. a \notin DOMAIN cache'
        BY <4>1, <4>2 DEF Erase
      <4>4. QED BY <2>2, <4>3
    <3>2. CASE \A s \in DOMAIN cache : ~Contains(s, a)
      <4>1. Len(cache[t].ops) \in 1 .. MaxLen /\ t \in Nat
        BY <2>3, Zero DEF TypeOK
      <4>2. Contains(t, t + 1 - 1) /\ t + 1 - 1 = t
        BY <2>3, <4>1, Inside
      <4>3. QED BY <2>3, <3>2, <4>2
    <3>3. QED BY <2>1, <3>1, <3>2
  <2>6. QED BY <2>1, <2>4, <2>5
<1>4. CASE CacheMapped \/ CacheUnmapped
  <2>1. PICK lo \in Words : IsLine(lo) /\ Invalidate(lo)
    BY <1>4, CacheEffect
  <2>2. UNCHANGED <<cache, strayed>>
    BY <1>4 DEF CacheMapped, CacheUnmapped
  <2>3. SUFFICES ASSUME ~strayed, NEW s \in DOMAIN cache, NEW w \in posted',
                        Contains(s, w)
                 PROVE  s \in pending'
    BY <2>2 DEF Queued, Contains
  <2>4. CASE w \in posted
    BY <2>1, <2>3, <2>4 DEF Queued, Invalidate
  <2>5. CASE w \in lo .. lo + LineWords - 1
    <3>1. lo \in Nat /\ s \in Nat /\ LineWords \in Nat
      BY Zero, MappedAssumption DEF TypeOK
    <3>2. Len(cache[s].ops) \in Nat
      BY LenProperties DEF TypeOK, Block
    <3>3. s \in Overlapping(lo)
      BY <2>3, <2>5, <3>1, <3>2 DEF Contains, Overlapping
    <3>4. QED BY <2>1, <3>3 DEF Invalidate
  <2>6. QED BY <2>1, <2>4, <2>5 DEF Invalidate
<1>5. CASE OnNewBlock
  <2>1. posted' = {}
    BY <1>5 DEF OnNewBlock, Quiet, Running, history
  <2>2. QED BY <2>1, <1>2
<1>6. QED
  BY <1>1, <1>2, <1>3, <1>4, <1>5
  DEF Next, vars, turn, history, Interrupt, Turn, MapPage, StoreCode,
      KernelTurn, GetBlock, DecodeMisses, ExecPlain, ExecBranch, ExecTrap

\* The first page of a block is a copy of the words after its start.
LEMMA CoherentStep ==
  ASSUME TypeOK, Quiet, Current, Queued, StartPageCoherent, [Next]_vars
  PROVE  StartPageCoherent'
<1>1. CASE UNCHANGED <<cache, seen, strayed>>
  BY <1>1 DEF StartPageCoherent, InStartPage
<1>2. CASE ClearOne
  BY <1>2, ClearOneKeeps DEF ClearOne, StartPageCoherent, InStartPage
<1>3. CASE Turn
  <2>1. UNCHANGED <<cache, strayed>> /\ pending = {}
    BY <1>3 DEF Turn
  <2>2. SUFFICES ASSUME ~strayed, NEW s \in DOMAIN cache, NEW k \in InStartPage(cache[s])
                 PROVE  s + k - 1 \in Words /\ cache[s].ops[k] \in seen'[s + k - 1]
    BY <2>1 DEF StartPageCoherent, InStartPage
  <2>3. s + k - 1 \in Words /\ cache[s].ops[k] \in seen[s + k - 1]
    BY <2>2 DEF StartPageCoherent
  <2>4. k \in 1 .. Len(cache[s].ops)
    BY DEF InStartPage
  <2>5. Contains(s, s + k - 1)
    BY <2>4, Inside
  <2>6. s + k - 1 \notin posted
    BY <2>1, <2>2, <2>5 DEF Queued
  <2>7. QED BY <1>3, <2>3, <2>6 DEF Turn
<1>4. CASE StoreCode
  <2>1. \A w \in Words : seen[w] \subseteq seen'[w]
    BY <1>4 DEF StoreCode, TypeOK
  <2>2. UNCHANGED <<cache, strayed>>
    BY <1>4 DEF StoreCode
  <2>3. QED BY <2>1, <2>2 DEF StartPageCoherent, InStartPage
<1>5. CASE OnNewBlock
  <2>1. UNCHANGED <<mem, seen, strayed>>
    BY <1>5 DEF OnNewBlock, history
  <2>2. SUFFICES ASSUME ~strayed, NEW s \in DOMAIN cache', NEW k \in InStartPage(cache'[s])
                 PROVE  s + k - 1 \in Words /\ cache'[s].ops[k] \in seen[s + k - 1]
    BY <2>1 DEF StartPageCoherent, InStartPage
  <2>3. CASE s \in DOMAIN cache /\ cache'[s] = cache[s]
    BY <2>2, <2>3 DEF StartPageCoherent
  <2>4. CASE /\ s = Translate(pc) /\ cache'[s] \in Block /\ cache'[s].va = pc
             /\ Len(cache'[s].ops) \in 1 .. MaxLen
             /\ \A j \in 1 .. Len(cache'[s].ops) :
                  /\ Mapped(pc + j - 1)
                  /\ cache'[s].ops[j] = mem[Translate(pc + j - 1)]
    <3>1. k \in 1 .. Len(cache'[s].ops) /\ PageOf(pc + k - 1) = PageOf(pc)
      BY <2>4 DEF InStartPage
    <3>2. /\ Mapped(pc) /\ Mapped(pc + k - 1)
          /\ cache'[s].ops[k] = mem[Translate(pc + k - 1)]
      BY <1>5, <2>4, <3>1, NewOrOld
    <3>3. pc + k - 1 \in Nat /\ pc \in Nat /\ Translate(pc + k - 1) \in Words
          /\ Translate(pc) \in Nat /\ Translate(pc + k - 1) \in Nat
      BY <3>2, Translated, Zero
    <3>4. Translate(pc + k - 1) - Translate(pc) = (pc + k - 1) - pc
      <4> DEFINE b == pc + k - 1
      <4>1. b \in Nat /\ PageOf(b) = PageOf(pc) /\ Mapped(pc)
        BY <3>1, <3>2, <3>3
      <4>2. Translate(b) - Translate(pc) = b - pc
        <5> HIDE DEF b
        <5> QED BY <4>1, SideBySide
      <4> QED BY <4>2
    <3>5. k \in Nat
      BY <2>4, <3>1
    <3>6. Translate(pc + k - 1) = s + k - 1
      BY <2>4, <3>3, <3>4, <3>5
    <3>7. QED BY <3>2, <3>3, <3>6 DEF Current
  <2>5. QED BY <1>5, <2>3, <2>4, NewOrOld
<1>6. QED
  BY <1>1, <1>2, <1>3, <1>4, <1>5, SeenSteps, CacheSteps
  DEF Next, vars, history, Interrupt, MapPage, CacheMapped, CacheUnmapped,
      KernelTurn, GetBlock, DecodeMisses, ExecPlain, ExecBranch, ExecTrap

-----------------------------------------------------------------------------
(* The block being run. *)

\* The kernel does not run while user code does, so the map and the mapping of the
\* block stay as they were when it was looked up.
LEMMA HeldStep ==
  ASSUME TypeOK, UserPc, Held, [Next]_vars
  PROVE  Held'
<1>1. CASE UNCHANGED <<page, cache, phase, pc, turn>>
  BY <1>1 DEF Held, turn, Mapped, Translate
<1>2. CASE phase' # "exec"
  BY <1>2 DEF Held
<1>3. CASE GetBlock
  <2>1. /\ Mapped(pc) /\ Translate(pc) \in DOMAIN cache
        /\ cur' = cache[Translate(pc)] /\ i' = 1 /\ first' = pc
        /\ UNCHANGED <<page, cache, pc>>
    BY <1>3 DEF GetBlock, Hit
  <2>2. Len(cache[Translate(pc)].ops) \in 1 .. MaxLen /\ MaxLen \in Nat
    BY <2>1, MappedAssumption DEF TypeOK
  <2>3. 1 \in 1 .. Len(cache[Translate(pc)].ops)
    BY <2>2
  <2>4. pc \in VWords
    BY <2>1 DEF Mapped
  <2>5. Mapped(pc)' /\ Translate(pc)' = Translate(pc)
    BY <2>1 DEF Mapped, Translate
  <2>6. QED BY <2>1, <2>3, <2>4, <2>5 DEF Held, Mapped, Translate
<1>4. CASE ExecPlain \/ ExecBranch \/ ExecTrap
  <2>1. phase = "exec" /\ NextEntry /\ UNCHANGED <<page, cache>>
    BY <1>4, ExecEffect
  <2>2. SUFFICES ASSUME phase' = "exec"
                 PROVE  Held'
    BY DEF Held
  <2>3. /\ cur' = cur /\ first' = first /\ i' = i + 1
        /\ i' \in 1 .. Len(cur.ops) /\ pc' = cur.va + i' - 1
    BY <2>1, <2>2, NextEntryType
  <2>4. i' # 1
    BY <2>3 DEF TypeOK
  <2>5. /\ first \in VWords /\ Mapped(first)
        /\ Translate(first) \in DOMAIN cache /\ cur = cache[Translate(first)]
    BY <2>1 DEF Held
  <2>6. QED BY <2>1, <2>3, <2>4, <2>5 DEF Held, Mapped, Translate
<1>5. QED
  BY <1>1, <1>2, <1>3, <1>4
  DEF Next, vars, turn, Interrupt, ClearOne, Turn, MapPage, StoreCode, CacheMapped,
      CacheUnmapped, KernelTurn, OnNewBlock, DecodeMisses

\* Decoding stops at a branch, or one instruction after it.
LEMMA MissStep ==
  ASSUME TypeOK, UserPc, MissIsAhead, [Next]_vars
  PROVE  MissIsAhead'
<1>1. CASE UNCHANGED <<mem, page, phase, pc, missed>>
  BY <1>1 DEF MissIsAhead, Mapped, Fetched, Translate
<1>2. CASE phase' # "panic"
  BY <1>2 DEF MissIsAhead
<1>3. CASE DecodeMisses
  <2>1. PICK n \in 1 .. MaxLen :
          /\ BodyReaches(pc, n)
          /\ \/ ~Mapped(pc + n - 1) /\ missed' = pc + n - 1
             \/ /\ Mapped(pc + n - 1) /\ BodyEnds(pc, n)
                /\ Fetches(pc, n) = n + 1 /\ ~Mapped(pc + n) /\ missed' = pc + n
    BY <1>3 DEF DecodeMisses
  <2>2. pc \in Nat /\ n \in Nat /\ n >= 1
    BY <1>3, MappedAssumption DEF DecodeMisses, UserPc, Running
  <2>3. UNCHANGED <<mem, page, pc>>
    BY <1>3 DEF DecodeMisses
  <2>4. ASSUME NEW a \in pc .. pc + n - 2
        PROVE  Mapped(a) /\ Kind[Fetched(a)] = "plain"
    <3>1. a - pc + 1 \in 1 .. n - 1 /\ pc + (a - pc + 1) - 1 = a
      BY <2>2, <2>4
    <3>2. Mapped(a) /\ ~BodyEnds(pc, a - pc + 1)
      BY <2>1, <3>1 DEF BodyReaches
    <3>3. QED BY <3>1, <3>2 DEF BodyEnds
  <2>5. /\ ~Mapped(missed')
        /\ \A a \in pc .. missed' - 1 :
             /\ Mapped(a)
             /\ \/ Kind[Fetched(a)] = "plain"
                \/ Kind[Fetched(a)] = "branch" /\ a = missed' - 1
    <3>1. CASE ~Mapped(pc + n - 1) /\ missed' = pc + n - 1
      BY <2>2, <2>4, <3>1
    <3>2. CASE /\ Mapped(pc + n - 1)
               /\ Fetches(pc, n) = n + 1 /\ ~Mapped(pc + n) /\ missed' = pc + n
      <4>1. Kind[Fetched(pc + n - 1)] = "branch"
        BY <2>2, <3>2 DEF Fetches
      <4>2. \A a \in pc .. missed' - 1 : a \in pc .. pc + n - 2 \/ a = pc + n - 1
        BY <2>2, <3>2
      <4>3. missed' - 1 = pc + n - 1
        BY <2>2, <3>2
      <4>4. QED BY <2>4, <3>2, <4>1, <4>2, <4>3
    <3>3. QED BY <2>1, <3>1, <3>2
  <2>6. QED BY <2>3, <2>5 DEF MissIsAhead, Mapped, Fetched, Translate
<1>4. QED
  BY <1>1, <1>2, <1>3
  DEF Next, vars, turn, Interrupt, ClearOne, Turn, MapPage, StoreCode, CacheMapped,
      CacheUnmapped, KernelTurn, GetBlock, OnNewBlock, NextEntry, ExecPlain, ExecBranch,
      ExecTrap

-----------------------------------------------------------------------------
(* The invariant and its consequences. *)

\* The start satisfies the invariant.
LEMMA InitIInv == Init => IInv
<1>. SUFFICES ASSUME Init PROVE IInv
  OBVIOUS
<1>2. NoBlock \in Block /\ DOMAIN cache = {}
  BY Zero, EmptySeq DEF Init, Block, NoBlock
<1>3. mem \in [Words -> Ops] /\ seen \in [Words -> SUBSET Ops] /\ Current
  BY MappedAssumption DEF Init, Current
<1>4. TypeOK
  <2>1. page \in [0 .. VPages - 1 -> 0 .. Frames - 1 \cup {None}]
    BY DEF Init
  <2>2. /\ pending \subseteq Words /\ posted \subseteq Words
        /\ phase = "head" /\ pc = Kernel /\ dst = None /\ cur = NoBlock /\ i = 1
        /\ first = 0 /\ missed = None /\ strayed = FALSE
    BY DEF Init
  <2>3. /\ DOMAIN cache \subseteq Words
        /\ \A s \in DOMAIN cache :
             cache[s] \in Block /\ Len(cache[s].ops) \in 1 .. MaxLen
    BY <1>2
  <2>4. i \in Nat \ {0} /\ first \in Nat
    BY <2>2
  <2>5. QED BY <1>2, <1>3, <2>1, <2>2, <2>3, <2>4 DEF TypeOK
<1>5. InStep /\ Queued /\ StartPageCoherent
  BY <1>2 DEF InStep, Queued, StartPageCoherent
<1>6. UserPc /\ Quiet /\ Held /\ MissIsAhead
  BY DEF Init, UserPc, Quiet, Running, Held, MissIsAhead
<1>7. QED BY <1>3, <1>4, <1>5, <1>6 DEF IInv

\* Every step keeps the invariant.
LEMMA NextIInv == IInv /\ [Next]_vars => IInv'
<1>. SUFFICES ASSUME IInv, [Next]_vars PROVE IInv'
  OBVIOUS
<1>2. TypeOK' /\ UserPc' /\ Quiet' /\ Current' /\ InStep'
  BY TypeStep, UserPcStep, QuietStep, CurrentStep, InStepStep DEF IInv
<1>3. Queued' /\ StartPageCoherent' /\ Held' /\ MissIsAhead'
  BY QueuedStep, CoherentStep, HeldStep, MissStep DEF IInv
<1>4. QED BY <1>2, <1>3 DEF IInv

\* The invariant holds throughout.
LEMMA Invariant == Spec => []IInv
BY InitIInv, NextIInv, PTL DEF Spec

\* The map, the mapping and the loop keep their types; a block fits its array also
\* when it is built across pages (OnNewBlock, InsertBlock, RunCached).
THEOREM TypesAreRight == Spec => []TypeOK
<1>1. IInv => TypeOK
  BY DEF IInv
<1>2. QED BY Invariant, <1>1, PTL

\* Whatever is mapped and mapped again, the first page of a block is a copy of the
\* words after its start, no staler than the last invalidation of them by any name
\* (InsertBlock, InvalidateBlockRange, ExecuteCacheClear).
THEOREM StartPagesAreCoherent == Spec => []StartPageCoherent
<1>1. IInv => StartPageCoherent
  BY DEF IInv
<1>2. QED BY Invariant, <1>1, PTL

\* What runs is what is mapped at pc_, as long as a turn of the loop stays in the
\* page it began in (GetBlock, RunCached).
THEOREM MappedCodeRuns == Spec => []RunsWhatIsMapped
<1>1. ASSUME IInv
      PROVE  RunsWhatIsMapped
  <2>1. SUFFICES ASSUME phase = "exec", ~strayed, PageOf(pc) = PageOf(first),
                        i = 1 \/ PageOf(pc) = PageOf(cur.va)
                 PROVE  Mapped(pc) /\ Op \in seen[Translate(pc)]
    BY DEF RunsWhatIsMapped
  <2>. DEFINE s == Translate(first)
  <2>2. /\ first \in VWords /\ Mapped(first)
        /\ s \in DOMAIN cache /\ cur = cache[s] /\ i \in 1 .. Len(cur.ops)
        /\ pc = IF i = 1 THEN first ELSE cur.va + i - 1
    BY <1>1, <2>1 DEF IInv, Held
  <2>3. /\ first \in Nat /\ s \in Words /\ s \in Nat
        /\ Offset(s) = Offset(first) /\ Offset(s) = Offset(cur.va)
    BY <1>1, <2>2, Translated, Zero DEF IInv, InStep
  <2>4. cur \in Block /\ cur.va \in Nat /\ Len(cur.ops) \in Nat /\ i \in Nat
    BY <1>1, <2>2, Zero, LenProperties DEF IInv, TypeOK, Block
  <2>5. pc \in Nat
    BY <2>2, <2>3, <2>4
  <2>6. Mapped(pc) /\ Translate(pc) - s = pc - first
    BY <1>1, <2>1, <2>2, <2>5, SideBySide DEF IInv
  <2>7. Translate(pc) \in Nat
    BY <1>1, <2>6, Translated, Zero DEF IInv
  <2>. HIDE DEF s
  <2>8. Translate(pc) = s + i - 1 /\ i \in InStartPage(cur)
    <3>1. CASE i = 1
      <4>1. Translate(pc) = s + i - 1
        BY <2>2, <2>3, <2>6, <2>7, <3>1
      <4>2. cur.va + i - 1 = cur.va
        BY <2>4, <3>1
      <4>3. QED BY <2>2, <4>1, <4>2 DEF InStartPage
    <3>2. CASE i # 1
      <4>1. PageOf(first) = PageOf(cur.va)
        BY <2>1, <3>2
      <4>2. cur.va - first = Offset(cur.va) - Offset(first)
        BY <2>3, <2>4, <4>1, SamePage
      <4>3. Offset(cur.va) = Offset(first) /\ Offset(first) \in Nat
        BY <2>3, Parts, MappedAssumption
      <4>4. cur.va = first
        BY <2>3, <2>4, <4>2, <4>3
      <4>5. pc = cur.va + i - 1
        BY <2>2, <3>2
      <4>6. Translate(pc) = s + i - 1
        BY <2>3, <2>4, <2>6, <2>7, <4>4, <4>5
      <4>7. QED BY <2>1, <2>2, <3>2, <4>5, <4>6 DEF InStartPage
    <3>3. QED BY <3>1, <3>2
  <2>9. cur.ops[i] \in seen[s + i - 1]
    BY <1>1, <2>1, <2>2, <2>8 DEF IInv, StartPageCoherent
  <2>10. QED BY <2>6, <2>8, <2>9 DEF Op
<1>2. QED BY Invariant, <1>1, PTL

\* Decoding ahead of pc_ misses only what straight-line execution would run into
\* (OnNewBlock).
THEOREM MissesAreAhead == Spec => []MissIsAhead
<1>1. IInv => MissIsAhead
  BY DEF IInv
<1>2. QED BY Invariant, <1>1, PTL
=============================================================================
