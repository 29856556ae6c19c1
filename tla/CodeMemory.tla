----------------------------- MODULE CodeMemory -----------------------------
(***************************************************************************)
(* What an instruction cache without coherence promises, and what the      *)
(* block cache of the emulator is there to provide: an instruction fetch   *)
(* yields an opcode the word has held since its cached copies were last    *)
(* invalidated.  An invalidation may be deferred, but not for ever, and    *)
(* once it has been served the word's copies are as memory is.             *)
(***************************************************************************)
EXTENDS Integers, Sequences

CONSTANTS Words, Ops

VARIABLES
  mem,      \* one opcode per word
  seen,     \* per word, the opcodes a fetch may still yield
  posted,   \* words whose invalidation is requested and not yet served
  fetch     \* <<word, opcode>> of the instruction about to run, or <<>>

vars == <<mem, seen, posted, fetch>>

Fresh == [w \in Words |-> {mem[w]}]
Fetchable == {<<>>} \cup UNION {{w} \X seen[w] : w \in Words}

Init ==
  /\ mem \in [Words -> Ops]
  /\ seen = Fresh
  /\ posted = {}
  /\ fetch = <<>>

Write(w, o) ==
  /\ mem' = [mem EXCEPT ![w] = o]
  /\ seen' = [seen EXCEPT ![w] = @ \cup {o}]
  /\ UNCHANGED posted

Request(ws) ==
  /\ posted' = posted \cup ws
  /\ UNCHANGED <<mem, seen>>

\* Every requested word, and possibly more, is invalidated.
Serve ==
  /\ \E ws \in SUBSET Words :
       /\ posted \subseteq ws
       /\ seen' = [w \in Words |-> IF w \in ws THEN {mem[w]} ELSE seen[w]]
  /\ posted' = {}
  /\ UNCHANGED mem

Fetch == UNCHANGED <<mem, seen, posted>>

Next ==
  /\ \/ \E w \in Words, o \in Ops : Write(w, o)
     \/ \E ws \in SUBSET Words : Request(ws)
     \/ Serve
     \/ Fetch
  /\ fetch' \in Fetchable'

Spec == Init /\ [][Next]_vars /\ WF_vars(posted # {} /\ Serve /\ fetch' \in Fetchable')
=============================================================================
