---------------------------- MODULE MCMipsTimer ----------------------------
(* MipsTimer with the default cost of an instruction (0x180) and small Counts. *)
EXTENDS MipsTimer

MCBudgets == {1, 3}
MCValues == {1, 2}
=============================================================================
