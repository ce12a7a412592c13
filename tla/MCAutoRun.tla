------------------------------ MODULE MCAutoRun ------------------------------
(***************************************************************************)
(* Instances of AutoRun for TLC.  The program's limits (3 fruitless rounds *)
(* by default, 3 equal errors, 3 passers, a store of 50; one slot is its   *)
(* default too) are scaled to the smallest that keep their cases apart:    *)
(* reaching a limit, staying one below it, and passing it.                 *)
(***************************************************************************)
EXTENDS AutoRun

TwoIterations  == 2   \* one that proposes a next strategy, one that does not
WinlessLimitMC == 2   \* one fruitless round is survived, two in a row are not
ErrLimitMC     == 2   \* the same for rounds that die of the same error
StoreCapMC     == 1   \* a second run needs the entry of the first
=============================================================================
