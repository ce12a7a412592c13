---------------------------- MODULE MCAutoSession ----------------------------
(***************************************************************************)
(* Instances of AutoSession for TLC.  What happens to the session log does *)
(* not depend on how long a streak of fruitless or failed rounds may get:  *)
(* the run that checks liveness lets the first one end the run.            *)
(***************************************************************************)
EXTENDS AutoSession

TwoIterations == 2
FirstStrike   == 1   \* WinlessLimit and ErrLimit of the liveness run
StoreCapMC    == 1
OneDeath      == 1   \* a process before the reconciliation and one after it
=============================================================================
