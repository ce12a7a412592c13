------------------------------ MODULE MCWorker ------------------------------
(***************************************************************************)
(* The worker of a run, and the children and pools its work is done in.    *)
(* They share no state: a behaviour runs one of them, part says which, and *)
(* the other stays as it started.                                          *)
(***************************************************************************)
EXTENDS MCAutoRun, GuardedSuite

VARIABLE part

WorkerInit == part \in {"runs", "suite"} /\ Init /\ SuiteInit

WorkerNext ==
  /\ UNCHANGED part
  /\ \/ part = "runs" /\ Next /\ UNCHANGED suiteVars
     \/ part = "suite" /\ SuiteNext /\ UNCHANGED vars

workerVars == <<part, vars, suiteVars>>
WorkerSafety == WorkerInit /\ [][WorkerNext]_workerVars

(* What is fair asks for steps of what was started; in the part that rests  *)
(* nothing was.                                                             *)
WorkerSpec ==
  /\ WorkerSafety /\ SuiteFairness
  /\ \A r \in Runs : WF_vars(Worker(r))
=============================================================================
