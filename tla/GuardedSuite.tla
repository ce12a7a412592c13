---------------------------- MODULE GuardedSuite ----------------------------
(***************************************************************************)
(* Work in a killable child (sandbox._run_in_child): the server starts a   *)
(* process, reads its queue until a result, its death or a deadline, and   *)
(* reaps it.  The child of the robustness suite (auto/robustness.py) owns  *)
(* a pool of workers of its own (parallel_exec.BacktestPool), which it     *)
(* replaces when a batch times out.  Any of the processes may die or hang. *)
(* Time is an event: a deadline or a batch timeout may pass while it is    *)
(* waited for.                                                             *)
(***************************************************************************)
EXTENDS Naturals, Sequences, FiniteSets

CONSTANTS
  Units,          \* units of a batch; one worker of the pool for each
  MaxGuarded,     \* bound: guarded calls
  MaxRebuilds     \* bound: batch timeouts in one suite

ASSUME SuiteBoundsAssumption == MaxGuarded \in Nat /\ MaxRebuilds \in Nat

(* Which children start the parent watchdog.                                *)
Guarded == {"suite", "backtest", "block"}
Watched == {"suite", "backtest"}

VARIABLES
  server,      \* "up", "exiting" or "dead"
  call,        \* the server's thread
  child,       \* its process
  pipe,        \* what the child's queue delivers
  suite,       \* stage, pool and batch of a suite
  future,      \* the futures of the batch
  worker       \* processes of each pool that was built

suiteVars == <<server, call, child, pipe, suite, future, worker>>
childVars == <<child, pipe, suite, future, worker>>

Pools == 0..MaxRebuilds
Stages == <<"multi_symbol", "family", "split", "walk_forward">>
Decisive == {"multi_symbol", "split"}
NoSuite == [stage |-> 0, pool |-> "none", gen |-> 0, got |-> {}]
NoWorkers == [g \in Pools |-> [u \in Units |-> "none"]]
Unsubmitted == [u \in Units |-> "none"]

SuiteInit ==
  /\ server = "up"
  /\ call = [n |-> 0, pc |-> "idle", expired |-> FALSE, tracked |-> FALSE, answer |-> "none"]
  /\ child = [kind |-> "none", pc |-> "dead", put |-> "none"]
  /\ pipe = <<>> /\ suite = NoSuite /\ future = Unsubmitted /\ worker = NoWorkers

ChildAlive == child.pc # "dead"
WorkerAlive(g, u) == worker[g][u] \notin {"none", "dead"}
Goes(pc) == call' = [call EXCEPT !.pc = pc]
ChildGoes(pc) == child' = [child EXCEPT !.pc = pc]
ChildDies == child' = [child EXCEPT !.pc = "dead"]

-----------------------------------------------------------------------------
(* The server's thread.                                                     *)
StartChild(kind) ==
  /\ server = "up" /\ call.pc = "idle" /\ call.n < MaxGuarded
  /\ \A g \in Pools, u \in Units : ~WorkerAlive(g, u)   \* the names are used again
  /\ call' = [n |-> call.n + 1, pc |-> "track", expired |-> FALSE, tracked |-> FALSE, answer |-> "none"]
  /\ child' = [kind |-> kind, pc |-> IF kind = "suite" THEN "setup" ELSE "run", put |-> "none"]
  /\ pipe' = <<>> /\ suite' = NoSuite /\ future' = Unsubmitted /\ worker' = NoWorkers
  /\ UNCHANGED server

(* Only the children that are no daemons are tracked.                       *)
Track ==
  /\ call.pc = "track"
  /\ call' = [call EXCEPT !.pc = "wait", !.tracked = child.kind = "suite"]
  /\ UNCHANGED <<server, childVars>>

Expire ==
  /\ call.pc = "wait" /\ call' = [call EXCEPT !.pc = "verdict", !.expired = TRUE]
  /\ UNCHANGED <<server, childVars>>

Take == pipe' = Tail(pipe) /\ call' = [call EXCEPT !.pc = "reap", !.answer = Head(pipe)]

Get ==
  /\ call.pc = "wait"
  /\ IF pipe # <<>> THEN Take ELSE Goes("empty") /\ UNCHANGED pipe
  /\ UNCHANGED <<server, child, suite, future, worker>>

(* The queue was empty; a child that is dead by now may have delivered and  *)
(* exited in between.                                                       *)
(* Mutant: a dead child has delivered nothing. *)
NoLastLook == "verdict"
LastLook == "drain"
Empty ==
  /\ call.pc = "empty" /\ Goes(IF ChildAlive THEN "wait" ELSE LastLook)
  /\ UNCHANGED <<server, childVars>>

Drain ==
  /\ call.pc = "drain"
  /\ IF pipe # <<>> THEN Take ELSE Goes("verdict") /\ UNCHANGED pipe
  /\ UNCHANGED <<server, child, suite, future, worker>>

(* A child that outlived the deadline is terminated, then killed.           *)
Verdict ==
  /\ call.pc = "verdict"
  /\ call' = [call EXCEPT !.pc = "reap", !.answer = IF ChildAlive THEN "timed out" ELSE "crashed"]
  /\ ChildDies /\ UNCHANGED <<server, pipe, suite, future, worker>>

(* Also a child that has delivered may be alive: its exit waits for its     *)
(* workers.                                                                 *)
(* Mutant: a child that has delivered is left to itself. *)
ReapNot == UNCHANGED child
ReapChild == ChildDies
Reap ==
  /\ call.pc = "reap" /\ ReapChild
  /\ call' = [call EXCEPT !.pc = "idle", !.tracked = FALSE]
  /\ UNCHANGED <<server, pipe, suite, future, worker>>

ServerThread == Track \/ Get \/ Empty \/ Drain \/ Verdict \/ Reap

(* The server exits, which terminates tracked children first, the daemons   *)
(* next, and waits for the rest; or it is killed.                           *)
Exit ==
  /\ server = "up" /\ server' = "exiting"
  /\ IF call.tracked \/ child.kind # "suite" THEN ChildDies ELSE UNCHANGED child
  /\ UNCHANGED <<call, pipe, suite, future, worker>>

ServerGone == server' = "dead" /\ call' = [call EXCEPT !.pc = "idle", !.tracked = FALSE]
Exited ==
  /\ server = "exiting" /\ ~ChildAlive /\ ServerGone /\ UNCHANGED childVars
Killed ==
  /\ server = "up" /\ ServerGone /\ UNCHANGED childVars

-----------------------------------------------------------------------------
(* The child.  It puts its result or its error; the queue's feeder sends    *)
(* what was put, also while the process exits.                              *)
Put(what) == child' = [child EXCEPT !.pc = "flush", !.put = what]
ChildReady(pc) == child.pc = pc /\ UNCHANGED <<server, call>>

BacktestRuns ==
  /\ ChildReady("run") /\ \E what \in {"result", "error"} : Put(what)
  /\ UNCHANGED <<pipe, suite, future, worker>>

Flush ==
  /\ ChildReady("flush") /\ pipe' = Append(pipe, child.put) /\ ChildGoes("exit")
  /\ UNCHANGED <<suite, future, worker>>

(* An interpreter waits for the pools it had, given up ones included.       *)
ChildExits ==
  /\ ChildReady("exit") /\ \A g \in Pools, u \in Units : ~WorkerAlive(g, u)
  /\ ChildDies /\ UNCHANGED <<pipe, suite, future, worker>>

(* Out of memory, or a fault in native code.                                *)
ChildCrashes ==
  /\ ChildAlive /\ ChildDies /\ UNCHANGED <<server, call, pipe, suite, future, worker>>

-----------------------------------------------------------------------------
(* The suite: stages in order, each on the pool if there is one, and again  *)
(* without it when that raises.                                             *)
Stage == Stages[suite.stage]
Setup ==
  /\ ChildReady("setup") /\ ChildGoes("stage")
  /\ \E pool \in {"ok", "none"} : suite' = [suite EXCEPT !.stage = 1, !.pool = pool]
  /\ UNCHANGED <<pipe, future, worker>>

(* A broken pool refuses every later batch.                                 *)
Submit ==
  /\ ChildReady("stage")
  /\ IF suite.pool = "ok"
     THEN /\ ChildGoes("collect") /\ suite' = [suite EXCEPT !.got = {}]
          /\ future' = [u \in Units |-> "queued"]
          /\ worker' = [worker EXCEPT ![suite.gen] =
                         [u \in Units |-> IF @[u] = "none" THEN "idle" ELSE @[u]]]
     ELSE ChildGoes("alone") /\ UNCHANGED <<suite, future, worker>>
  /\ UNCHANGED pipe

Collect(u) ==
  /\ ChildReady("collect") /\ u \notin suite.got
  /\ \/ /\ future[u] = "done" /\ suite' = [suite EXCEPT !.got = @ \cup {u}] /\ UNCHANGED child
     \/ /\ future[u] = "broken" /\ suite' = [suite EXCEPT !.pool = "broken"] /\ ChildGoes("alone")
  /\ UNCHANGED <<pipe, future, worker>>

Collected ==
  /\ ChildReady("collect") /\ suite.got = Units /\ ChildGoes("next")
  /\ UNCHANGED <<pipe, suite, future, worker>>

(* All but the family stage bound their batches.  The old pool is shut down *)
(* before its processes are looked up, and by then it has forgotten them:   *)
(* workers that are busy stay.                                              *)
BatchTimeout ==
  /\ ChildReady("collect") /\ Stage # "family" /\ suite.gen < MaxRebuilds
  /\ \E u \in Units : future[u] \in {"queued", "running"}
  /\ suite' = [suite EXCEPT !.gen = @ + 1] /\ ChildGoes("next")
  /\ future' = Unsubmitted
  /\ UNCHANGED <<pipe, worker>>

(* Without the pool; what the family stage raises is swallowed, what        *)
(* another raises ends the suite.                                           *)
Alone ==
  /\ ChildReady("alone")
  /\ ChildGoes("next") \/ (Stage # "family" /\ ChildGoes("raised"))
  /\ UNCHANGED <<pipe, suite, future, worker>>

(* A definitive rejection skips what is left; Monte Carlo ends the rest.    *)
NextStage ==
  /\ ChildReady("next")
  /\ \/ /\ suite.stage < Len(Stages) /\ suite' = [suite EXCEPT !.stage = @ + 1] /\ ChildGoes("stage")
     \/ /\ suite.stage = Len(Stages) \/ Stage \in Decisive
        /\ ChildGoes("close") /\ UNCHANGED suite
  /\ UNCHANGED <<pipe, future, worker>>

(* The finally clause: pool.shutdown(wait=False) and the snapshot.          *)
Close ==
  /\ child.pc \in {"close", "raised"}
  /\ Put(IF child.pc = "close" THEN "result" ELSE "error")
  /\ suite' = [suite EXCEPT !.pool = "none"]
  /\ UNCHANGED <<server, call, pipe, future, worker>>

ChildStep ==
  \/ Flush \/ ChildExits \/ Setup \/ Submit \/ (\E u \in Units : Collect(u))
  \/ Collected \/ Alone \/ NextStage \/ Close

-----------------------------------------------------------------------------
(* Workers.                                                                 *)
Current(g) == g = suite.gen /\ suite.pool = "ok" /\ ChildAlive
WorkerGoes(g, u, state) ==
  worker' = [worker EXCEPT ![g][u] = state] /\ UNCHANGED <<server, call, child, pipe, suite>>

Takes(g, u) ==
  /\ Current(g) /\ worker[g][u] = "idle" /\ future[u] = "queued"
  /\ WorkerGoes(g, u, "busy") /\ future' = [future EXCEPT ![u] = "running"]

(* _run_unit never raises: an error is a payload, too.                      *)
Finishes(g, u) ==
  /\ worker[g][u] = "busy"
  /\ WorkerGoes(g, u, "idle")
  /\ future' = IF Current(g) THEN [future EXCEPT ![u] = "done"] ELSE future

Hangs(g, u) ==
  /\ worker[g][u] = "busy" /\ WorkerGoes(g, u, "hung") /\ UNCHANGED future

(* A worker that dies breaks its pool: the futures that are not done raise, *)
(* and the pool's manager kills the other workers.                          *)
WorkerCrashes(g, u) ==
  /\ WorkerAlive(g, u)
  /\ worker' = [worker EXCEPT ![g] = [v \in Units |-> IF @[v] = "none" THEN "none" ELSE "dead"]]
  /\ future' = IF Current(g) THEN [v \in Units |-> IF future[v] \in {"queued", "running"} THEN "broken" ELSE future[v]]
               ELSE future
  /\ suite' = IF Current(g) THEN [suite EXCEPT !.pool = "broken"] ELSE suite
  /\ UNCHANGED <<server, call, child, pipe>>

(* The manager of a pool that was shut down ends its idle workers.          *)
Retires(g, u) ==
  /\ worker[g][u] = "idle" /\ ~Current(g) /\ ChildAlive
  /\ WorkerGoes(g, u, "dead") /\ UNCHANGED future

(* The watchdogs: a worker whose owner is dead, and a child whose server is *)
(* dead, exit by themselves, hung or not.                                   *)
(* Mutant: a worker that hangs does not watch. *)
WorkerOrphanedAwake(g, u) == ~ChildAlive /\ worker[g][u] \in {"idle", "busy"}
WorkerOrphaned(g, u) == ~ChildAlive /\ WorkerAlive(g, u)
WorkerWatchdog(g, u) ==
  /\ WorkerOrphaned(g, u) /\ WorkerGoes(g, u, "dead") /\ UNCHANGED future

ChildWatchdog ==
  /\ server = "dead" /\ ChildAlive /\ child.kind \in Watched /\ ChildDies
  /\ UNCHANGED <<server, call, pipe, suite, future, worker>>

PoolStep(g, u) == Takes(g, u) \/ Retires(g, u) \/ WorkerWatchdog(g, u)

SuiteNext ==
  \/ \E kind \in Guarded : StartChild(kind)
  \/ ServerThread \/ Expire \/ Exit \/ Exited \/ Killed
  \/ ChildStep \/ BacktestRuns \/ ChildCrashes \/ BatchTimeout \/ ChildWatchdog
  \/ \E g \in Pools, u \in Units :
       PoolStep(g, u) \/ Finishes(g, u) \/ Hangs(g, u) \/ WorkerCrashes(g, u)

(* Deadlines pass and watchdogs wake; a computation may hang.               *)
SuiteFairness ==
  /\ WF_suiteVars(ServerThread)
  /\ SF_suiteVars(Expire) /\ WF_suiteVars(Exited)
  /\ WF_suiteVars(ChildWatchdog)
  /\ \A g \in Pools, u \in Units : WF_suiteVars(WorkerWatchdog(g, u))
SuiteSpec == SuiteInit /\ [][SuiteNext]_suiteVars /\ SuiteFairness
-----------------------------------------------------------------------------
SuiteTypeOK ==
  /\ call.n <= MaxGuarded /\ Len(pipe) <= 1
  /\ suite.got \subseteq Units

(* Whatever hangs or dies, the server's thread gets its answer, and no      *)
(* process is orphaned: what runs for a call is gone after it, after a kill *)
(* of the child and after a kill of the server, workers of pools that were  *)
(* given up included.  (The child of generated code has no watchdog: it may *)
(* outlive a killed server.)                                                *)
Processes == ChildAlive \/ \E g \in Pools, u \in Units : WorkerAlive(g, u)
NothingOutlivesItsOwner ==
  /\ call.pc # "idle" ~> call.pc = "idle"
  /\ Processes ~> ~Processes \/ (child.kind = "block" /\ server = "dead")

(* "so a delivered result isn't trashed as 'crashed'": before the deadline  *)
(* a call answers so only if nothing was delivered.                         *)
DeliveredIsAnswered ==
  call.answer = "crashed" /\ ~call.expired => pipe = <<>>

(* "explicitly terminate the processes": a pool that was replaced leaves no *)
(* worker that still computes.                                              *)
HungAreTerminated ==
  \A g \in Pools, u \in Units : g < suite.gen => worker[g][u] \notin {"busy", "hung"}
=============================================================================
