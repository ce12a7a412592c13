------------------------------ MODULE WebJobs ------------------------------
(***************************************************************************)
(* The jobs a page starts and then polls: backtests, descriptions turned   *)
(* into strategies, timeframe sweeps, robustness suites and Strategy Lab   *)
(* runs (web/routes/backtest.py, robustness.py, lab.py).  A handler admits *)
(* a job past its session's guard, enters it into a bounded progress store *)
(* and starts a daemon thread; polls read the entry and take it out once   *)
(* its outcome was shown.  Handlers run on the event loop and do not await *)
(* between guard and thread start, so each of them is one step.            *)
(***************************************************************************)
EXTENDS Naturals, Sequences, FiniteSets, SequencesExt

CONSTANTS
  Sessions,      \* browser sessions
  Plan,          \* bound: kind and session the n-th job may have
  RunsKept,      \* max_entries of the progress store of each kind
  GuardMax,      \* prune threshold of a session guard
  SweepRows,     \* timeframes of a sweep
  SweepThreads,  \* rows of a sweep that run at a time
  ResultSlots,   \* _MAX_RESULT_SESSIONS
  MaxViews       \* bound: page views that touch or expire a last result

Kinds == {"run", "gen", "sweep", "robust", "lab"}
JobIds == DOMAIN Plan
NoJob == 0
Pair == 2   \* an entry block and an exit block

ASSUME PlanAssumption == Plan \in Seq(SUBSET (Kinds \X Sessions))
ASSUME JobBoundsAssumption ==
  /\ RunsKept \in [Kinds -> Nat \ {0}]
  /\ {GuardMax, SweepThreads, ResultSlots} \subseteq Nat \ {0}
  /\ MaxViews \in Nat /\ IsFiniteSet(SweepRows)

(* The backtest family shares one guard; robustness and lab have their own. *)
GuardOf(k) == IF k \in {"robust", "lab"} THEN k ELSE "backtest"

VARIABLES
  job,       \* the thread and the progress entry of each job
  started,   \* jobs admitted so far; ids are given in this order
  progress,  \* ids in each progress store, oldest first
  guarded,  \* what each guard holds for each session
  lastOf,    \* _LAST_RESULT: session and job, least recently used first
  views,
  saved,     \* custom blocks on disk, by the job that wrote them
  listed,    \* jobs whose strategy is in the catalog
  chains     \* times a job's strategy was handed on to the next job

jobVars == <<job, started, progress, guarded, lastOf, views, saved, listed, chains>>

NewJob(k, s) ==
  [kind |-> k, sid |-> s, pc |-> "work", done |-> FALSE, result |-> FALSE,
   error |-> FALSE, spec |-> FALSE, chained |-> FALSE,
   row |-> [r \in SweepRows |-> "pending"]]

NotStarted == [NewJob("run", CHOOSE s \in Sessions : TRUE) EXCEPT !.pc = "off"]

JobsInit ==
  /\ job = [j \in JobIds |-> NotStarted]
  /\ started = 0
  /\ progress = [k \in Kinds |-> <<>>]
  /\ guarded = [g \in {GuardOf(k) : k \in Kinds} |-> [s \in Sessions |-> NoJob]]
  /\ lastOf = <<>> /\ views = 0
  /\ saved = [j \in JobIds |-> 0] /\ listed = {}
  /\ chains = [j \in JobIds |-> 0]

Held(j) == \E k \in Kinds : j \in ToSet(progress[k])
Working(j) == j # NoJob /\ job[j].pc # "off"

-----------------------------------------------------------------------------
(* SessionRunGuard: an entry counts while the store has its job unfinished. *)
Unfinished(j) == j # NoJob /\ Held(j) /\ ~job[j].done
Busy(g, s) == Unfinished(guarded[g][s])

(* Mutant: an entry is written only where there is none.                    *)
SetActiveOnce(g, s, j) ==
  guarded' = [guarded EXCEPT ![g][s] = IF @ = NoJob THEN j ELSE @]
SetActive(g, s, j) ==
  LET full == Cardinality({x \in Sessions : guarded[g][x] # NoJob}) >= GuardMax
              /\ guarded[g][s] = NoJob
  IN guarded' = [guarded EXCEPT ![g] = [x \in Sessions |->
       IF x = s THEN j
       ELSE IF full /\ ~Unfinished(guarded[g][x]) THEN NoJob ELSE guarded[g][x]]]

(* ProgressStore.create_evicting: finished entries go first, then the oldest. *)
(* Mutant: nothing is dropped from a full store.                            *)
EvictedNever(k) == progress[k]
Evicted(k) ==
  LET q == progress[k]
      done == {i \in DOMAIN q : job[q[i]].done}
      i == IF done = {} THEN 1 ELSE CHOOSE d \in done : \A e \in done : d <= e
  IN IF Len(q) < RunsKept[k] THEN q ELSE RemoveAt(q, i)

AdmitJob(s, k) ==
  /\ started < Len(Plan) /\ <<k, s>> \in Plan[started + 1]
  /\ ~Busy(GuardOf(k), s)
  /\ started' = started + 1
  /\ job' = [job EXCEPT ![started'] = NewJob(k, s)]
  /\ progress' = [progress EXCEPT ![k] = Append(Evicted(k), started')]
  /\ SetActive(GuardOf(k), s, started')
  /\ UNCHANGED <<lastOf, views, saved, listed, chains>>

(* A request that fails validation behind the guard leaves only the stale   *)
(* guard entry cleared.                                                      *)
Refuse(s, g) ==
  /\ guarded[g][s] # NoJob /\ ~Busy(g, s)
  /\ guarded' = [guarded EXCEPT ![g][s] = NoJob]
  /\ UNCHANGED <<job, started, progress, lastOf, views, saved, listed, chains>>

-----------------------------------------------------------------------------
(* Workers.  Every write to an entry is made only while the store has it.   *)
Reach(j, fields, pc) ==
  job' = [job EXCEPT ![j] = [(IF Held(j) THEN fields ELSE @) EXCEPT !.pc = pc]]
Onward(j, pc) == job' = [job EXCEPT ![j].pc = pc]

(* Early returns that set the error, and the handler of every exception.    *)
MayFail(j) ==
  \/ job[j].pc \in {"work", "engine"} /\ job[j].kind # "sweep"
  \/ job[j].pc \in {"save", "compile"}
  \/ job[j].kind = "sweep" /\ job[j].pc = "work"
     /\ \A r \in SweepRows : job[j].row[r] = "pending"
JobFails(j) ==
  /\ MayFail(j)
  /\ Reach(j, [job[j] EXCEPT !.error = TRUE], "finally")
  /\ UNCHANGED <<started, progress, guarded, lastOf, views, saved, listed, chains>>

(* Data and engine of a run: the result is entered with the narrative; its  *)
(* own error field is part of the result.                                   *)
RunBacktest(j) ==
  /\ job[j].kind = "run" /\ job[j].pc = "work"
  /\ Reach(j, [job[j] EXCEPT !.result = TRUE], "last")
  /\ UNCHANGED <<started, progress, guarded, lastOf, views, saved, listed, chains>>

Without(q, s) == SelectSeq(q, LAMBDA e : e.sid # s)
Newest(q, n) == IF Len(q) > n THEN SubSeq(q, Len(q) - n + 1, Len(q)) ELSE q

LastResultSet(j) ==
  /\ job[j].pc = "last"
  /\ lastOf' = Newest(Append(Without(lastOf, job[j].sid),
                             [sid |-> job[j].sid, job |-> j]), ResultSlots)
  /\ Onward(j, "finally")
  /\ UNCHANGED <<started, progress, guarded, views, saved, listed, chains>>

(* last_result_get moves the slot it reads to the fresh end; slots expire.  *)
ViewLast(s) ==
  /\ views < MaxViews /\ views' = views + 1
  /\ \E e \in ToSet(lastOf) :
       /\ e.sid = s
       /\ \/ lastOf' = Append(Without(lastOf, s), e)
          \/ lastOf' = Without(lastOf, s)
  /\ UNCHANGED <<job, started, progress, guarded, saved, listed, chains>>

(* The suite is logged before its result is entered.                        *)
RunSuite(j) ==
  /\ job[j].kind = "robust" /\ job[j].pc = "work"
  /\ Reach(j, [job[j] EXCEPT !.result = TRUE], "finally")
  /\ UNCHANGED <<started, progress, guarded, lastOf, views, saved, listed, chains>>

(* Describe and lab write a pair of blocks, compile and append a strategy;  *)
(* a block that could not be written (exit only) is replaced by a fallback. *)
WriteBlocks(j) ==
  /\ job[j].kind \in {"gen", "lab"} /\ job[j].pc = "work"
  /\ Onward(j, "save")
  /\ UNCHANGED <<started, progress, guarded, lastOf, views, saved, listed, chains>>

SaveOne(j) ==
  /\ job[j].pc = "save"
  /\ saved' = [saved EXCEPT ![j] = @ + 1]
  /\ Onward(j, IF saved'[j] = Pair THEN "compile" ELSE "save")
  /\ UNCHANGED <<started, progress, guarded, lastOf, views, listed, chains>>

Compile(j) ==
  /\ job[j].pc = "compile"
  /\ listed' = listed \cup {j}
  /\ Onward(j, IF job[j].kind = "gen" THEN "spec" ELSE "engine")
  /\ UNCHANGED <<started, progress, guarded, lastOf, views, saved, chains>>

NameSpec(j) ==
  /\ job[j].pc = "spec"
  /\ Reach(j, [job[j] EXCEPT !.spec = TRUE], "finally")
  /\ UNCHANGED <<started, progress, guarded, lastOf, views, saved, listed, chains>>

LabBacktest(j) ==
  /\ job[j].pc = "engine"
  /\ Reach(j, [job[j] EXCEPT !.result = TRUE], "finally")
  /\ UNCHANGED <<started, progress, guarded, lastOf, views, saved, listed, chains>>

(* The rows of a sweep run in a pool of threads; the worker's last step     *)
(* waits for all of them.                                                   *)
RowsIn(j, status) == {r \in SweepRows : job[j].row[r] = status}
SweepRow(j, r) ==
  /\ job[j].kind = "sweep" /\ job[j].pc = "work"
  /\ \/ /\ job[j].row[r] = "pending"
        /\ Cardinality(RowsIn(j, "running")) < SweepThreads
        /\ job' = [job EXCEPT ![j].row[r] = "running"]
     \/ /\ job[j].row[r] = "running"
        /\ \E status \in {"done", "error"} :
             job' = [job EXCEPT ![j].row[r] = status]
  /\ UNCHANGED <<started, progress, guarded, lastOf, views, saved, listed, chains>>

SweepOver(j) ==
  /\ job[j].kind = "sweep" /\ job[j].pc = "work"
  /\ RowsIn(j, "pending") \cup RowsIn(j, "running") = {}
  /\ Onward(j, "finally")
  /\ UNCHANGED <<started, progress, guarded, lastOf, views, saved, listed, chains>>

(* Mutants: the entry is put back if it is missing; done is set only by a   *)
(* job that has something to show.                                          *)
JobDoneRevives(j) ==
  /\ job[j].pc = "finally"
  /\ job' = [job EXCEPT ![j].done = TRUE, ![j].pc = "off"]
  /\ progress' = [progress EXCEPT ![job[j].kind] = IF Held(j) THEN @ ELSE Append(@, j)]
  /\ UNCHANGED <<started, guarded, lastOf, views, saved, listed, chains>>
JobDoneIfShown(j) ==
  /\ job[j].pc = "finally"
  /\ Reach(j, [job[j] EXCEPT !.done = job[j].result], "off")
  /\ UNCHANGED <<started, progress, guarded, lastOf, views, saved, listed, chains>>
JobDone(j) ==
  /\ job[j].pc = "finally"
  /\ Reach(j, [job[j] EXCEPT !.done = TRUE], "off")
  /\ UNCHANGED <<started, progress, guarded, lastOf, views, saved, listed, chains>>

JobStep(j) ==
  \/ JobFails(j) \/ RunBacktest(j) \/ LastResultSet(j) \/ RunSuite(j)
  \/ WriteBlocks(j) \/ SaveOne(j) \/ Compile(j) \/ NameSpec(j) \/ LabBacktest(j)
  \/ \E r \in SweepRows : SweepRow(j, r)
  \/ SweepOver(j) \/ JobDone(j)

-----------------------------------------------------------------------------
(* Polls.  Run, robustness and lab entries leave the store with the outcome *)
(* they show; describe and sweep entries stay until they are evicted.       *)
PollJob(j) ==
  /\ job[j].kind \in {"run", "robust", "lab"}
  /\ job[j].done /\ (job[j].result \/ job[j].error)
  /\ \E i \in DOMAIN progress[job[j].kind] :
       /\ progress[job[j].kind][i] = j
       /\ progress' = [progress EXCEPT ![job[j].kind] = RemoveAt(@, i)]
  /\ UNCHANGED <<job, started, guarded, lastOf, views, saved, listed, chains>>

(* The first poll that finds the strategy of a description ready hands it   *)
(* to /run or /sweep; the others get 204.                                   *)
MarkChained(j) == ~job[j].chained
PollGen(j) ==
  /\ Held(j) /\ job[j].done /\ job[j].spec /\ ~job[j].error
  /\ MarkChained(j)
  /\ job' = [job EXCEPT ![j].chained = TRUE]
  /\ chains' = [chains EXCEPT ![j] = @ + 1]
  /\ UNCHANGED <<started, progress, guarded, lastOf, views, saved, listed>>

JobsNext ==
  \/ \E s \in Sessions, k \in Kinds : AdmitJob(s, k)
  \/ \E s \in Sessions, g \in DOMAIN guarded : Refuse(s, g)
  \/ \E s \in Sessions : ViewLast(s)
  \/ \E j \in JobIds : JobStep(j) \/ PollJob(j) \/ PollGen(j)

(* A worker's steps are bounded by the timeouts of what they call.          *)
JobsFairness == \A j \in JobIds : WF_jobVars(JobStep(j))
JobsSpec == JobsInit /\ [][JobsNext]_jobVars /\ JobsFairness
-----------------------------------------------------------------------------
(* Types, and the capacities of the stores and of the last results.         *)
JobsTypeOK ==
  /\ started \in 0..Len(Plan)
  /\ \A j \in JobIds :
       /\ job[j].kind \in Kinds /\ job[j].sid \in Sessions
       /\ job[j].pc \in {"work", "last", "save", "compile", "spec", "engine", "finally", "off"}
       /\ job[j].row \in [SweepRows -> {"pending", "running", "done", "error"}]
  /\ \A k \in Kinds : progress[k] \in Seq(1..started) /\ Len(progress[k]) <= RunsKept[k]
  /\ \A g \in DOMAIN guarded : guarded[g] \in [Sessions -> 0..started]
  /\ Len(lastOf) <= ResultSlots /\ IsInjective([i \in DOMAIN lastOf |-> lastOf[i].sid])
  /\ saved \in [JobIds -> 0..Pair] /\ listed \subseteq 1..started

(* Under every guard a session has at most one unfinished job that the      *)
(* pages can still see, whatever was evicted, polled or refused before.     *)
OneVisibleJob ==
  \A i, j \in 1..started :
    /\ Unfinished(i) /\ Unfinished(j) /\ i # j
    /\ GuardOf(job[i].kind) = GuardOf(job[j].kind)
    => job[i].sid # job[j].sid

(* No session stays locked: whatever its job does, the guard lets the next  *)
(* one in.                                                                  *)
SessionsAreFreed ==
  \A s \in Sessions : \A g \in {"backtest", "robust", "lab"} : Busy(g, s) ~> ~Busy(g, s)
=============================================================================
