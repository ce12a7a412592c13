----------------------------- MODULE StudioJobs -----------------------------
(***************************************************************************)
(* One strategy of the Strategy Builder (web/routes/strategy_studio.py,    *)
(* strategy_studio/store.py): its draft and saved versions, the backtest,  *)
(* optimization and AI loop jobs with a row in SQLite and a claim in       *)
(* memory, the model's suggestions, and the deploy gate.  Handlers run in  *)
(* a pool of threads and jobs in background threads; the process may die   *)
(* and start again, which leaves the rows.  What is done under one draft   *)
(* lock, and each transaction, is one step.                                *)
(***************************************************************************)
EXTENDS Naturals, Sequences, FiniteSets, SequencesExt

CONSTANTS
  Handlers,       \* handler threads of the server
  MaxAsked,       \* bound: requests
  MaxStudioJobs,  \* bound: job rows
  MaxSuggestions, \* bound: suggestion rows
  LoopRounds,     \* max_iterations of an AI loop
  MaxDeaths,      \* bound: deaths of the process
  MaxStudioFaults \* bound: calls of the store that raise and leave a row running

ASSUME StudioBoundsAssumption ==
  {MaxAsked, MaxStudioJobs, MaxSuggestions, LoopRounds, MaxDeaths,
   MaxStudioFaults} \subseteq Nat

JobKinds == {"run", "optimize", "loop"}

(* A definition is the set of the edits in it; definition_hash tells them   *)
(* apart.  An edit is made by a user's request, an optimization's result or *)
(* a suggestion.                                                            *)
VARIABLES
  versions,    \* saved versions, oldest first
  draft,       \* the draft row: empty, or the set of one definition
  rows,        \* [kind, status, defn] of the jobs, oldest first
  task,        \* the background thread of each job
  claimed,     \* _ACTIVE_JOBS
  reconciled,  \* _JOBS_RECONCILED
  unended,     \* rows whose end this process failed to write
  handler,     \* the handler threads
  suggested,   \* status of each suggestion
  applied,     \* suggestions that were ever applied
  deployed,    \* definitions deployed through the gate
  asked, deaths, studioFaults

endVars == <<unended, studioFaults>>
studioVars == <<versions, draft, rows, task, claimed, reconciled, handler,
                suggested, applied, deployed, asked, deaths, endVars>>
defnVars == <<versions, draft>>
jobRowVars == <<rows, task, claimed, reconciled, endVars>>
askVars == <<asked, deaths>>

IdleHandler == [pc |-> "idle", op |-> "none", defn |-> {}, act |-> {}, id |-> 0]
NoTask == [pc |-> "off", base |-> {}, sid |-> 0, n |-> 0]

StudioInit ==
  /\ versions = <<{}>> /\ draft = {} /\ rows = <<>>
  /\ task = [j \in 1..MaxStudioJobs |-> NoTask]
  /\ claimed = {} /\ reconciled = FALSE /\ unended = {}
  /\ handler = [h \in Handlers |-> IdleHandler]
  /\ suggested = <<>> /\ applied = {} /\ deployed = {}
  /\ asked = 0 /\ deaths = 0 /\ studioFaults = 0

Working == IF draft = {} THEN Last(versions) ELSE UNION draft
RowIds(kind) == {j \in DOMAIN rows : rows[j].kind = kind}
Newest(S) == CHOOSE j \in S : \A i \in S : i <= j
Running(j) == rows[j].status = "running"

Asks(h) == handler[h].pc = "idle" /\ asked < MaxAsked /\ asked' = asked + 1 /\ UNCHANGED deaths
Goes(h, pc) == handler' = [handler EXCEPT ![h].pc = pc]
Answers(h) == handler' = [handler EXCEPT ![h] = IdleHandler]

-----------------------------------------------------------------------------
(* Edits: store.editing loads the working copy, mutates it and saves the    *)
(* draft under the draft lock; a mutation that raises saves nothing.        *)
Edit(h) ==
  /\ Asks(h) /\ draft' = {Working \cup {<<"user", asked'>>}}
  /\ UNCHANGED <<versions, jobRowVars, handler, suggested, applied, deployed>>

DeleteRule(h) ==
  /\ Asks(h) /\ \E e \in Working : draft' = {Working \ {e}}
  /\ UNCHANGED <<versions, jobRowVars, handler, suggested, applied, deployed>>

Discard(h) ==
  /\ Asks(h) /\ draft # {} /\ draft' = {}
  /\ UNCHANGED <<versions, jobRowVars, handler, suggested, applied, deployed>>

(* promote_draft: the new version and the deletion of the draft are one     *)
(* transaction.                                                             *)
SaveVersion(h) ==
  /\ Asks(h) /\ draft # {}
  /\ versions' = Append(versions, UNION draft) /\ draft' = {}
  /\ UNCHANGED <<jobRowVars, handler, suggested, applied, deployed>>

ApplyOptimum(h) ==
  /\ Asks(h) /\ RowIds("optimize") # {}
  /\ LET j == Newest(RowIds("optimize"))
     IN rows[j].status = "done" /\ draft' = {Working \cup {<<"optimum", j>>}}
  /\ UNCHANGED <<versions, jobRowVars, handler, suggested, applied, deployed>>

-----------------------------------------------------------------------------
(* A request that starts or lists jobs reconciles once per process: rows    *)
(* that run without a claim are what an earlier process left.  The flag     *)
(* comes first, so nobody waits for the reconciliation or repeats it.       *)
Request(h, op) ==
  /\ Asks(h)
  /\ handler' = [handler EXCEPT ![h] = [IdleHandler EXCEPT !.pc = "flag", !.op = op,
                                                           !.defn = Working]]
  /\ UNCHANGED <<defnVars, jobRowVars, suggested, applied, deployed>>

Then(op) == IF op = "list" THEN "answer" ELSE "check"

Flag(h) ==
  /\ handler[h].pc = "flag" /\ reconciled' = TRUE
  /\ Goes(h, IF reconciled THEN Then(handler[h].op) ELSE "snap")
  /\ UNCHANGED <<defnVars, rows, task, claimed, endVars, suggested, applied, deployed, askVars>>

SnapClaims(h) ==
  /\ handler[h].pc = "snap"
  /\ handler' = [handler EXCEPT ![h].pc = "live", ![h].act = claimed]
  /\ UNCHANGED <<defnVars, jobRowVars, suggested, applied, deployed, askVars>>

(* Mutant: only backtests are looked at. *)
OrphanRuns(act) == {j \in RowIds("run") : Running(j)} \ act
Orphans(act) == {j \in DOMAIN rows : Running(j)} \ act
FindOrphans(h) ==
  /\ handler[h].pc = "live"
  /\ handler' = [handler EXCEPT ![h].pc = "interrupt", ![h].act = Orphans(handler[h].act)]
  /\ UNCHANGED <<defnVars, jobRowVars, suggested, applied, deployed, askVars>>

(* interrupt_job leaves a row alone that has ended meanwhile.               *)
InterruptJob(h) ==
  /\ handler[h].pc = "interrupt"
  /\ IF handler[h].act = {}
     THEN Goes(h, Then(handler[h].op)) /\ UNCHANGED rows
     ELSE LET j == Newest(handler[h].act)
          IN /\ rows' = [rows EXCEPT ![j].status = IF Running(j) THEN "interrupted" ELSE @]
             /\ handler' = [handler EXCEPT ![h].act = @ \ {j}]
  /\ UNCHANGED <<defnVars, task, claimed, reconciled, endVars, suggested, applied, deployed, askVars>>

(* The store raises while it is asked for the live rows or interrupts one:  *)
(* logged, and the rows not yet interrupted go on running.                  *)
StudioFault == studioFaults < MaxStudioFaults /\ studioFaults' = studioFaults + 1
ReconcileFails(h) ==
  /\ StudioFault
  /\ \/ handler[h].pc = "live" /\ unended' = unended \cup Orphans(handler[h].act)
     \/ /\ handler[h].pc = "interrupt" /\ handler[h].act # {}
        /\ unended' = unended \cup handler[h].act
  /\ Goes(h, Then(handler[h].op))
  /\ UNCHANGED <<defnVars, rows, task, claimed, reconciled, suggested, applied, deployed, askVars>>

(* A job of the same kind whose newest row runs refuses the request; then   *)
(* the definition is compiled, the row created, and the job claimed before  *)
(* its thread starts.                                                       *)
CheckInFlight(h) ==
  /\ handler[h].pc = "check"
  /\ LET ids == RowIds(handler[h].op)
     IN IF ids # {} /\ Running(Newest(ids)) THEN Answers(h)
        ELSE \/ Goes(h, "create")
             \/ handler[h].op # "loop" /\ Answers(h)
  /\ UNCHANGED <<defnVars, jobRowVars, suggested, applied, deployed, askVars>>

CreateRow(h) ==
  /\ handler[h].pc = "create" /\ Len(rows) < MaxStudioJobs
  /\ rows' = Append(rows, [kind |-> handler[h].op, status |-> "running", defn |-> handler[h].defn])
  /\ handler' = [handler EXCEPT ![h].pc = "claim", ![h].id = Len(rows')]
  /\ UNCHANGED <<defnVars, task, claimed, reconciled, endVars, suggested, applied, deployed, askVars>>

ClaimJob(h) ==
  /\ handler[h].pc = "claim"
  /\ claimed' = claimed \cup {handler[h].id}
  /\ task' = [task EXCEPT ![handler[h].id] = [NoTask EXCEPT !.pc = "work"]]
  /\ Answers(h)
  /\ UNCHANGED <<defnVars, rows, reconciled, endVars, suggested, applied, deployed, askVars>>

ListDone(h) ==
  /\ handler[h].pc = "answer" /\ Answers(h)
  /\ UNCHANGED <<defnVars, jobRowVars, suggested, applied, deployed, askVars>>

-----------------------------------------------------------------------------
(* Background threads.  finish_* and fail_* write whatever the row says.    *)
Step(j, pc) == task' = [task EXCEPT ![j].pc = pc]
Ends(j, status) ==
  /\ rows' = [rows EXCEPT ![j].status = status]
  /\ Step(j, "release")
  /\ UNCHANGED <<defnVars, claimed, reconciled, endVars, handler, deployed, askVars>>

Finish(j) ==
  /\ task[j].pc = IF rows[j].kind = "loop" THEN "finish" ELSE "work"
  /\ Ends(j, "done") /\ UNCHANGED <<suggested, applied>>

(* Any exception, also one of a loop's iteration.                           *)
Fail(j) ==
  /\ task[j].pc \notin {"off", "release"}
  /\ Ends(j, "failed") /\ UNCHANGED <<suggested, applied>>

(* fail_run, fail_opt or finish_loop raises too: the claim goes, the row    *)
(* still runs.                                                              *)
FailUnwritten(j) ==
  /\ task[j].pc \notin {"off", "release"}
  /\ StudioFault /\ unended' = unended \cup {j} /\ Step(j, "release")
  /\ UNCHANGED <<defnVars, rows, claimed, reconciled, handler, suggested, applied, deployed, askVars>>

Release(j) ==
  /\ task[j].pc = "release"
  /\ claimed' = claimed \ {j} /\ task' = [task EXCEPT ![j] = NoTask]
  /\ UNCHANGED <<defnVars, rows, reconciled, endVars, handler, suggested, applied, deployed, askVars>>

(* An iteration of the AI loop: read the working copy, get a suggestion and *)
(* try it, and in auto mode apply it if it improved the trial.              *)
LoopRead(j) ==
  /\ rows[j].kind = "loop" /\ task[j].pc = "work"
  /\ IF task[j].n = LoopRounds THEN Step(j, "finish")
     ELSE task' = [task EXCEPT ![j] = [pc |-> "suggest", base |-> Working, sid |-> 0, n |-> @.n + 1]]
  /\ UNCHANGED <<defnVars, rows, claimed, reconciled, endVars, handler, suggested, applied, deployed, askVars>>

Suggestion(status) ==
  Len(suggested) < MaxSuggestions /\ suggested' = Append(suggested, status)

LoopSuggests(j) ==
  /\ task[j].pc = "suggest"
  /\ \/ \E status \in {"failed", "rejected"} : Suggestion(status) /\ Step(j, "work")
     \/ /\ Suggestion("review")
        /\ \/ Step(j, "finish")   \* review mode
           \/ \E pc \in {"apply", "worse"} :
                task' = [task EXCEPT ![j].pc = pc, ![j].sid = Len(suggested')]
  /\ UNCHANGED <<defnVars, rows, claimed, reconciled, endVars, handler, applied, deployed, askVars>>

Marks(sid, status) == suggested' = [suggested EXCEPT ![sid] = status]

(* The comparison with the definition the trial was made on and the write   *)
(* are one critical section of the draft lock.                              *)
(* Mutant: only saved versions count as changes. *)
StaleVersion(j) == Last(versions) # task[j].base /\ draft = {}
Stale(j) == Working # task[j].base
LoopApplies(j) ==
  /\ task[j].pc = "apply"
  /\ IF Stale(j) THEN Step(j, "stale") /\ UNCHANGED <<draft, applied>>
     ELSE /\ draft' = {task[j].base \cup {<<"suggestion", task[j].sid>>}}
          /\ applied' = applied \cup {task[j].sid}
          /\ Step(j, "mark")
  /\ UNCHANGED <<versions, rows, claimed, reconciled, endVars, handler, suggested, deployed, askVars>>

LoopMarks(j) ==
  /\ \/ task[j].pc = "mark" /\ Marks(task[j].sid, "accepted") /\ Step(j, "work")
     \/ task[j].pc = "worse" /\ Marks(task[j].sid, "rejected") /\ Step(j, "work")
     \/ task[j].pc = "stale" /\ Marks(task[j].sid, "rejected") /\ Step(j, "finish")
  /\ UNCHANGED <<defnVars, rows, claimed, reconciled, endVars, handler, applied, deployed, askVars>>

JobThread(j) ==
  \/ Finish(j) \/ Fail(j) \/ FailUnwritten(j) \/ Release(j)
  \/ LoopRead(j) \/ LoopSuggests(j) \/ LoopApplies(j) \/ LoopMarks(j)

-----------------------------------------------------------------------------
(* Suggestions asked for by hand, and what is done with them.               *)
Suggest(h) ==
  /\ Asks(h) /\ \E status \in {"review", "failed", "rejected"} : Suggestion(status)
  /\ UNCHANGED <<defnVars, jobRowVars, handler, applied, deployed>>

AcceptRead(h) ==
  /\ Asks(h)
  /\ \E s \in DOMAIN suggested :
       /\ suggested[s] = "review"
       /\ handler' = [handler EXCEPT ![h] = [IdleHandler EXCEPT !.pc = "accept", !.id = s]]
  /\ UNCHANGED <<defnVars, jobRowVars, suggested, applied, deployed>>

AcceptApply(h) ==
  /\ handler[h].pc = "accept"
  /\ \/ /\ draft' = {Working \cup {<<"suggestion", handler[h].id>>}}
        /\ applied' = applied \cup {handler[h].id}
        /\ Goes(h, "accepted")
     \/ Goes(h, "failed") /\ UNCHANGED <<draft, applied>>
  /\ UNCHANGED <<versions, jobRowVars, suggested, deployed, askVars>>

AcceptMark(h) ==
  /\ handler[h].pc \in {"accepted", "failed"}
  /\ Marks(handler[h].id, handler[h].pc) /\ Answers(h)
  /\ UNCHANGED <<defnVars, jobRowVars, applied, deployed, askVars>>

Dismiss(h) ==
  /\ Asks(h) /\ \E s \in DOMAIN suggested : Marks(s, "rejected")
  /\ UNCHANGED <<defnVars, jobRowVars, handler, applied, deployed>>

(* The gate reads the newest completed run of exactly what is deployed: the *)
(* newest saved version, loaded in a step before.                           *)
DeployLoad(h) ==
  /\ Asks(h)
  /\ handler' = [handler EXCEPT ![h] = [IdleHandler EXCEPT !.pc = "gate", !.defn = Last(versions)]]
  /\ UNCHANGED <<defnVars, jobRowVars, suggested, applied, deployed>>

(* Mutant: any completed run opens the gate. *)
AnyBaseline(defn) == {j \in RowIds("run") : rows[j].status = "done"}
Baseline(defn) == {j \in RowIds("run") : rows[j].status = "done" /\ rows[j].defn = defn}
DeployGate(h) ==
  /\ handler[h].pc = "gate" /\ Answers(h)
  /\ deployed' = IF Baseline(handler[h].defn) = {} THEN deployed
                 ELSE deployed \cup {handler[h].defn}
  /\ UNCHANGED <<defnVars, jobRowVars, suggested, applied, askVars>>

(* The process dies and the next one starts.                                *)
StudioDies ==
  /\ deaths < MaxDeaths /\ deaths' = deaths + 1
  /\ claimed' = {} /\ reconciled' = FALSE /\ unended' = {}
  /\ task' = [j \in DOMAIN task |-> NoTask]
  /\ handler' = [h \in Handlers |-> IdleHandler]
  /\ UNCHANGED <<defnVars, rows, suggested, applied, deployed, asked, studioFaults>>

HandlerStep(h) ==
  \/ Edit(h) \/ DeleteRule(h) \/ Discard(h) \/ SaveVersion(h) \/ ApplyOptimum(h)
  \/ \E op \in JobKinds \cup {"list"} : Request(h, op)
  \/ Flag(h) \/ SnapClaims(h) \/ FindOrphans(h) \/ InterruptJob(h) \/ ReconcileFails(h)
  \/ CheckInFlight(h) \/ CreateRow(h) \/ ClaimJob(h) \/ ListDone(h)
  \/ Suggest(h) \/ AcceptRead(h) \/ AcceptApply(h) \/ AcceptMark(h) \/ Dismiss(h)
  \/ DeployLoad(h) \/ DeployGate(h)

StudioNext ==
  \/ StudioDies
  \/ \E h \in Handlers : HandlerStep(h)
  \/ \E j \in DOMAIN rows : JobThread(j)

StudioSpec == StudioInit /\ [][StudioNext]_studioVars
-----------------------------------------------------------------------------
StudioTypeOK ==
  /\ \A j \in DOMAIN rows :
       /\ rows[j].kind \in JobKinds
       /\ rows[j].status \in {"running", "done", "failed", "interrupted"}
  /\ Cardinality(draft) <= 1
  /\ claimed \cup unended \subseteq DOMAIN rows /\ applied \subseteq DOMAIN suggested
  /\ \A j \in DOMAIN task : task[j].pc # "off" <=> j \in claimed

(* No edit is lost to another writer of the draft: the working copy only    *)
(* loses what a user deletes or discards, whatever the AI loop, a second    *)
(* tab, a save or a death of the process does in between.                   *)
EditsSurvive ==
  [][Working \subseteq Working' \/ \E h \in Handlers : DeleteRule(h) \/ Discard(h)]_studioVars

(* What passed the gate was measured: a completed run of exactly the        *)
(* deployed definition exists, not of an earlier or a later one.            *)
DeployedWasMeasured ==
  \A defn \in deployed : \E j \in RowIds("run") : rows[j].status = "done" /\ rows[j].defn = defn

(* No row locks its button for ever but one whose end could not be written: *)
(* once this process has reconciled, a running row is one of its own jobs,  *)
(* or the store raised when it was to be interrupted or to end.             *)
Reconciling(h) == handler[h].pc \in {"snap", "live", "interrupt"}
OrphansAreFound ==
  reconciled /\ (\A h \in Handlers : ~Reconciling(h)) =>
    \A j \in DOMAIN rows :
      Running(j) => \/ j \in claimed \cup unended
                    \/ \E h \in Handlers : handler[h].pc = "claim" /\ handler[h].id = j

(* A suggestion that is shown as accepted is one that was applied.          *)
AcceptedWasApplied ==
  \A s \in DOMAIN suggested : suggested[s] = "accepted" => s \in applied

(* "a listing request that comes between the two must not stamp a job that  *)
(* has not started yet": only a job without a thread is interrupted.        *)
LiveJobsSpared ==
  [][\A j \in DOMAIN rows :
       rows[j].status = "running" /\ rows'[j].status = "interrupted" =>
         j \notin claimed /\ \A h \in Handlers : ~(handler[h].pc = "claim" /\ handler[h].id = j)]_studioVars
=============================================================================
