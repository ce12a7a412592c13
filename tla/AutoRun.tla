------------------------------- MODULE AutoRun -------------------------------
(***************************************************************************)
(* The life of AUTO research runs (web/routes/agent_backtest.py): the      *)
(* POST /agent/run handler admits a run against a process-wide slot        *)
(* semaphore and a bounded progress store, and a daemon thread works       *)
(* through rounds (data, proposals and backtests, ranking, robustness      *)
(* scan, sealed holdout gate, publication) until it returns or breaks out  *)
(* of its loop.  POST /agent/stop and the budget ceilings act at any       *)
(* moment.  Everything the worker reads from or writes to the shared       *)
(* progress dict happens under _AGENT_LOCK, so a step below is what the    *)
(* worker does between two accesses another thread can fall between.       *)
(***************************************************************************)
EXTENDS Naturals, Sequences, FiniteSets, SequencesExt

CONSTANTS
  Runs,          \* run ids that may ever be started
  Continuous,    \* the runs posted with continuous=1
  ResearchOnly,  \* the runs on known-unadjusted external data
  TFs,           \* timeframes a finalist can be scored on
  Errors,        \* texts of the exceptions a round may die of
  Slots,         \* AGENT_MAX_CONCURRENT_RUNS
  StoreCap,      \* capacity of _AGENT_STORE (50)
  Iters,         \* n_iterations of a round
  MaxPassers,    \* _MAX_PASSERS
  WinlessLimit,  \* _WINLESS_ROUND_LIMIT
  ErrLimit,      \* _CONSEC_ERR_LIMIT
  MaxRounds      \* bound: the round by which the time ceiling has been reached

ASSUME RunsAssumption ==
  /\ IsFiniteSet(Runs)
  /\ Continuous \subseteq Runs
  /\ ResearchOnly \subseteq Runs
ASSUME LimitsAssumption ==
  /\ Slots \in Nat \ {0}
  /\ StoreCap \in Nat \ {0}
  /\ Iters \in Nat \ {0, 1}                 \* run() raises it to 2 at least
  /\ MaxPassers \in Nat \ {0}
  /\ WinlessLimit \in Nat \ {0}
  /\ ErrLimit \in Nat \ {0}
  /\ MaxRounds \in Nat \ {0}

NoErr == "no error"          \* wstate.last_err_str = None
ASSUME ErrorsAssumption == NoErr \notin Errors

VARIABLES
  slots,      \* free permits of _AUTO_RUN_SLOTS
  store,      \* keys of _AGENT_PROGRESS in insertion order
  prog,       \* _AGENT_PROGRESS[r], meaningful while r is in store
  wk,         \* the worker thread of each run: program counter and locals
  budget,     \* what the ceilings say of the run: "ok" or "spent"
  log,        \* <run_id>.jsonl: last event and the outcomes of its session_ends
  catalog,    \* strategy_catalog.json: the runs' promoted finalists
  generated   \* rounds whose finalist blocks (agnt_*) are on disk, per run

vars == <<slots, store, prog, wk, budget, log, catalog, generated>>

-----------------------------------------------------------------------------
(* Program counters, in the order a run meets them. *)
Inside   == {"work", "judge", "scan", "pick", "gate", "save", "publish",
             "announce", "pause"}            \* the body of the round's try
Closing  == {"end", "final"}                 \* session_end, then finally
Outside  == {"start", "top", "tail", "tailend", "lastlog", "leave"}
Alive    == Inside \cup Closing \cup Outside
PCs      == Alive \cup {"idle", "exited", "dead"}  \* dead: with its process

Outcomes == {"none", "budget", "stopped", "error", "terminal_llm_error",
             "no_eligible_candidate", "no_winner", "winner",
             "promotion_rejected", "winless_limit", "interrupted"}
WayOut   == {"return", "break", "again"}

NewState == [done |-> FALSE, finished |-> FALSE, stop |-> FALSE,
             winner |-> 0]
NewWorker == [pc |-> "idle", round |-> 0, iter |-> 0, left |-> 0, pass |-> 0,
              promoted |-> FALSE, limit |-> FALSE, outcome |-> "none",
              next |-> "again", winless |-> 0, errs |-> 0, lastErr |-> NoErr,
              consumed |-> {}, kept |-> {}]
NewLog == [last |-> "none", ends |-> <<>>]

Init ==
  /\ slots = Slots
  /\ store = <<>>
  /\ prog = [r \in Runs |-> NewState]
  /\ wk = [r \in Runs |-> NewWorker]
  /\ budget = [r \in Runs |-> "ok"]
  /\ log = [r \in Runs |-> NewLog]
  /\ catalog = {}
  /\ generated = [r \in Runs |-> {}]

-----------------------------------------------------------------------------
Stored    == {store[i] : i \in DOMAIN store}
InStore(r) == r \in Stored
StopIgnored(r) == FALSE
StopSeen(r) == InStore(r) /\ prog[r].stop
OverNever(r) == FALSE
OverBudget(r) == budget[r] = "spent"          \* the check at a round's start
Live      == {r \in Stored : ~prog[r].done}       \* live_run_ids()

(* Updates of _AGENT_PROGRESS[r] are dropped when r was evicted. *)
SetDone(r) ==
  prog' = IF InStore(r) THEN [prog EXCEPT ![r].done = TRUE] ELSE prog
SetFinished(r) ==
  prog' = IF InStore(r)
          THEN [prog EXCEPT ![r].done = TRUE, ![r].finished = TRUE]
          ELSE prog

(* _session_log: one line is appended; session_end lines are kept apart. *)
Note(r, event) == log' = [log EXCEPT ![r].last = event]
NoteEnd(r, outcome) ==
  log' = [log EXCEPT ![r] = [last |-> "session_end",
                             ends |-> Append(log[r].ends, outcome)]]

(* _cleanup_generated: the run's blocks go, except those ever retained. *)
CleanupForgets(r, keep) == generated' = [generated EXCEPT ![r] = @ \cap keep]
CleanupSkipped(r, keep) == UNCHANGED generated
Cleanup(r, keep) ==
  generated' = [generated EXCEPT ![r] = @ \cap (wk[r].kept \cup keep)]

Become(r, w) == wk' = [wk EXCEPT ![r] = w]
Goto(r, pc) == Become(r, [wk[r] EXCEPT !.pc = pc])

(* The exits of a round: set what the handler sets, then log session_end. *)
EndRound(r, outcome, next) ==
  [wk[r] EXCEPT !.pc = "end", !.outcome = outcome, !.next = next]

-----------------------------------------------------------------------------
(* ProgressStore.create_or_refuse: make room by dropping the oldest done    *)
(* entry; refuse when every entry is still running.                         *)
DoneAt == {i \in DOMAIN store : prog[store[i]].done}
OldestDone(i) == i \in DoneAt /\ \A j \in DoneAt : i <= j

(* _AUTO_RUN_SLOTS.acquire(blocking=False) *)
SlotIgnored == TRUE
SlotFree == slots > 0

(* run(): a slot, a store entry and a thread.  A refused creation gives the *)
(* slot back, which leaves no trace.                                        *)
StartRun(r) ==
  /\ wk[r].pc = "idle"
  /\ SlotFree
  /\ \/ Len(store) < StoreCap /\ store' = Append(store, r)
     \/ /\ Len(store) >= StoreCap
        /\ \E i \in DOMAIN store :
             OldestDone(i) /\ store' = Append(RemoveAt(store, i), r)
  /\ slots' = slots - 1
  /\ Goto(r, "start")
  /\ UNCHANGED <<prog, budget, log, catalog, generated>>

(* stop(): the flag is set whether or not the run is still working. *)
Stop(r) ==
  /\ InStore(r)
  /\ ~prog[r].stop
  /\ prog' = [prog EXCEPT ![r].stop = TRUE]
  /\ UNCHANGED <<slots, store, wk, budget, log, catalog, generated>>

(* The wall clock, the token or the cost counter passes its ceiling. *)
BudgetSpent(r) ==
  /\ wk[r].pc \in Alive
  /\ budget[r] = "ok"
  /\ budget' = [budget EXCEPT ![r] = "spent"]
  /\ UNCHANGED <<slots, store, prog, wk, log, catalog, generated>>

-----------------------------------------------------------------------------
(* _agent_worker: session_start and the two companion threads. *)
WorkerStart(r) ==
  /\ wk[r].pc = "start"
  /\ Note(r, "session_start")
  /\ Goto(r, "top")
  /\ UNCHANGED <<slots, store, prog, budget, catalog, generated>>

(* The head of the loop: budget, then stop or eviction, then the reset.     *)
(* The budget return leaves before the round's try: no token_snapshot and   *)
(* no continuous_finished.                                                  *)
RoundOverBudget(r) ==
  /\ wk[r].pc = "top"
  /\ OverBudget(r)
  /\ SetDone(r)
  /\ Become(r, [wk[r] EXCEPT !.pc = "lastlog", !.round = @ + 1,
                             !.outcome = "budget"])
  /\ UNCHANGED <<slots, store, budget, log, catalog, generated>>

Again(r) == r \in Continuous /\ wk[r].round >= 1

RoundAbandoned(r) ==
  /\ wk[r].pc = "top"
  /\ ~OverBudget(r) \/ ~InStore(r)   \* an evicted run's tokens are not seen
  /\ Again(r)
  /\ StopSeen(r) \/ ~InStore(r)
  /\ Become(r, [wk[r] EXCEPT !.pc = "tail", !.round = @ + 1])
  /\ UNCHANGED <<slots, store, prog, budget, log, catalog, generated>>

RoundStart(r) ==
  /\ wk[r].pc = "top"
  /\ ~OverBudget(r)
  /\ wk[r].round < MaxRounds
  /\ Again(r) => InStore(r) /\ ~StopSeen(r)
  /\ prog' = IF Again(r)
             THEN [prog EXCEPT ![r].done = FALSE, ![r].winner = 0]
             ELSE prog
  /\ Become(r, [wk[r] EXCEPT !.pc = "work", !.round = @ + 1, !.iter = 0,
                             !.left = 0, !.pass = 0, !.promoted = FALSE,
                             !.limit = FALSE, !.outcome = "none",
                             !.next = "again"])
  /\ Note(r, "step")
  /\ UNCHANGED <<slots, store, budget, catalog, generated>>

(* One iteration: the stop check, the backtest, and, but for the last, the  *)
(* proposal of the next specification, which may leave generated blocks on  *)
(* disk.  What it discards is taken to be of this round; CandidateSearch    *)
(* has the discarding itself, which does not keep to that.                  *)
RunBacktestIteration(r) == Become(r, [wk[r] EXCEPT !.iter = @ + 1])

ProposeNextStrategy(r) ==
  \/ UNCHANGED generated
  \/ /\ wk[r].iter + 1 < Iters
     /\ generated' = [generated EXCEPT ![r] = @ \cup {wk[r].round}]

Iterate(r) ==
  /\ wk[r].pc = "work"
  /\ wk[r].iter < Iters
  /\ ~StopSeen(r)
  /\ RunBacktestIteration(r)
  /\ ProposeNextStrategy(r)
  /\ Note(r, "step")
  /\ UNCHANGED <<slots, store, prog, budget, catalog>>

(* The loop ends, or breaks on stop (unrun blocks are discarded, likewise). *)
IterationsOver(r) ==
  /\ wk[r].pc = "work"
  /\ wk[r].iter = Iters \/ StopSeen(r)
  /\ Goto(r, "judge")
  /\ Note(r, "step")
  /\ UNCHANGED <<slots, store, prog, budget, catalog, generated>>

(* A stop seen after the iterations ends the search without ranking. *)
JudgeStopped(r) ==
  /\ wk[r].pc = "judge"
  /\ StopSeen(r)
  /\ Become(r, [wk[r] EXCEPT !.pc = "final", !.next = "break"])
  /\ Note(r, "step")
  /\ UNCHANGED <<slots, store, prog, budget, catalog, generated>>

(* _winless_bump, and what a round without a publishable finalist leads to. *)
BumpTwice(r) == wk[r].winless + 2
Bump(r) == wk[r].winless + 1
AtLimitLate(r) == Bump(r) > WinlessLimit
AtLimit(r) == Bump(r) >= WinlessLimit

(* A round that produced nothing: no eligible candidate, or none passed.    *)
(* A stop is looked at only after a fruitless scan.                         *)
Fruitless(r, outcome, stopChecked) ==
  /\ Cleanup(r, {})
  /\ \/ /\ r \notin Continuous
        /\ SetDone(r)
        /\ Become(r, EndRound(r, outcome, "return"))
     \/ /\ r \in Continuous
        /\ AtLimit(r)
        /\ SetFinished(r)
        /\ Become(r, [EndRound(r, "winless_limit", "return")
                        EXCEPT !.errs = 0, !.lastErr = NoErr,
                               !.winless = Bump(r)])
     \/ /\ r \in Continuous
        /\ ~AtLimit(r)
        /\ Become(r, [wk[r] EXCEPT !.pc = "final",
                         !.next = IF stopChecked /\ StopSeen(r)
                                  THEN "break" ELSE "again",
                         !.errs = 0, !.lastErr = NoErr, !.winless = Bump(r)])
        /\ UNCHANGED prog

RankNothing(r) ==
  /\ wk[r].pc = "judge"
  /\ ~StopSeen(r)
  /\ Fruitless(r, "no_eligible_candidate", FALSE)
  /\ Note(r, "step")
  /\ UNCHANGED <<slots, store, budget, catalog>>

RankSome(r) ==
  /\ wk[r].pc = "judge"
  /\ ~StopSeen(r)
  /\ \E n \in 1 .. wk[r].iter :
       Become(r, [wk[r] EXCEPT !.pc = "scan", !.left = n])
  /\ Note(r, "step")
  /\ UNCHANGED <<slots, store, prog, budget, catalog, generated>>

(* The robustness scan, candidate by candidate. *)
ScanOne(r) ==
  /\ wk[r].pc = "scan"
  /\ wk[r].left > 0
  /\ wk[r].pass < MaxPassers
  /\ ~StopSeen(r)
  /\ \E passed \in {0, 1} :
       Become(r, [wk[r] EXCEPT !.left = @ - 1, !.pass = @ + passed])
  /\ Note(r, "step")
  /\ UNCHANGED <<slots, store, prog, budget, catalog, generated>>

ScanOver(r) ==
  /\ wk[r].pc = "scan"
  /\ wk[r].left = 0 \/ wk[r].pass = MaxPassers \/ StopSeen(r)
  /\ Goto(r, "pick")
  /\ Note(r, "step")
  /\ UNCHANGED <<slots, store, prog, budget, catalog, generated>>

NoWinner(r) ==
  /\ wk[r].pc = "pick"
  /\ wk[r].pass = 0
  /\ Fruitless(r, "no_winner", TRUE)
  /\ Note(r, "step")
  /\ UNCHANGED <<slots, store, budget, catalog>>

PickWinner(r) ==
  /\ wk[r].pc = "pick"
  /\ wk[r].pass > 0
  /\ Goto(r, "gate")
  /\ Note(r, "step")
  /\ UNCHANGED <<slots, store, prog, budget, catalog, generated>>

(* _run_promotion_gate: the sealed window of the finalist's timeframe is    *)
(* consumed before it is run, whatever comes of it.                         *)
WindowFresh(r, tf) == TRUE
WindowUsable(r, tf) == tf \notin wk[r].consumed

(* A verdict on known-unadjusted prices is recorded, never published. *)
PublishableLoose(r, verdict) == verdict
Publishable(r, verdict) == verdict /\ r \notin ResearchOnly

Gate(r) ==
  /\ wk[r].pc = "gate"
  /\ \E tf \in TFs, sealed \in BOOLEAN, verdict \in BOOLEAN :
       LET runs == sealed /\ WindowUsable(r, tf)
       IN  /\ verdict => runs
           /\ Become(r, [wk[r] EXCEPT !.pc = "save",
                 !.consumed = IF runs THEN @ \cup {tf} ELSE @,
                 !.promoted = Publishable(r, verdict)])
  /\ Note(r, "step")
  /\ UNCHANGED <<slots, store, prog, budget, catalog, generated>>

(* The gate's backtest finds the time ceiling passed: consumed and raised. *)
GateOverBudget(r) ==
  /\ wk[r].pc = "gate"
  /\ budget[r] = "spent"
  /\ \E tf \in TFs \ wk[r].consumed :
       Become(r, [EndRound(r, "budget", "return")
                    EXCEPT !.consumed = @ \cup {tf}])
  /\ SetFinished(r)
  /\ Note(r, "step")
  /\ UNCHANGED <<slots, store, budget, catalog, generated>>

(* append_to_catalog after the gate, or promotion_rejected. *)
Save(r) ==
  /\ wk[r].pc = "save"
  /\ IF wk[r].promoted
     THEN /\ catalog' = catalog \cup
               {[run |-> r, round |-> wk[r].round,
                 generated |-> wk[r].round \in generated[r]]}
          /\ Become(r, [wk[r] EXCEPT !.pc = "publish", !.winless = 0])
     ELSE /\ Become(r, [wk[r] EXCEPT !.pc = "publish", !.winless = Bump(r),
                                     !.limit = AtLimit(r)])
          /\ UNCHANGED catalog
  /\ Note(r, "step")
  /\ UNCHANGED <<slots, store, prog, budget, generated>>

(* The winner fields and done=True: pollers may now show the result. *)
Publish(r) ==
  /\ wk[r].pc = "publish"
  /\ prog' = IF InStore(r)
             THEN [prog EXCEPT ![r].done = TRUE, ![r].winner = wk[r].round]
             ELSE prog
  /\ Goto(r, "announce")
  /\ UNCHANGED <<slots, store, budget, log, catalog, generated>>

(* winner or finalist_rejected, then cleanup, then the way on. *)
SavedOutcomeLoose(r) == "winner"
SavedOutcome(r) == IF wk[r].promoted THEN "winner" ELSE "promotion_rejected"

Announce(r) ==
  /\ wk[r].pc = "announce"
  /\ LET keep == IF wk[r].promoted THEN {wk[r].round} ELSE {}
         base == [wk[r] EXCEPT !.kept = @ \cup keep, !.errs = 0,
                               !.lastErr = NoErr]
     IN  /\ Cleanup(r, keep)
         /\ \/ /\ r \notin Continuous
               /\ Become(r, [base EXCEPT !.pc = "end", !.next = "return",
                                         !.outcome = SavedOutcome(r)])
               /\ UNCHANGED prog
            \/ /\ r \in Continuous
               /\ wk[r].limit
               /\ Become(r, [base EXCEPT !.pc = "end", !.next = "return",
                                         !.outcome = "winless_limit"])
               /\ SetFinished(r)
            \/ /\ r \in Continuous
               /\ ~wk[r].limit
               /\ Become(r, [base EXCEPT !.pc = "pause"])
               /\ UNCHANGED prog
  /\ Note(r, IF wk[r].promoted THEN "winner" ELSE "finalist_rejected")
  /\ UNCHANGED <<slots, store, budget, catalog>>

(* After the three-second window with done=True. *)
Pause(r) ==
  /\ wk[r].pc = "pause"
  /\ Become(r, [wk[r] EXCEPT !.pc = "final",
                   !.next = IF StopSeen(r) THEN "break" ELSE "again"])
  /\ UNCHANGED <<slots, store, prog, budget, log, catalog, generated>>

-----------------------------------------------------------------------------
(* The exceptions of a round.  _llm_cancelled raises on stop or eviction    *)
(* and on a breached ceiling; a provider can fail for good during the       *)
(* first proposal; anything else is the generic handler, which the data,    *)
(* the backtests, the ranking, the gate's log and append_to_catalog reach.  *)
Abort(r, outcome) ==
  /\ SetFinished(r)
  /\ Become(r, EndRound(r, outcome, "return"))
  /\ Note(r, "step")
  /\ UNCHANGED <<slots, store, budget, catalog, generated>>

LLMCallCancelled(r) ==
  /\ wk[r].pc = "work"
  /\ StopSeen(r) \/ ~InStore(r)
  /\ Abort(r, "stopped")

AgentBudgetReached(r) ==
  /\ wk[r].pc \in {"work", "scan"}
  /\ budget[r] = "spent"
  /\ Abort(r, "budget")

TerminalLLMError(r) ==
  /\ wk[r].pc = "work"
  /\ Abort(r, "terminal_llm_error")

(* The generic handler logs session_end even when a continuous run goes on. *)
(* After append_to_catalog nothing of the round raises any more: the steps  *)
(* left write to the progress dict, and _session_log and                    *)
(* _cleanup_generated swallow their own exceptions.                         *)
RoundError(r) ==
  /\ wk[r].pc \in {"work", "judge", "scan", "pick", "gate", "save"}
  /\ \E e \in Errors :
       LET streak == IF e = wk[r].lastErr THEN wk[r].errs + 1 ELSE 1
       IN  IF r \in Continuous
           THEN Become(r, [EndRound(r, "error",
                             IF streak >= ErrLimit THEN "break" ELSE "again")
                             EXCEPT !.errs = streak, !.lastErr = e])
           ELSE Become(r, EndRound(r, "error", "break"))
  /\ IF r \in Continuous THEN UNCHANGED prog ELSE SetDone(r)
  /\ UNCHANGED <<slots, store, budget, log, catalog, generated>>

(* session_end; the exception handlers clean up after it, and the error     *)
(* breaker sets done once it has tripped.                                   *)
EndLog(r) ==
  /\ wk[r].pc = "end"
  /\ NoteEnd(r, wk[r].outcome)
  /\ Goto(r, "final")
  /\ IF wk[r].outcome \in {"stopped", "budget", "terminal_llm_error", "error"}
     THEN Cleanup(r, {}) ELSE UNCHANGED generated
  /\ IF wk[r].outcome = "error" /\ wk[r].next = "break"
     THEN SetDone(r) ELSE UNCHANGED prog
  /\ UNCHANGED <<slots, store, budget, catalog>>

(* The round's finally: a token_snapshot follows whatever was logged last. *)
Final(r) ==
  /\ wk[r].pc = "final"
  /\ Note(r, "token_snapshot")
  /\ Goto(r, CASE wk[r].next = "return" -> "leave"
               [] wk[r].next = "break" -> "tail"
               [] wk[r].next = "again" -> "top")
  /\ UNCHANGED <<slots, store, prog, budget, catalog, generated>>

(* After the loop: the permanent end, the cleanup, session_end "stopped". *)
LoopEnd(r) ==
  /\ wk[r].pc = "tail"
  /\ SetFinished(r)
  /\ Goto(r, "tailend")
  /\ UNCHANGED <<slots, store, budget, log, catalog, generated>>

LoopEndLog(r) ==
  /\ wk[r].pc = "tailend"
  /\ Cleanup(r, {})
  /\ NoteEnd(r, "stopped")
  /\ Goto(r, "leave")
  /\ UNCHANGED <<slots, store, prog, budget, catalog>>

(* session_end of the budget return at the head of the loop. *)
LastLogSilent(r) ==
  /\ wk[r].pc = "lastlog"
  /\ Goto(r, "leave")
  /\ UNCHANGED <<slots, store, prog, budget, log, catalog, generated>>
LastLog(r) ==
  /\ wk[r].pc = "lastlog"
  /\ NoteEnd(r, "budget")
  /\ Goto(r, "leave")
  /\ UNCHANGED <<slots, store, prog, budget, catalog, generated>>

(* _agent_worker_with_slot: the finally that gives the slot back. *)
LeaveHolding(r) ==
  /\ wk[r].pc = "leave"
  /\ Goto(r, "exited")
  /\ UNCHANGED <<slots, store, prog, budget, log, catalog, generated>>
Leave(r) ==
  /\ wk[r].pc = "leave"
  /\ slots' = slots + 1
  /\ Goto(r, "exited")
  /\ UNCHANGED <<store, prog, budget, log, catalog, generated>>

-----------------------------------------------------------------------------
Round(r) ==
  \/ RoundOverBudget(r) \/ RoundAbandoned(r) \/ RoundStart(r)
  \/ Iterate(r) \/ IterationsOver(r) \/ JudgeStopped(r)
  \/ RankNothing(r) \/ RankSome(r)
  \/ ScanOne(r) \/ ScanOver(r) \/ NoWinner(r) \/ PickWinner(r)
  \/ Gate(r) \/ GateOverBudget(r) \/ Save(r) \/ Publish(r) \/ Announce(r)
  \/ Pause(r)

Raise(r) ==
  \/ LLMCallCancelled(r) \/ AgentBudgetReached(r)
  \/ TerminalLLMError(r) \/ RoundError(r)

Wrap(r) == EndLog(r) \/ Final(r) \/ LoopEnd(r) \/ LoopEndLog(r) \/ LastLog(r)

Worker(r) == WorkerStart(r) \/ Round(r) \/ Raise(r) \/ Wrap(r) \/ Leave(r)

Next == \E r \in Runs : StartRun(r) \/ Stop(r) \/ BudgetSpent(r) \/ Worker(r)

Spec == Init /\ [][Next]_vars

(* Every step of a worker is bounded by its own timeout (provider calls,    *)
(* backtest and robustness children), so a worker keeps moving.             *)
FairSpec == Spec /\ \A r \in Runs : WF_vars(Worker(r))

(* run() gives every admitted run a positive max_hours: it is reached.      *)
CeilingsReached == \A r \in Runs : WF_vars(BudgetSpent(r))

-----------------------------------------------------------------------------
States  == [done : BOOLEAN, finished : BOOLEAN, stop : BOOLEAN,
            winner : 0 .. MaxRounds]
Workers == [pc : PCs, round : 0 .. MaxRounds + 1, iter : 0 .. Iters,
            left : 0 .. Iters, pass : 0 .. MaxPassers, promoted : BOOLEAN,
            limit : BOOLEAN, outcome : Outcomes, next : WayOut,
            winless : 0 .. WinlessLimit, errs : 0 .. ErrLimit,
            lastErr : Errors \cup {NoErr}, consumed : SUBSET TFs,
            kept : SUBSET (1 .. MaxRounds)]
Events  == {"none", "session_start", "step", "winner", "finalist_rejected",
            "token_snapshot", "run_heartbeat", "session_end"}
Logs    == [last : Events, ends : Seq(Outcomes)]
Entries == [run : Runs, round : 1 .. MaxRounds, generated : BOOLEAN]

(* The type invariant. *)
TypeOK ==
  /\ slots \in 0 .. Slots
  /\ store \in Seq(Runs)
  /\ prog \in [Runs -> States]
  /\ wk \in [Runs -> Workers]
  /\ budget \in [Runs -> {"ok", "spent"}]
  /\ log \in [Runs -> Logs]
  /\ catalog \in SUBSET Entries
  /\ generated \in [Runs -> SUBSET (1 .. MaxRounds)]

(* No path through _agent_worker loses or doubles a slot: what the          *)
(* semaphore has left and the workers still inside add up to its capacity.  *)
Holders == {r \in Runs : wk[r].pc \in Alive}
SlotsAccounted == slots + Cardinality(Holders) = Slots

(* A run publishes at most one finalist per sealed holdout window it used   *)
(* up, whatever rounds, errors and budget stops lie between, and a          *)
(* research-only run publishes none.                                        *)
Published(r) == {e \in catalog : e.run = r}
PromotionSound ==
  \A r \in Runs :
    /\ Cardinality(Published(r)) <= Cardinality(wk[r].consumed)
    /\ r \in ResearchOnly => Published(r) = {}

(* Later rounds' cleanups never delete the generated blocks a published     *)
(* strategy of an earlier round is built from.  (The discarding of single   *)
(* candidates may: CandidateSearch!PromotionsKeepTheirBlocks.)              *)
CatalogResolves ==
  \A e \in catalog : e.generated => e.round \in generated[e.run]

(* A worker that is about to start a round, or has left, has no generated   *)
(* block on disk but those of its published strategies.                     *)
NothingLeftBehind ==
  \A r \in Runs : wk[r].pc \in {"top", "leave", "exited"} =>
                    generated[r] \subseteq wk[r].kept

(* What the log of a single run says of its end agrees with the catalog:    *)
(* outcome "winner" exactly when a strategy of the run was published.       *)
WinnerIsPublished ==
  \A r \in Runs \ Continuous : wk[r].pc = "exited" =>
    ((\E i \in DOMAIN log[r].ends : log[r].ends[i] = "winner")
       <=> Published(r) # {})

(* A worker never leaves without a session_end in its log. *)
EndIsLogged ==
  \A r \in Runs : wk[r].pc \in {"leave", "exited"} => log[r].ends # <<>>

(* The two circuit breakers: no round starts once WinlessLimit rounds in a  *)
(* row brought no publication, or the last ErrLimit rounds died alike.      *)
RoundBegins(r) == wk[r].pc = "top" /\ wk'[r].pc = "work"
BreakersHold ==
  [][\A r \in Runs : RoundBegins(r) =>
       wk[r].winless < WinlessLimit /\ wk[r].errs < ErrLimit]_vars

StopAsked(r) == InStore(r) /\ prog[r].stop

(* A stop request ends the run without the help of any budget ceiling. *)
StopEndsRun ==
  \A r \in Runs : (wk[r].pc \in Alive /\ StopAsked(r)) ~> (wk[r].pc = "exited")

(* Every admitted run ends and returns its slot once ceilings are reached. *)
RunsEnd ==
  CeilingsReached =>
    \A r \in Runs : (wk[r].pc \in Alive) ~> (wk[r].pc = "exited")

-----------------------------------------------------------------------------
(* The runs implement the pool of module RunPool: admission never puts more *)
(* than Slots runs under way, only a run under way publishes, and never     *)
(* twice for one round or for an earlier one.                               *)
PhaseOf(r) == IF wk[r].pc = "idle" THEN "new"
              ELSE IF wk[r].pc \in Alive THEN "running" ELSE "over"
Pool == INSTANCE RunPool
          WITH phase <- [r \in Runs |-> PhaseOf(r)],
               published <- {<<e.run, e.round>> : e \in catalog},
               Rounds <- 1 .. MaxRounds
ImplementsPool == Pool!Spec
=============================================================================
