----------------------------- MODULE AutoSession -----------------------------
(***************************************************************************)
(* The session log of AUTO runs across the threads and the processes that  *)
(* write it: the worker (module AutoRun), its heartbeat thread             *)
(* (_start_heartbeat), the death of the server process, and the            *)
(* reconciliation that a later process runs once, on the first visit of    *)
(* /sessions (web/routes/sessions.py), to close the logs of runs that died *)
(* without a terminal event.                                               *)
(***************************************************************************)
EXTENDS AutoRun

CONSTANT MaxCrashes       \* bound: deaths of the server process
ASSUME CrashesAssumption == MaxCrashes \in Nat

VARIABLES
  beat,     \* heartbeat thread of each run: "off", "wait", "write", "final"
  late,     \* ten minutes past the time ceiling (the heartbeat's hard limit)
  armed,    \* the .reconcile_watermark file exists
  fresh,    \* runs whose log was written after the watermark
  rec,      \* the reconciliation of this process
  crashes

session == <<beat, late, armed, fresh, rec, crashes>>
allvars == <<vars, session>>

RecIdle == [pc |-> "idle", live |-> {}, todo |-> {}, hit |-> {}]

SessionInit ==
  /\ Init
  /\ beat = [r \in Runs |-> "off"]
  /\ late = [r \in Runs |-> FALSE]
  /\ armed \in BOOLEAN
  /\ fresh = {}
  /\ rec = RecIdle
  /\ crashes = 0

(* Steps of the worker that write no line of its log. *)
Silent == {"publish", "pause", "tail", "leave"}

WorkerStep(r) ==
  /\ Worker(r)
  /\ beat' = IF wk[r].pc = "start" THEN [beat EXCEPT ![r] = "wait"] ELSE beat
  /\ fresh' = IF armed /\ wk[r].pc \notin Silent THEN fresh \cup {r} ELSE fresh
  /\ UNCHANGED <<late, armed, rec, crashes>>

Request(r) ==
  /\ StartRun(r) \/ Stop(r) \/ BudgetSpent(r)
  /\ UNCHANGED session

-----------------------------------------------------------------------------
(* _beat: the progress state is read under the lock, the line is written    *)
(* after it.  A continuous run is over only once continuous_finished is set. *)
Finished(r) ==
  \/ prog[r].finished
  \/ r \notin Continuous /\ prog[r].done

HardLimitIgnored(r) == FALSE
HardLimit(r) == late[r]

BeatRead(r) ==
  /\ beat[r] = "wait"
  /\ beat' = [beat EXCEPT ![r] = IF ~InStore(r) THEN "off"
                                 ELSE IF Finished(r) THEN "final" ELSE "write"]
  /\ UNCHANGED <<vars, late, armed, fresh, rec, crashes>>

BeatWrite(r) ==
  /\ beat[r] \in {"write", "final"}
  /\ Note(r, "run_heartbeat")
  /\ beat' = [beat EXCEPT ![r] = IF @ = "final" \/ HardLimit(r) THEN "off" ELSE "wait"]
  /\ fresh' = IF armed THEN fresh \cup {r} ELSE fresh
  /\ UNCHANGED <<slots, store, prog, wk, budget, catalog, generated,
                 late, armed, rec, crashes>>

(* Time goes on after the ceiling. *)
Late(r) ==
  /\ budget[r] = "spent"
  /\ ~late[r]
  /\ late' = [late EXCEPT ![r] = TRUE]
  /\ UNCHANGED <<vars, beat, armed, fresh, rec, crashes>>

-----------------------------------------------------------------------------
(* The process dies and is restarted: threads, semaphore, store and the     *)
(* once-per-process flag are gone; log, catalog and blocks are on disk.     *)
Crash ==
  /\ crashes < MaxCrashes
  /\ crashes' = crashes + 1
  /\ slots' = Slots
  /\ store' = <<>>
  /\ prog' = [r \in Runs |-> NewState]
  /\ wk' = [r \in Runs |-> IF wk[r].pc \in Alive
                           THEN [wk[r] EXCEPT !.pc = "dead"] ELSE wk[r]]
  /\ beat' = [r \in Runs |-> "off"]
  /\ rec' = RecIdle
  /\ UNCHANGED <<budget, log, catalog, generated, late, armed, fresh>>

-----------------------------------------------------------------------------
(* _reconcile_session_logs.  The first one ever only leaves the watermark.  *)
Arm ==
  /\ rec.pc = "idle"
  /\ ~armed
  /\ armed' = TRUE
  /\ rec' = [rec EXCEPT !.pc = "over"]
  /\ UNCHANGED <<vars, beat, late, fresh, crashes>>

(* live_run_ids() is read once, before the directory is listed. *)
SnapLive ==
  /\ rec.pc = "idle"
  /\ armed
  /\ rec' = [rec EXCEPT !.pc = "glob", !.live = Live]
  /\ UNCHANGED <<vars, beat, late, armed, fresh, crashes>>

Glob ==
  /\ rec.pc = "glob"
  /\ rec' = [rec EXCEPT !.pc = "scan",
                        !.todo = {r \in Runs : log[r].last # "none"}]
  /\ UNCHANGED <<vars, beat, late, armed, fresh, crashes>>

(* A log newer than the watermark, of no live run, whose last event is not  *)
(* session_end when it is looked at, is closed as interrupted.              *)
OrphanIgnored(r) == FALSE
Orphan(r) ==
  /\ r \in fresh
  /\ r \notin rec.live
  /\ log[r].last # "session_end"

Inspect ==
  /\ rec.pc = "scan"
  /\ \E r \in rec.todo :
       rec' = [rec EXCEPT !.todo = @ \ {r},
                          !.hit = IF Orphan(r) THEN {r} ELSE {},
                          !.pc = IF Orphan(r) THEN "close" ELSE "scan"]
  /\ UNCHANGED <<vars, beat, late, armed, fresh, crashes>>

CloseOne ==
  /\ rec.pc = "close"
  /\ \E r \in rec.hit : NoteEnd(r, "interrupted")
  /\ rec' = [rec EXCEPT !.pc = "scan", !.hit = {}]
  /\ UNCHANGED <<slots, store, prog, wk, budget, catalog, generated,
                 beat, late, armed, fresh, crashes>>

ScanLogsOver ==
  /\ rec.pc = "scan"
  /\ rec.todo = {}
  /\ rec' = [RecIdle EXCEPT !.pc = "over"]
  /\ UNCHANGED <<vars, beat, late, armed, fresh, crashes>>

Reconcile == Arm \/ SnapLive \/ Glob \/ Inspect \/ CloseOne \/ ScanLogsOver

SessionNext ==
  \/ \E r \in Runs : WorkerStep(r) \/ Request(r)
  \/ \E r \in Runs : BeatRead(r) \/ BeatWrite(r) \/ Late(r)
  \/ Crash
  \/ Reconcile

SessionSpec == SessionInit /\ [][SessionNext]_allvars

(* Threads are scheduled, time passes, somebody opens /sessions after a     *)
(* restart; nothing is fair about stops or crashes.                         *)
SessionFairness ==
  /\ \A r \in Runs : /\ WF_allvars(WorkerStep(r))
                     /\ WF_allvars(BeatRead(r) \/ BeatWrite(r))
                     /\ WF_allvars(BudgetSpent(r) /\ UNCHANGED session)
                     /\ WF_allvars(Late(r))
  /\ WF_allvars(Reconcile)

SessionFairSpec == SessionSpec /\ SessionFairness

-----------------------------------------------------------------------------
SessionTypeOK ==
  /\ TypeOK
  /\ beat \in [Runs -> {"off", "wait", "write", "final"}]
  /\ late \in [Runs -> BOOLEAN]
  /\ armed \in BOOLEAN
  /\ fresh \in SUBSET Runs
  /\ rec \in [pc : {"idle", "glob", "scan", "close", "over"},
              live : SUBSET Runs, todo : SUBSET Runs, hit : SUBSET Runs]
  /\ crashes \in 0 .. MaxCrashes

LastEnd(r) == log[r].ends[Len(log[r].ends)]

(* A run whose process died, leaving a log newer than the watermark, is     *)
(* eventually recorded as ended: no dead run looks as if it went on.        *)
DeadRunsAreClosed ==
  \A r \in Runs : (wk[r].pc = "dead" /\ r \in fresh)
                    ~> (log[r].last = "session_end")

(* The heartbeat thread ends, at the latest by its hard limit, although the  *)
(* budget return never sets the flag it waits for.                           *)
HeartbeatStops == \A r \in Runs : (beat[r] # "off") ~> (beat[r] = "off")

(* Nothing is written to a log for ever, and none is left open: what a death *)
(* of the server cut off is closed by the next one (_start_heartbeat,        *)
(* sessions._reconcile_session_logs_once).                                   *)
LogsSettle == DeadRunsAreClosed /\ HeartbeatStops

(* "path.stem in live: still running in memory": reconciliation adds no     *)
(* interrupted record to the log of a run whose worker is alive.            *)
LiveRunsSpared ==
  [][\A r \in Runs : wk[r].pc \in Alive /\ log'[r].ends # log[r].ends =>
       LastEnd(r)' # "interrupted"]_allvars

(* "process died before writing a terminal event": a run that wrote its     *)
(* session_end and left is not recorded as interrupted.                     *)
EndedRunsSpared ==
  [][\A r \in Runs : wk[r].pc = "exited" /\ log'[r].ends # log[r].ends =>
       LastEnd(r)' # "interrupted"]_allvars
=============================================================================
