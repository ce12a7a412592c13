----------------------------- MODULE PaperRunner -----------------------------
(***************************************************************************)
(* One deployment of the Strategy Builder (strategy_studio/runner.py and   *)
(* its routes): a row in SQLite, the thread that launches a trading node,  *)
(* the thread that serves it, handlers that pause, resume and stop it, the *)
(* kill switch, and the reconciliation of rows when the process starts.    *)
(* The runner keeps its dicts by deployment id under one lock; each        *)
(* critical section, and each write of the row, is one step.               *)
(***************************************************************************)
EXTENDS Naturals, FiniteSets

CONSTANTS
  Operators,    \* handler threads
  MaxClicks,    \* bound: pause, resume and stop requests
  MaxTicks,     \* bound: measurements of the kill switch
  MaxRestarts   \* bound: deaths of the process

ASSUME RunnerBoundsAssumption == {MaxClicks, MaxTicks, MaxRestarts} \subseteq Nat

Verbs == {"pause", "resume", "stop"}

VARIABLES
  status,      \* of the row
  launch,      \* the background task of the deploy request
  serve,       \* the serve thread
  node,        \* registered: in _nodes; trading: its strategies run
  flags,       \* _stopping, _abandoned and the events of launch
  switch,      \* _armed: "off", "new" (no baseline), "armed", "fired"
  tick,        \* the monitor's measurement
  click,       \* what each handler is doing
  clicks, ticks, restarts

runnerVars == <<status, launch, serve, node, flags, switch, tick, click, clicks, ticks, restarts>>
counters == <<clicks, ticks, restarts>>

NoFlags == [stopping |-> FALSE, abandoned |-> FALSE, built |-> FALSE,
            failure |-> FALSE, announced |-> FALSE, exitedEarly |-> FALSE]
NoNode == [registered |-> FALSE, trading |-> FALSE]
NoClick == [pc |-> "idle", verb |-> "none"]

RunnerInit ==
  /\ status = "none" /\ launch = "off" /\ serve = "none" /\ node = NoNode
  /\ flags = NoFlags /\ switch = "off" /\ tick = "idle"
  /\ click = [o \in Operators |-> NoClick]
  /\ clicks = 0 /\ ticks = 0 /\ restarts = 0

-----------------------------------------------------------------------------
(* The deploy request: the row, then the pickup in the background.          *)
Deploy ==
  /\ status = "none" /\ status' = "pending" /\ launch' = "pickup"
  /\ UNCHANGED <<serve, node, flags, switch, tick, click, counters>>

Pickup ==
  /\ launch = "pickup"
  /\ launch' = IF status = "pending" THEN "enter" ELSE "over"
  /\ UNCHANGED <<status, serve, node, flags, switch, tick, click, counters>>

(* A stop that came first is found here; a configuration may be refused.    *)
Enter ==
  /\ launch = "enter"
  /\ \/ /\ flags.abandoned
        /\ flags' = [flags EXCEPT !.abandoned = FALSE]
        /\ launch' = "over" /\ UNCHANGED serve
     \/ /\ ~flags.abandoned /\ UNCHANGED flags
        /\ \/ launch' = "refused" /\ UNCHANGED serve
           \/ launch' = "wait" /\ serve' = "building"
  /\ UNCHANGED <<status, node, switch, tick, click, counters>>

(* Waits that end with the event, or with the timeout.                      *)
Waited ==
  /\ launch = "wait"
  /\ launch' = IF flags.built THEN IF flags.failure THEN "refused" ELSE "announce" ELSE "timeout"
  /\ UNCHANGED <<status, serve, node, flags, switch, tick, click, counters>>

LateBuild ==
  /\ launch = "timeout"
  /\ launch' = IF node.registered THEN "fail-stop" ELSE "refused"
  /\ flags' = [flags EXCEPT !.abandoned = @ \/ ~node.registered]
  /\ UNCHANGED <<status, serve, node, switch, tick, click, counters>>

LaunchFails ==
  /\ launch \in {"refused", "fail-stop"} /\ status' = "failed"
  /\ launch' = IF launch = "fail-stop" THEN "stop" ELSE "over"
  /\ UNCHANGED <<serve, node, flags, switch, tick, click, counters>>

(* Under the lock: still registered and announced, or never announced.      *)
Announce ==
  /\ launch = "announce"
  /\ IF node.registered
     THEN /\ flags' = [flags EXCEPT !.announced = TRUE]
          /\ status' = "running" /\ launch' = "arm"
     ELSE /\ launch' = IF flags.exitedEarly THEN "refused" ELSE "over"
          /\ UNCHANGED <<flags, status>>
  /\ UNCHANGED <<serve, node, switch, tick, click, counters>>

(* The switch may be off, armed, or inactive for want of capital, which is  *)
(* written to the row.                                                      *)
Arm ==
  /\ launch = "arm" /\ launch' = "over"
  /\ \/ UNCHANGED <<status, switch>>
     \/ switch' = "new" /\ UNCHANGED status
     \/ status' = "running" /\ UNCHANGED switch
  /\ UNCHANGED <<serve, node, flags, tick, click, counters>>

Launcher == Pickup \/ Enter \/ Waited \/ LateBuild \/ LaunchFails \/ Announce \/ Arm

-----------------------------------------------------------------------------
(* The serve thread.                                                        *)
BuildFails ==
  /\ serve = "building" /\ serve' = "gone"
  /\ flags' = [flags EXCEPT !.built = TRUE, !.failure = TRUE]
  /\ UNCHANGED <<status, launch, node, switch, tick, click, counters>>

(* Registration and the look at _abandoned are one critical section.        *)
(* Mutant: the mark is for nobody. *)
NeverGivesUp == FALSE
GivesUp == flags.abandoned
Register ==
  /\ serve = "building"
  /\ flags' = [flags EXCEPT !.abandoned = FALSE]
  /\ IF GivesUp
     THEN serve' = "drop" /\ UNCHANGED node
     ELSE serve' = "registered" /\ node' = [registered |-> TRUE, trading |-> TRUE]
  /\ UNCHANGED <<status, launch, switch, tick, click, counters>>

Built ==
  /\ serve \in {"drop", "registered"}
  /\ serve' = IF serve = "drop" THEN "gone" ELSE "up"
  /\ flags' = [flags EXCEPT !.built = TRUE]
  /\ UNCHANGED <<status, launch, node, switch, tick, click, counters>>

(* The node exits because it was told to, by itself, or with an exception.  *)
NodeExits ==
  /\ serve = "up" /\ serve' = "finally"
  /\ \E failed \in BOOLEAN : flags' = [flags EXCEPT !.failure = @ \/ failed]
  /\ UNCHANGED <<status, launch, node, switch, tick, click, counters>>

(* Mutant: an exit before the announcement is forgotten. *)
ExitIgnored == FALSE
ExitedEarly == ~flags.announced /\ ~flags.stopping
Deregister ==
  /\ serve = "finally"
  /\ serve' = IF flags.announced /\ ~flags.stopping THEN "report" ELSE "gone"
  /\ flags' = [flags EXCEPT !.stopping = FALSE, !.abandoned = FALSE,
                            !.exitedEarly = @ \/ ExitedEarly]
  /\ node' = NoNode /\ switch' = "off"
  /\ UNCHANGED <<status, launch, tick, click, counters>>

ReportExit ==
  /\ serve = "report" /\ serve' = "gone" /\ status' = "failed"
  /\ UNCHANGED <<launch, node, flags, switch, tick, click, counters>>

ServeThread == BuildFails \/ Register \/ Built \/ Deregister \/ ReportExit

-----------------------------------------------------------------------------
(* Handlers: the row is read, the runner driven, the row written.           *)
AllowedFrom(verb) ==
  CASE verb = "pause"  -> {"running"}
    [] verb = "resume" -> {"paused"}
    [] verb = "stop"   -> {"pending", "running", "paused"}
Target(verb) ==
  CASE verb = "pause" -> "paused" [] verb = "resume" -> "running" [] verb = "stop" -> "stopped"

Clicks(o, verb) ==
  /\ click[o].pc = "idle" /\ clicks < MaxClicks /\ clicks' = clicks + 1
  /\ status \in AllowedFrom(verb)
  /\ click' = [click EXCEPT ![o] = [pc |-> "drive", verb |-> verb]]
  /\ UNCHANGED <<status, launch, serve, node, flags, switch, tick, ticks, restarts>>

(* Mutant: a stop that finds no node leaves nothing behind. *)
StopsWhatIsThere ==
  /\ switch' = "off"
  /\ flags' = [flags EXCEPT !.stopping = node.registered]
(* PaperRunner.stop: whoever finds no node leaves the mark for the thread   *)
(* that may still be building it.                                           *)
Stops ==
  /\ switch' = "off"
  /\ flags' = IF node.registered THEN [flags EXCEPT !.stopping = TRUE]
              ELSE [flags EXCEPT !.abandoned = TRUE]

DriveStop(o) ==
  /\ click[o].pc = "drive" /\ click[o].verb = "stop"
  /\ Stops
  /\ click' = [click EXCEPT ![o].pc = "record"]
  /\ UNCHANGED <<status, launch, serve, node, tick, counters>>

DrivePause(o) ==
  /\ click[o].pc = "drive" /\ click[o].verb \in {"pause", "resume"}
  /\ IF node.registered
     THEN /\ node' = [node EXCEPT !.trading = click[o].verb = "resume"]
          /\ click' = [click EXCEPT ![o].pc = IF click[o].verb = "resume" THEN "rearm" ELSE "record"]
     ELSE click' = [click EXCEPT ![o].pc = "refuse"] /\ UNCHANGED node
  /\ UNCHANGED <<status, launch, serve, flags, switch, tick, counters>>

Rearm(o) ==
  /\ click[o].pc = "rearm"
  /\ switch' = IF switch = "off" THEN "off" ELSE "new"
  /\ click' = [click EXCEPT ![o].pc = "record"]
  /\ UNCHANGED <<status, launch, serve, node, flags, tick, counters>>

Record(o) ==
  /\ click[o].pc \in {"record", "refuse"}
  /\ status' = IF click[o].pc = "refuse" THEN "failed" ELSE Target(click[o].verb)
  /\ click' = [click EXCEPT ![o] = NoClick]
  /\ UNCHANGED <<launch, serve, node, flags, switch, tick, counters>>

LateStop ==
  /\ launch = "stop" /\ launch' = "over"
  /\ Stops
  /\ UNCHANGED <<status, serve, node, tick, click, counters>>

Driven(o) == DriveStop(o) \/ DrivePause(o) \/ Rearm(o) \/ Record(o)

-----------------------------------------------------------------------------
(* The kill switch: a measurement takes the armed switches, reads the       *)
(* account, and judges under the lock; the first reading of a day is its    *)
(* baseline.                                                                *)
Measure ==
  /\ tick = "idle" /\ ticks < MaxTicks /\ ticks' = ticks + 1
  /\ switch \in {"new", "armed"} /\ tick' = "read"
  /\ UNCHANGED <<status, launch, serve, node, flags, switch, click, clicks, restarts>>

Judge ==
  /\ tick = "read"
  /\ \/ tick' = "idle" /\ UNCHANGED switch                          \* unreadable, or no breach
     \/ tick' = "idle" /\ switch' = IF switch = "new" THEN "armed" ELSE switch
     \/ tick' = "pause" /\ switch \in {"off", "armed", "fired"}     \* a breach
        /\ switch' = IF switch = "off" THEN "off" ELSE "fired"
  /\ UNCHANGED <<status, launch, serve, node, flags, click, counters>>

FirePause ==
  /\ tick = "pause"
  /\ IF node.registered THEN tick' = "report" /\ node' = [node EXCEPT !.trading = FALSE]
     ELSE tick' = "idle" /\ UNCHANGED node
  /\ UNCHANGED <<status, launch, serve, flags, switch, click, counters>>

FireReport ==
  /\ tick = "report" /\ tick' = "idle" /\ status' = "paused"
  /\ UNCHANGED <<launch, serve, node, flags, switch, click, counters>>

Monitor == Judge \/ FirePause \/ FireReport

(* The process dies; the next one marks what the row calls live as failed,  *)
(* a pending row included, before it serves a request.                      *)
LiveRows == {"pending", "running", "paused"}
Restart ==
  /\ status # "none" /\ restarts < MaxRestarts /\ restarts' = restarts + 1
  /\ status' = IF status \in LiveRows THEN "failed" ELSE status
  /\ launch' = "off" /\ serve' = "none" /\ node' = NoNode
  /\ flags' = NoFlags /\ switch' = "off" /\ tick' = "idle"
  /\ click' = [o \in Operators |-> NoClick]
  /\ UNCHANGED <<clicks, ticks>>

RunnerNext ==
  \/ Deploy \/ Launcher \/ LateStop \/ ServeThread \/ NodeExits \/ Measure \/ Monitor
  \/ \E o \in Operators : Driven(o) \/ \E verb \in Verbs : Clicks(o, verb)
  \/ Restart

(* The threads run; a build ends; a node that was told to stop exits.       *)
RunnerFairness ==
  /\ WF_runnerVars(Launcher \/ LateStop)
  /\ WF_runnerVars(ServeThread) /\ WF_runnerVars(NodeExits /\ flags.stopping)
  /\ WF_runnerVars(Monitor)
  /\ \A o \in Operators : WF_runnerVars(Driven(o))
RunnerSpec == RunnerInit /\ [][RunnerNext]_runnerVars /\ RunnerFairness
-----------------------------------------------------------------------------
RunnerTypeOK ==
  /\ status \in {"none", "pending", "running", "paused", "stopped", "failed"}
  /\ node \in [registered : BOOLEAN, trading : BOOLEAN] /\ flags \in [DOMAIN NoFlags -> BOOLEAN]
  /\ switch \in {"off", "new", "armed", "fired"}
  /\ tick \in {"idle", "read", "pause", "report"}

(* No hidden node: while one is registered and nobody has told it to stop   *)
(* or is about to, its row is one the operator can stop it from.            *)
AboutToStop ==
  flags.stopping \/ launch \in {"fail-stop", "stop"}
  \/ serve \in {"finally"}
NodeIsSeen == node.registered /\ ~AboutToStop => status \in LiveRows

(* Rows settle: every pickup leaves the row in another state than pending,  *)
(* also when the node exits before it was announced; and a row that says    *)
(* stopped or failed has no node before long.                               *)
RowsSettle ==
  /\ status = "pending" ~> status # "pending"
  /\ status \in {"stopped", "failed"} ~> ~node.registered

(* "Terminal": a stopped deployment stays stopped.                          *)
StoppedStaysStopped == [][status = "stopped" => status' = "stopped"]_runnerVars
=============================================================================
