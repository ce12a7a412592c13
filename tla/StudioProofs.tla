---------------------------- MODULE StudioProofs ----------------------------
(***************************************************************************)
(* Proofs about the Strategy Builder's jobs (StudioJobs), deployments      *)
(* (PaperRunner) and optimizer (StrategySweep).                            *)
(***************************************************************************)
EXTENDS StudioJobs, PaperRunner, StrategySweep, FiniteSetTheorems, SequenceTheorems,
        WellFoundedInduction, TLAPS

-----------------------------------------------------------------------------
(* Types.  A definition is a set of edits; a draft is one definition.       *)
EditKinds == {"user", "optimum", "suggestion"} \X Nat
Defns == SUBSET EditKinds
JobRows == [kind : JobKinds, status : {"running", "done", "failed", "interrupted"}, defn : Defns]
Asked == {"flag", "snap", "live", "interrupt"}
Hands ==
  [pc : {"idle", "answer", "check", "create", "claim", "accept", "accepted", "failed", "gate"} \cup Asked,
   op : JobKinds \cup {"list", "none"}, defn : Defns, act : SUBSET Nat, id : Nat]
Tasks ==
  [pc : {"off", "work", "suggest", "apply", "worse", "mark", "stale", "finish", "release"},
   base : Defns, sid : Nat, n : Nat]
Statuses == {"review", "failed", "rejected", "accepted"}

(* A request that has come past the reconciliation starts a job.            *)
Hand(a) ==
  /\ a \in Hands
  /\ a.pc \in Asked => a.op \in JobKinds \cup {"list"}
  /\ a.pc \in {"check", "create"} => a.op \in JobKinds

StudioTypes ==
  /\ versions \in Seq(Defns) /\ versions # <<>>
  /\ draft = {} \/ \E d \in Defns : draft = {d}
  /\ rows \in Seq(JobRows) /\ Len(rows) <= MaxStudioJobs
  /\ task \in [1..MaxStudioJobs -> Tasks]
  /\ claimed \subseteq Nat /\ reconciled \in BOOLEAN
  /\ handler \in [Handlers -> Hands] /\ \A h \in Handlers : Hand(handler[h])
  /\ suggested \in Seq(Statuses) /\ asked \in Nat

-----------------------------------------------------------------------------
LEMMA StudioNumbers == MaxStudioJobs \in Nat /\ MaxAsked \in Nat /\ MaxDeaths \in Nat
BY StudioBoundsAssumption

LEMMA NoOnes ==
  /\ IdleHandler \in Hands /\ IdleHandler.pc = "idle" /\ Hand(IdleHandler)
  /\ NoTask \in Tasks /\ NoTask.pc = "off"
BY DEF IdleHandler, NoTask, Hands, Tasks, Hand, Asked, Defns

(* Among finitely many ids there is a newest.                               *)
LEMMA Greatest ==
  ASSUME NEW n \in Nat, NEW T \in SUBSET (1..n), T # {}
  PROVE  Newest(T) \in T
<1> DEFINE U == {n - x : x \in T}
<1>1. U \subseteq Nat /\ U # {}
  <2>1. PICK x \in T : TRUE
    OBVIOUS
  <2>2. n - x \in U
    BY <2>1
  <2> QED  BY <2>2
<1>2. PICK u \in U : \A y \in U : <<y, u>> \notin OpToRel(<, Nat)
  <2> HIDE DEF U
  <2> QED  BY <1>1, NatLessThanWellFounded, WFMin
<1>3. \A y \in U : ~(y < u)
  BY <1>1, <1>2 DEF OpToRel
<1>4. PICK m \in T : u = n - m
  BY <1>2
<1>5. ASSUME NEW x \in T  PROVE x <= m
  <2>1. ~(n - x < n - m)
    BY <1>3, <1>4
  <2> QED  BY <2>1
<1> QED  BY <1>5 DEF Newest

LEMMA WorkingIs ==
  ASSUME StudioTypes
  PROVE  /\ Working \in Defns /\ Len(versions) \in Nat /\ 0 < Len(versions)
         /\ draft # {} => UNION draft = Working
<1>1. Len(versions) \in Nat /\ 0 < Len(versions) /\ versions[Len(versions)] \in Defns
  BY EmptySeq, LenProperties, ElementOfSeq DEF StudioTypes
<1>2. draft = {} => Working \in Defns
  BY <1>1 DEF Working, Last
<1>3. draft # {} => UNION draft \in Defns /\ UNION draft = Working
  BY DEF StudioTypes, Working, Defns
<1> QED  BY <1>1, <1>2, <1>3

(* What a new draft makes of the working copy.                              *)
LEMMA Drafted ==
  ASSUME NEW d, draft' = {d}
  PROVE  Working' = d
<1>1. draft' # {} /\ UNION draft' = d
  OBVIOUS
<1> QED  BY <1>1 DEF Working

LEMMA SavedVersion ==
  ASSUME StudioTypes, NEW d \in Defns, draft' = {}, versions' = Append(versions, d)
  PROVE  Working' = d /\ versions' \in Seq(Defns) /\ versions' # <<>>
<1>1. versions' \in Seq(Defns) /\ versions' # <<>> /\ Len(versions') = Len(versions) + 1
      /\ versions'[Len(versions) + 1] = d
  BY AppendProperties DEF StudioTypes
<1> QED  BY <1>1 DEF Working, Last

LEMMA TypesInit == StudioInit => StudioTypes
<1> SUFFICES ASSUME StudioInit PROVE StudioTypes
  OBVIOUS
<1>1. versions \in Seq(Defns) /\ versions # <<>>
  BY DEF StudioInit, Defns
<1>2. rows \in Seq(JobRows) /\ Len(rows) = 0 /\ suggested \in Seq(Statuses)
  BY EmptySeq DEF StudioInit
<1>3. task \in [1..MaxStudioJobs -> Tasks]
  BY NoOnes DEF StudioInit
<1>4. handler \in [Handlers -> Hands] /\ \A h \in Handlers : Hand(handler[h])
  BY NoOnes DEF StudioInit
<1>5. draft = {} /\ claimed \subseteq Nat /\ reconciled \in BOOLEAN /\ asked \in Nat
  BY DEF StudioInit
<1>6. Len(rows) <= MaxStudioJobs
  BY <1>2, StudioNumbers
<1> QED  BY <1>1, <1>2, <1>3, <1>4, <1>5, <1>6 DEF StudioTypes

-----------------------------------------------------------------------------
(* Actions in which one handler moves and nothing else of the types does.   *)
LEMMA HandMoves ==
  ASSUME StudioTypes, NEW h \in Handlers, NEW b, Hand(b), handler' = [handler EXCEPT ![h] = b]
  PROVE  handler' \in [Handlers -> Hands] /\ \A g \in Handlers : Hand(handler'[g])
BY DEF StudioTypes, Hand

LEMMA HandGoes ==
  ASSUME StudioTypes, NEW h \in Handlers, NEW pc, Goes(h, pc),
         pc \in {"answer", "create", "claim", "accept", "accepted", "failed", "snap", "check"},
         pc = "create" => handler[h].pc = "check",
         pc = "snap" => handler[h].pc \in Asked,
         pc = "check" => handler[h].op \in JobKinds
  PROVE  handler' \in [Handlers -> Hands] /\ \A g \in Handlers : Hand(handler'[g])
<1> DEFINE b == [handler[h] EXCEPT !.pc = pc]
<1>1. Hand(handler[h]) /\ handler[h] \in Hands
  BY DEF StudioTypes
<1>2. b \in Hands /\ b.pc = pc /\ b.op = handler[h].op
  BY <1>1 DEF Hands, Asked
<1>3. handler' = [handler EXCEPT ![h] = b]
  BY DEF Goes
<1> HIDE DEF b
<1>4. Hand(b)
  BY <1>1, <1>2 DEF Hand, Asked
<1> QED  BY <1>3, <1>4, HandMoves

LEMMA HandAnswers ==
  ASSUME StudioTypes, NEW h \in Handlers, Answers(h)
  PROVE  handler' \in [Handlers -> Hands] /\ \A g \in Handlers : Hand(handler'[g])
BY NoOnes, HandMoves DEF Answers

LEMMA RowStatus ==
  ASSUME StudioTypes, NEW j, NEW outcome,
         j \in DOMAIN rows => outcome \in {"running", "done", "failed", "interrupted"},
         rows' = [rows EXCEPT ![j].status = outcome]
  PROVE  /\ rows' \in Seq(JobRows) /\ Len(rows') = Len(rows) /\ DOMAIN rows' = DOMAIN rows
         /\ \A i \in DOMAIN rows :
              /\ rows'[i].kind = rows[i].kind /\ rows'[i].defn = rows[i].defn
              /\ rows'[i].status = IF i = j THEN outcome ELSE rows[i].status
<1>1. rows \in Seq(JobRows) /\ DOMAIN rows = 1..Len(rows) /\ \A i \in DOMAIN rows : rows[i] \in JobRows
  BY LenProperties, ElementOfSeq DEF StudioTypes
<1>2. CASE j \in DOMAIN rows
  <2> DEFINE r == [rows[j] EXCEPT !.status = outcome]
  <2>1. r \in JobRows /\ r.kind = rows[j].kind /\ r.defn = rows[j].defn /\ r.status = outcome
    BY <1>1, <1>2 DEF JobRows
  <2>2. rows' = [rows EXCEPT ![j] = r]
    OBVIOUS
  <2> HIDE DEF r
  <2> QED  BY <1>1, <1>2, <2>1, <2>2, ExceptSeq, LenProperties
<1>3. CASE j \notin DOMAIN rows
  <2>1. rows' = rows
    BY <1>1, <1>3
  <2> QED  BY <1>1, <1>3, <2>1
<1> QED  BY <1>2, <1>3

LEMMA TaskMoves ==
  ASSUME StudioTypes, NEW j \in 1..MaxStudioJobs, NEW b \in Tasks, task' = [task EXCEPT ![j] = b]
  PROVE  task' \in [1..MaxStudioJobs -> Tasks]
BY DEF StudioTypes

LEMMA TaskSteps ==
  ASSUME StudioTypes, NEW j \in 1..MaxStudioJobs, NEW pc, Step(j, pc),
         pc \in {"off", "work", "suggest", "apply", "worse", "mark", "stale", "finish", "release"}
  PROVE  task' \in [1..MaxStudioJobs -> Tasks]
<1>1. [task[j] EXCEPT !.pc = pc] \in Tasks
  BY DEF StudioTypes, Tasks
<1>2. task' = [task EXCEPT ![j] = [task[j] EXCEPT !.pc = pc]]
  BY DEF Step
<1> QED  BY <1>1, <1>2, TaskMoves

LEMMA SuggestedTypes ==
  ASSUME StudioTypes, NEW outcome \in Statuses,
         Suggestion(outcome) \/ \E sid : Marks(sid, outcome)
  PROVE  suggested' \in Seq(Statuses) /\ Len(suggested') \in Nat
<1>1. suggested \in Seq(Statuses) /\ DOMAIN suggested = 1..Len(suggested)
  BY LenProperties DEF StudioTypes
<1>2. CASE Suggestion(outcome)
  BY <1>1, <1>2, AppendProperties, LenProperties DEF Suggestion
<1>3. ASSUME NEW sid, Marks(sid, outcome)  PROVE suggested' \in Seq(Statuses) /\ Len(suggested') \in Nat
  <2>1. CASE sid \in 1..Len(suggested)
    BY <1>1, <1>3, <2>1, ExceptSeq, LenProperties DEF Marks
  <2>2. CASE sid \notin 1..Len(suggested)
    <3>1. suggested' = suggested
      BY <1>1, <1>3, <2>2 DEF Marks
    <3> QED  BY <1>1, <3>1, LenProperties
  <2> QED  BY <2>1, <2>2
<1> QED  BY <1>2, <1>3

LEMMA HandlersType ==
  ASSUME StudioTypes, NEW h \in Handlers, HandlerStep(h)
  PROVE  StudioTypes'
<1>0. /\ Working \in Defns /\ Last(versions) \in Defns /\ asked \in Nat /\ MaxStudioJobs \in Nat
      /\ rows \in Seq(JobRows) /\ DOMAIN rows = 1..Len(rows) /\ Len(rows) \in Nat
      /\ Hand(handler[h]) /\ handler[h] \in Hands /\ handler[h].defn \in Defns
      /\ handler[h].act \subseteq Nat /\ handler[h].id \in Nat
      /\ handler[h].op \in JobKinds \cup {"list", "none"}
      /\ DOMAIN suggested \subseteq Nat
  <2>1. Last(versions) \in Defns
    BY WorkingIs, ElementOfSeq DEF Last, StudioTypes
  <2>2. handler[h] \in Hands /\ Hand(handler[h])
    BY DEF StudioTypes
  <2> QED  BY <2>1, <2>2, WorkingIs, StudioNumbers, LenProperties DEF StudioTypes, Hands
<1>e. ASSUME NEW kind \in {"user", "optimum", "suggestion"}, NEW n \in Nat
      PROVE  Working \cup {<<kind, n>>} \in Defns
  BY <1>0 DEF Defns, EditKinds
<1>1. CASE Edit(h)
  <2>1. asked' \in Nat
    BY <1>0, <1>1 DEF Edit, Asks
  <2> QED  BY <1>1, <1>e, <2>1 DEF Edit, Asks, StudioTypes, jobRowVars
<1>2. CASE DeleteRule(h) \/ Discard(h)
  <2>1. \A e : Working \ {e} \in Defns
    BY <1>0 DEF Defns
  <2>2. asked' \in Nat /\ UNCHANGED <<versions, rows, task, claimed, reconciled, handler, suggested>>
    BY <1>0, <1>2 DEF DeleteRule, Discard, Asks, jobRowVars
  <2>3. draft' = {} \/ \E d \in Defns : draft' = {d}
    BY <1>2, <2>1 DEF DeleteRule, Discard
  <2> QED  BY <2>2, <2>3 DEF StudioTypes
<1>3. CASE SaveVersion(h)
  <2>1. UNION draft \in Defns
    BY <1>0, <1>3, WorkingIs DEF SaveVersion
  <2>2. versions' \in Seq(Defns) /\ versions' # <<>>
    BY <1>3, <2>1, SavedVersion DEF SaveVersion
  <2>3. asked' \in Nat
    BY <1>0, <1>3 DEF SaveVersion, Asks
  <2> QED  BY <1>3, <2>2, <2>3 DEF SaveVersion, StudioTypes, jobRowVars
<1>4. CASE ApplyOptimum(h)
  <2>1. RowIds("optimize") \in SUBSET (1..Len(rows)) /\ RowIds("optimize") # {}
    BY <1>0, <1>4 DEF RowIds, ApplyOptimum
  <2>2. Newest(RowIds("optimize")) \in Nat
    <3>1. Newest(RowIds("optimize")) \in RowIds("optimize")
      BY <1>0, <2>1, Greatest
    <3> QED  BY <1>0, <2>1, <3>1
  <2>3. asked' \in Nat
    BY <1>0, <1>4 DEF ApplyOptimum, Asks
  <2> QED  BY <1>4, <1>e, <2>2, <2>3 DEF ApplyOptimum, StudioTypes, jobRowVars
<1>5. ASSUME NEW op \in JobKinds \cup {"list"}, Request(h, op)  PROVE StudioTypes'
  <2> DEFINE b == [IdleHandler EXCEPT !.pc = "flag", !.op = op, !.defn = Working]
  <2>1. b \in Hands /\ b.pc = "flag" /\ b.op = op
    BY <1>0, NoOnes DEF Hands, Asked
  <2>2. Hand(b)
    BY <2>1 DEF Hand, Asked
  <2>3. handler' = [handler EXCEPT ![h] = b] /\ asked' \in Nat
    BY <1>0, <1>5 DEF Request, Asks
  <2> HIDE DEF b
  <2>4. handler' \in [Handlers -> Hands] /\ \A g \in Handlers : Hand(handler'[g])
    BY <2>2, <2>3, HandMoves
  <2> QED  BY <1>5, <2>3, <2>4 DEF Request, StudioTypes, jobRowVars, defnVars
<1>6. CASE Flag(h)
  <2>1. Goes(h, IF reconciled THEN Then(handler[h].op) ELSE "snap") /\ handler[h].pc = "flag"
        /\ handler[h].op \in JobKinds \cup {"list"}
    BY <1>0, <1>6 DEF Flag, Hand, Asked
  <2>2. handler' \in [Handlers -> Hands] /\ \A g \in Handlers : Hand(handler'[g])
    BY <2>1, HandGoes DEF Then, Asked
  <2> QED  BY <1>6, <2>2 DEF Flag, StudioTypes, defnVars, askVars
<1>7. CASE SnapClaims(h)
  <2> DEFINE b == [handler[h] EXCEPT !.pc = "live", !.act = claimed]
  <2>1. b \in Hands /\ b.pc = "live" /\ b.op = handler[h].op
    BY <1>0 DEF Hands, Asked, StudioTypes
  <2>2. handler' = [handler EXCEPT ![h] = b] /\ handler[h].pc = "snap"
    BY <1>7 DEF SnapClaims
  <2> HIDE DEF b
  <2>3. Hand(b)
    BY <1>0, <2>1, <2>2 DEF Hand, Asked
  <2>4. handler' \in [Handlers -> Hands] /\ \A g \in Handlers : Hand(handler'[g])
    BY <2>2, <2>3, HandMoves
  <2> QED  BY <1>7, <2>4 DEF SnapClaims, StudioTypes, jobRowVars, defnVars, askVars
<1>8. CASE FindOrphans(h)
  <2> DEFINE b == [handler[h] EXCEPT !.pc = "interrupt", !.act = Orphans(handler[h].act)]
  <2>1. b \in Hands /\ b.pc = "interrupt" /\ b.op = handler[h].op
    <3>1. Orphans(handler[h].act) \subseteq Nat
      BY <1>0 DEF Orphans
    <3> QED  BY <1>0, <3>1 DEF Hands, Asked
  <2>2. handler' = [handler EXCEPT ![h] = b] /\ handler[h].pc = "live"
    BY <1>8 DEF FindOrphans
  <2> HIDE DEF b
  <2>3. Hand(b)
    BY <1>0, <2>1, <2>2 DEF Hand, Asked
  <2>4. handler' \in [Handlers -> Hands] /\ \A g \in Handlers : Hand(handler'[g])
    BY <2>2, <2>3, HandMoves
  <2> QED  BY <1>8, <2>4 DEF FindOrphans, StudioTypes, jobRowVars, defnVars, askVars
<1>9. CASE InterruptJob(h)
  <2>1. handler[h].pc = "interrupt" /\ handler[h].op \in JobKinds \cup {"list"}
        /\ UNCHANGED <<versions, draft, task, claimed, reconciled, suggested, asked>>
    BY <1>0, <1>9 DEF InterruptJob, Hand, Asked, defnVars, askVars
  <2>2. CASE handler[h].act = {}
    <3>1. handler' \in [Handlers -> Hands] /\ \A g \in Handlers : Hand(handler'[g])
      BY <1>9, <2>1, <2>2, HandGoes DEF InterruptJob, Then, Asked
    <3> QED  BY <1>9, <2>1, <2>2, <3>1 DEF InterruptJob, StudioTypes
  <2>3. CASE handler[h].act # {}
    <3> DEFINE j == Newest(handler[h].act)
               b == [handler[h] EXCEPT !.act = handler[h].act \ {j}]
               s == IF Running(j) THEN "interrupted" ELSE rows[j].status
    <3>1. rows' = [rows EXCEPT ![j].status = s] /\ handler' = [handler EXCEPT ![h] = b]
      BY <1>9, <2>3 DEF InterruptJob
    <3>2. j \in DOMAIN rows => s \in {"running", "done", "failed", "interrupted"}
      <4>1. j \in DOMAIN rows => rows[j] \in JobRows
        BY <1>0, ElementOfSeq
      <4> QED  BY <4>1 DEF JobRows
    <3>3. b \in Hands /\ b.pc = handler[h].pc /\ b.op = handler[h].op
      BY <1>0 DEF Hands
    <3> HIDE DEF j, b, s
    <3>4. Hand(b)
      BY <1>0, <3>3 DEF Hand
    <3>5. handler' \in [Handlers -> Hands] /\ \A g \in Handlers : Hand(handler'[g])
      BY <3>1, <3>4, HandMoves
    <3>6. rows' \in Seq(JobRows) /\ Len(rows') = Len(rows)
      BY <3>1, <3>2, RowStatus
    <3> QED  BY <2>1, <3>5, <3>6 DEF StudioTypes
  <2> QED  BY <2>2, <2>3
<1>10. CASE CheckInFlight(h)
  <2>1. handler[h].pc = "check" /\ (Goes(h, "create") \/ Answers(h))
        /\ UNCHANGED <<versions, draft, rows, task, claimed, reconciled, suggested, asked>>
    BY <1>10 DEF CheckInFlight, defnVars, jobRowVars, askVars
  <2>2. handler' \in [Handlers -> Hands] /\ \A g \in Handlers : Hand(handler'[g])
    BY <2>1, HandGoes, HandAnswers
  <2> QED  BY <2>1, <2>2 DEF StudioTypes
<1>11. CASE CreateRow(h)
  <2> DEFINE r == [kind |-> handler[h].op, status |-> "running", defn |-> handler[h].defn]
             b == [handler[h] EXCEPT !.pc = "claim", !.id = Len(rows')]
  <2>1. handler[h].pc = "create" /\ Len(rows) < MaxStudioJobs /\ rows' = Append(rows, r)
        /\ handler' = [handler EXCEPT ![h] = b]
        /\ UNCHANGED <<versions, draft, task, claimed, reconciled, suggested, asked>>
    BY <1>11 DEF CreateRow, defnVars, askVars
  <2>2. r \in JobRows
    BY <1>0, <2>1 DEF JobRows, Hand
  <2> HIDE DEF r
  <2>3. rows' \in Seq(JobRows) /\ Len(rows') = Len(rows) + 1
    BY <1>0, <2>1, <2>2, AppendProperties
  <2>4. b \in Hands /\ b.pc = "claim"
    <3>1. Len(rows') \in Nat
      BY <1>0, <2>3
    <3> QED  BY <1>0, <3>1 DEF Hands
  <2> HIDE DEF b
  <2>5. Hand(b)
    BY <2>4 DEF Hand, Asked
  <2>6. handler' \in [Handlers -> Hands] /\ \A g \in Handlers : Hand(handler'[g])
    BY <2>1, <2>5, HandMoves
  <2>7. Len(rows') <= MaxStudioJobs
    BY <1>0, <2>1, <2>3
  <2> QED  BY <2>1, <2>3, <2>6, <2>7 DEF StudioTypes
<1>12. CASE ClaimJob(h)
  <2>1. /\ claimed' \subseteq Nat /\ UNCHANGED <<versions, draft, rows, reconciled, suggested, asked>>
        /\ handler' \in [Handlers -> Hands] /\ \A g \in Handlers : Hand(handler'[g])
    BY <1>0, <1>12, HandAnswers DEF ClaimJob, defnVars, askVars, StudioTypes
  <2>2. task' = [task EXCEPT ![handler[h].id] = [NoTask EXCEPT !.pc = "work"]]
        /\ [NoTask EXCEPT !.pc = "work"] \in Tasks
    BY <1>12, NoOnes DEF ClaimJob, Tasks
  <2>3. task' \in [1..MaxStudioJobs -> Tasks]
    BY <2>2 DEF StudioTypes
  <2> QED  BY <2>1, <2>3 DEF StudioTypes
<1>13. CASE ListDone(h)
  BY <1>13, HandAnswers DEF ListDone, defnVars, jobRowVars, askVars, StudioTypes
<1>14. CASE Suggest(h)
  <2>1. suggested' \in Seq(Statuses) /\ asked' \in Nat
    BY <1>0, <1>14, SuggestedTypes DEF Suggest, Asks, Statuses
  <2> QED  BY <1>14, <2>1 DEF Suggest, defnVars, jobRowVars, StudioTypes
<1>15. CASE AcceptRead(h)
  <2>1. PICK s \in DOMAIN suggested :
          handler' = [handler EXCEPT ![h] = [IdleHandler EXCEPT !.pc = "accept", !.id = s]]
    BY <1>15 DEF AcceptRead
  <2> DEFINE b == [IdleHandler EXCEPT !.pc = "accept", !.id = s]
  <2>2. b \in Hands /\ b.pc = "accept"
    BY <1>0, NoOnes DEF Hands
  <2> HIDE DEF b
  <2>3. Hand(b) /\ asked' \in Nat
    BY <1>0, <1>15, <2>2 DEF Hand, Asked, AcceptRead, Asks
  <2>4. handler' \in [Handlers -> Hands] /\ \A g \in Handlers : Hand(handler'[g])
    BY <2>1, <2>3, HandMoves DEF b
  <2> QED  BY <1>15, <2>3, <2>4 DEF AcceptRead, StudioTypes, defnVars, jobRowVars
<1>16. CASE AcceptApply(h)
  <2>1. handler' \in [Handlers -> Hands] /\ \A g \in Handlers : Hand(handler'[g])
    BY <1>16, HandGoes DEF AcceptApply
  <2>2. draft' = draft \/ \E d \in Defns : draft' = {d}
    BY <1>0, <1>16, <1>e DEF AcceptApply
  <2> QED  BY <1>16, <2>1, <2>2 DEF AcceptApply, StudioTypes, jobRowVars, askVars
<1>17. CASE AcceptMark(h)
  <2>1. suggested' \in Seq(Statuses)
    BY <1>17, SuggestedTypes DEF AcceptMark, Statuses
  <2> QED  BY <1>17, <2>1, HandAnswers DEF AcceptMark, defnVars, jobRowVars, askVars, StudioTypes
<1>18. CASE Dismiss(h)
  <2>1. suggested' \in Seq(Statuses) /\ asked' \in Nat
    BY <1>0, <1>18, SuggestedTypes DEF Dismiss, Asks, Statuses
  <2> QED  BY <1>18, <2>1 DEF Dismiss, defnVars, jobRowVars, StudioTypes
<1>19. CASE DeployLoad(h)
  <2> DEFINE b == [IdleHandler EXCEPT !.pc = "gate", !.defn = Last(versions)]
  <2>1. handler' = [handler EXCEPT ![h] = b] /\ asked' \in Nat
    BY <1>0, <1>19 DEF DeployLoad, Asks
  <2>2. b \in Hands /\ b.pc = "gate"
    BY <1>0, NoOnes DEF Hands
  <2> HIDE DEF b
  <2>3. Hand(b)
    BY <2>2 DEF Hand, Asked
  <2>4. handler' \in [Handlers -> Hands] /\ \A g \in Handlers : Hand(handler'[g])
    BY <2>1, <2>3, HandMoves
  <2> QED  BY <1>19, <2>1, <2>4 DEF DeployLoad, StudioTypes, defnVars, jobRowVars
<1>20. CASE DeployGate(h)
  BY <1>20, HandAnswers DEF DeployGate, defnVars, jobRowVars, askVars, StudioTypes
<1>21. CASE ReconcileFails(h)
  <2>1. Goes(h, Then(handler[h].op)) /\ handler[h].op \in JobKinds \cup {"list"}
    BY <1>0, <1>21 DEF ReconcileFails, Hand, Asked
  <2>2. handler' \in [Handlers -> Hands] /\ \A g \in Handlers : Hand(handler'[g])
    BY <2>1, HandGoes DEF Then, Asked
  <2> QED  BY <1>21, <2>2 DEF ReconcileFails, StudioTypes, defnVars, askVars
<1> QED  BY <1>1, <1>2, <1>3, <1>4, <1>5, <1>6, <1>7, <1>8, <1>9, <1>10, <1>11, <1>12, <1>13, <1>14,
             <1>15, <1>16, <1>17, <1>18, <1>19, <1>20, <1>21 DEF HandlerStep

LEMMA JobsType ==
  ASSUME StudioTypes, NEW j \in DOMAIN rows, JobThread(j)
  PROVE  StudioTypes'
<1>0. /\ Working \in Defns /\ j \in 1..MaxStudioJobs /\ task[j] \in Tasks
      /\ task[j].n \in Nat /\ task[j].sid \in Nat /\ task[j].base \in Defns
  <2>1. DOMAIN rows = 1..Len(rows) /\ Len(rows) \in Nat /\ Len(rows) <= MaxStudioJobs /\ Working \in Defns
    BY LenProperties, WorkingIs DEF StudioTypes
  <2>2. j \in 1..MaxStudioJobs
    BY <2>1, StudioNumbers
  <2>3. task[j] \in Tasks
    BY <2>2 DEF StudioTypes
  <2> QED  BY <2>1, <2>2, <2>3 DEF Tasks
<1>1. CASE Finish(j) \/ Fail(j)
  <2>1. PICK outcome \in {"done", "failed"} : Ends(j, outcome) /\ UNCHANGED suggested
    BY <1>1 DEF Finish, Fail
  <2>2. rows' \in Seq(JobRows) /\ Len(rows') = Len(rows)
    BY <2>1, RowStatus DEF Ends
  <2>3. task' \in [1..MaxStudioJobs -> Tasks]
    BY <1>0, <2>1, TaskSteps DEF Ends
  <2> QED  BY <2>1, <2>2, <2>3 DEF Ends, StudioTypes, defnVars, askVars
<1>2. CASE Release(j)
  <2>1. task' \in [1..MaxStudioJobs -> Tasks] /\ claimed' \subseteq Nat
    BY <1>0, <1>2, NoOnes, TaskMoves DEF Release, StudioTypes
  <2> QED  BY <1>2, <2>1 DEF Release, StudioTypes, defnVars, askVars
<1>3. CASE LoopRead(j)
  <2>1. task' \in [1..MaxStudioJobs -> Tasks]
    <3>1. CASE Step(j, "finish")
      BY <1>0, <3>1, TaskSteps
    <3>2. CASE task' = [task EXCEPT ![j] = [pc |-> "suggest", base |-> Working, sid |-> 0, n |-> @.n + 1]]
      <4>1. [pc |-> "suggest", base |-> Working, sid |-> 0, n |-> task[j].n + 1] \in Tasks
        BY <1>0 DEF Tasks
      <4> QED  BY <1>0, <3>2, <4>1, TaskMoves
    <3> QED  BY <1>3, <3>1, <3>2 DEF LoopRead
  <2> QED  BY <1>3, <2>1 DEF LoopRead, StudioTypes, defnVars, askVars
<1>4. CASE LoopSuggests(j)
  <2>1. PICK outcome \in Statuses : Suggestion(outcome)
    BY <1>4 DEF LoopSuggests, Statuses
  <2>2. suggested' \in Seq(Statuses) /\ Len(suggested') \in Nat
    BY <2>1, SuggestedTypes
  <2>3. task' \in [1..MaxStudioJobs -> Tasks]
    <3>1. CASE Step(j, "work") \/ Step(j, "finish")
      BY <1>0, <3>1, TaskSteps
    <3>2. ASSUME NEW pc \in {"apply", "worse"}, task' = [task EXCEPT ![j].pc = pc, ![j].sid = Len(suggested')]
          PROVE  task' \in [1..MaxStudioJobs -> Tasks]
      <4>1. [task[j] EXCEPT !.pc = pc, !.sid = Len(suggested')] \in Tasks
        BY <1>0, <2>2 DEF Tasks
      <4>2. task' = [task EXCEPT ![j] = [task[j] EXCEPT !.pc = pc, !.sid = Len(suggested')]]
        BY <3>2
      <4> QED  BY <1>0, <4>1, <4>2, TaskMoves
    <3> QED  BY <1>4, <3>1, <3>2 DEF LoopSuggests
  <2> QED  BY <1>4, <2>2, <2>3 DEF LoopSuggests, StudioTypes, defnVars, askVars
<1>5. CASE LoopApplies(j)
  <2>1. task' \in [1..MaxStudioJobs -> Tasks]
    BY <1>0, <1>5, TaskSteps DEF LoopApplies
  <2>2. task[j].base \cup {<<"suggestion", task[j].sid>>} \in Defns
    BY <1>0 DEF Defns, EditKinds
  <2>3. draft' = draft \/ \E d \in Defns : draft' = {d}
    BY <1>5, <2>2 DEF LoopApplies
  <2> QED  BY <1>5, <2>1, <2>3 DEF LoopApplies, StudioTypes, askVars
<1>6. CASE LoopMarks(j)
  <2>1. task' \in [1..MaxStudioJobs -> Tasks]
    BY <1>0, <1>6, TaskSteps DEF LoopMarks
  <2>2. suggested' \in Seq(Statuses)
    BY <1>6, SuggestedTypes DEF LoopMarks, Statuses
  <2> QED  BY <1>6, <2>1, <2>2 DEF LoopMarks, StudioTypes, defnVars, askVars
<1>7. CASE FailUnwritten(j)
  <2>1. task' \in [1..MaxStudioJobs -> Tasks]
    BY <1>0, <1>7, TaskSteps DEF FailUnwritten
  <2> QED  BY <1>7, <2>1 DEF FailUnwritten, StudioTypes, defnVars, askVars
<1> QED  BY <1>1, <1>2, <1>3, <1>4, <1>5, <1>6, <1>7 DEF JobThread

LEMMA DeathTypes == StudioTypes /\ StudioDies => StudioTypes'
<1> SUFFICES ASSUME StudioTypes, StudioDies PROVE StudioTypes'
  OBVIOUS
<1>1. task' \in [1..MaxStudioJobs -> Tasks]
  BY NoOnes DEF StudioDies, StudioTypes
<1>2. handler' \in [Handlers -> Hands] /\ \A h \in Handlers : Hand(handler'[h])
  BY NoOnes DEF StudioDies
<1> QED  BY <1>1, <1>2 DEF StudioDies, StudioTypes, defnVars

LEMMA TypesInvariant == StudioSpec => []StudioTypes
<1>1. StudioTypes /\ [StudioNext]_studioVars => StudioTypes'
  <2>1. CASE UNCHANGED studioVars
    BY <2>1 DEF studioVars, StudioTypes
  <2> QED  BY <2>1, HandlersType, JobsType, DeathTypes DEF StudioNext
<1> QED  BY <1>1, TypesInit, PTL DEF StudioSpec

-----------------------------------------------------------------------------
(* No edit is lost to another writer of the draft, for any number of tabs,   *)
(* jobs and suggestions: each reads the working copy in the critical section *)
(* it writes it in (strategy_studio/store.py), and the AI loop looks again.  *)
THEOREM EditsAlwaysSurvive == StudioSpec => EditsSurvive
<1>1. StudioTypes /\ [StudioNext]_studioVars =>
        [Working \subseteq Working' \/ \E h \in Handlers : DeleteRule(h) \/ Discard(h)]_studioVars
  <2> SUFFICES ASSUME StudioTypes, [StudioNext]_studioVars
               PROVE  [Working \subseteq Working' \/ \E h \in Handlers : DeleteRule(h) \/ Discard(h)]_studioVars
    OBVIOUS
  <2>1. CASE UNCHANGED <<versions, draft>>
    BY <2>1 DEF Working
  <2>2. ASSUME NEW h \in Handlers, HandlerStep(h), ~UNCHANGED <<versions, draft>>
        PROVE  Working \subseteq Working' \/ DeleteRule(h) \/ Discard(h)
    <3>1. CASE Edit(h) \/ ApplyOptimum(h) \/ AcceptApply(h)
      <4>1. PICK e : draft' = {Working \cup {e}}
        BY <2>2, <3>1 DEF Edit, ApplyOptimum, AcceptApply
      <4> QED  BY <4>1, Drafted
    <3>2. CASE SaveVersion(h)
      <4>1. draft # {} /\ draft' = {} /\ versions' = Append(versions, UNION draft)
            /\ UNION draft = Working /\ Working \in Defns
        BY <3>2, WorkingIs DEF SaveVersion
      <4> QED  BY <4>1, SavedVersion
    <3>3. CASE DeleteRule(h) \/ Discard(h)
      BY <3>3
    <3> QED  BY <2>2, <3>1, <3>2, <3>3
             DEF HandlerStep, Request, Flag, SnapClaims, FindOrphans, InterruptJob, CheckInFlight,
                 CreateRow, ClaimJob, ListDone, Suggest, AcceptRead, AcceptMark, Dismiss,
                 DeployLoad, DeployGate, ReconcileFails, defnVars
  <2>3. ASSUME NEW j \in DOMAIN rows, JobThread(j), ~UNCHANGED <<versions, draft>>
        PROVE  Working \subseteq Working'
    <3>1. CASE LoopApplies(j)
      <4>1. PICK e : draft' = {task[j].base \cup {e}} /\ Working = task[j].base
        BY <2>3, <3>1 DEF LoopApplies, Stale
      <4> QED  BY <4>1, Drafted
    <3> QED  BY <2>3, <3>1
             DEF JobThread, Finish, Fail, FailUnwritten, Ends, Release, LoopRead, LoopSuggests, LoopMarks, defnVars
  <2> QED  BY <2>1, <2>2, <2>3 DEF StudioNext, StudioDies, studioVars, defnVars
<1> QED  BY <1>1, TypesInvariant, PTL DEF StudioSpec, EditsSurvive

-----------------------------------------------------------------------------
(* Rows, threads and claims.  A row is done only once its thread is over,   *)
(* and a request that has made its row is the only one to start its thread. *)
Fitting(r, k, late) ==
  /\ r.status = "done" => k.pc \in {"off", "release"}
  /\ k.pc = "release" => r.status # "running" \/ late
Claims(a, j) == a.pc = "claim" /\ a.id = j

Threads ==
  /\ claimed \subseteq DOMAIN rows
  /\ \A j \in 1..MaxStudioJobs : task[j].pc # "off" <=> j \in claimed
  /\ \A j \in DOMAIN rows : Fitting(rows[j], task[j], j \in unended)
  /\ \A h \in Handlers : handler[h].pc = "claim" =>
       /\ handler[h].id \in DOMAIN rows /\ handler[h].id \notin claimed
       /\ rows[handler[h].id].status # "done"
  /\ \A h, g \in Handlers : \A j : Claims(handler[h], j) /\ Claims(handler[g], j) => h = g

(* A request on its way to the rows an earlier process left will come by j. *)
Finds(a, j) ==
  \/ a.pc = "snap"
  \/ a.pc = "live" /\ j \notin a.act
  \/ a.pc = "interrupt" /\ j \in a.act
Owned(j) == j \in claimed \cup unended \/ \E h \in Handlers : Claims(handler[h], j) \/ Finds(handler[h], j)
Orphaned == reconciled => \A j \in DOMAIN rows : Running(j) => Owned(j)

JobInv == StudioTypes /\ Threads /\ Orphaned /\ DeployedWasMeasured

-----------------------------------------------------------------------------
LEMMA RowDomain ==
  ASSUME StudioTypes
  PROVE  /\ DOMAIN rows = 1..Len(rows) /\ Len(rows) \in Nat /\ DOMAIN rows \subseteq 1..MaxStudioJobs
         /\ \A j \in DOMAIN rows : rows[j] \in JobRows
<1>1. DOMAIN rows = 1..Len(rows) /\ Len(rows) \in Nat /\ Len(rows) <= MaxStudioJobs
  BY LenProperties DEF StudioTypes
<1> QED  BY <1>1, ElementOfSeq, StudioNumbers DEF StudioTypes

LEMMA JobInvInit == StudioInit => JobInv
<1> SUFFICES ASSUME StudioInit PROVE JobInv
  OBVIOUS
<1>1. StudioTypes /\ DOMAIN rows = {}
  BY TypesInit DEF StudioInit
<1>2. /\ \A h \in Handlers : handler[h].pc = "idle"
      /\ \A j \in 1..MaxStudioJobs : task[j].pc = "off"
  BY NoOnes DEF StudioInit
<1> QED  BY <1>1, <1>2 DEF StudioInit, JobInv, Threads, Orphaned, DeployedWasMeasured, Claims

(* Rows that are done stay done, of the same definition.                     *)
LEMMA MeasuredStays ==
  ASSUME DeployedWasMeasured, UNCHANGED deployed, DOMAIN rows \subseteq DOMAIN rows',
         \A j \in DOMAIN rows :
           /\ rows'[j].kind = rows[j].kind /\ rows'[j].defn = rows[j].defn
           /\ rows[j].status = "done" => rows'[j].status = "done"
  PROVE  DeployedWasMeasured'
<1> SUFFICES ASSUME NEW defn \in deployed
             PROVE  \E j \in RowIds("run")' : rows'[j].status = "done" /\ rows'[j].defn = defn
  BY DEF DeployedWasMeasured
<1>1. PICK j \in RowIds("run") : rows[j].status = "done" /\ rows[j].defn = defn
  BY DEF DeployedWasMeasured
<1>2. j \in RowIds("run")'
  BY <1>1 DEF RowIds
<1> QED  BY <1>1, <1>2 DEF RowIds

(* One handler moves, and no row, thread or claim.                           *)
LEMMA HandKeeps ==
  ASSUME JobInv, StudioTypes', NEW h \in Handlers, NEW b, b.pc # "claim",
         handler' = [handler EXCEPT ![h] = b],
         UNCHANGED <<rows, task, claimed>>, DeployedWasMeasured', unended \subseteq unended',
         reconciled' => \A j \in DOMAIN rows : Running(j) =>
           \/ j \in claimed \cup unended' \/ Finds(b, j)
           \/ reconciled /\ ~Claims(handler[h], j) /\ ~Finds(handler[h], j)
  PROVE  JobInv'
<1>1. handler'[h] = b /\ \A g \in Handlers \ {h} : handler'[g] = handler[g]
  BY DEF JobInv, StudioTypes
<1>2. Threads'
  BY <1>1 DEF JobInv, Threads, Fitting, Claims
<1>3. Orphaned'
  <2> SUFFICES ASSUME reconciled', NEW j \in DOMAIN rows, Running(j) PROVE Owned(j)'
    BY DEF Orphaned, Running
  <2>1. CASE j \in claimed \cup unended'
    BY <2>1 DEF Owned
  <2>2. CASE Finds(b, j)
    BY <1>1, <2>2 DEF Owned, Finds
  <2>3. CASE reconciled /\ ~Claims(handler[h], j) /\ ~Finds(handler[h], j)
    <3>1. Owned(j)
      BY <2>3 DEF JobInv, Orphaned
    <3> QED  BY <1>1, <2>3, <3>1 DEF Owned, Claims, Finds
  <2> QED  BY <2>1, <2>2, <2>3
<1> QED  BY <1>2, <1>3 DEF JobInv

(* What is none of the jobs' business.                                       *)
LEMMA ElseKeeps ==
  ASSUME JobInv, StudioTypes', UNCHANGED <<rows, task, claimed, unended, reconciled, handler, deployed>>
  PROVE  JobInv'
<1>1. DeployedWasMeasured'
  BY MeasuredStays DEF JobInv
<1> QED  BY <1>1 DEF JobInv, Threads, Orphaned, Owned, Running

(* A handler that is not about to answer for an orphan goes elsewhere.       *)
LEMMA QuietKeeps ==
  ASSUME JobInv, StudioTypes', NEW h \in Handlers, NEW b,
         b.pc # "claim", handler[h].pc \notin {"claim", "snap", "live", "interrupt"},
         handler' = [handler EXCEPT ![h] = b],
         UNCHANGED <<rows, task, claimed, unended, reconciled>>, DeployedWasMeasured'
  PROVE  JobInv'
BY HandKeeps DEF Claims, Finds

LEMMA HandlersJobs ==
  ASSUME JobInv, NEW h \in Handlers, HandlerStep(h)
  PROVE  JobInv'
<1>0. StudioTypes /\ StudioTypes' /\ handler[h] \in Hands
  BY HandlersType DEF JobInv, StudioTypes
<1>d. UNCHANGED <<rows, deployed>> => DeployedWasMeasured'
  BY MeasuredStays DEF JobInv
<1>1. CASE Edit(h) \/ DeleteRule(h) \/ Discard(h) \/ SaveVersion(h) \/ ApplyOptimum(h) \/ Suggest(h) \/ Dismiss(h)
  <2>1. UNCHANGED <<rows, task, claimed, unended, reconciled, handler, deployed>>
    BY <1>1 DEF Edit, DeleteRule, Discard, SaveVersion, ApplyOptimum, Suggest, Dismiss, jobRowVars, endVars
  <2> QED  BY <1>0, <2>1, ElseKeeps
<1>2. ASSUME NEW op \in JobKinds \cup {"list"}, Request(h, op)  PROVE JobInv'
  <2> DEFINE b == [IdleHandler EXCEPT !.pc = "flag", !.op = op, !.defn = Working]
  <2>1. b.pc = "flag" /\ handler' = [handler EXCEPT ![h] = b] /\ handler[h].pc = "idle"
        /\ UNCHANGED <<rows, task, claimed, unended, reconciled, deployed>>
    BY <1>2 DEF Request, Asks, jobRowVars, endVars, IdleHandler
  <2> HIDE DEF b
  <2> QED  BY <1>0, <1>d, <2>1, QuietKeeps
<1>3. CASE AcceptRead(h) \/ DeployLoad(h)
  <2>1. ASSUME AcceptRead(h)
        PROVE  \E b : b.pc = "accept" /\ handler' = [handler EXCEPT ![h] = b]
    <3>1. PICK s : handler' = [handler EXCEPT ![h] = [IdleHandler EXCEPT !.pc = "accept", !.id = s]]
      BY <2>1 DEF AcceptRead
    <3>2. [IdleHandler EXCEPT !.pc = "accept", !.id = s].pc = "accept"
      BY DEF IdleHandler
    <3> QED  BY <3>1, <3>2
  <2>2. ASSUME DeployLoad(h)
        PROVE  \E b : b.pc = "gate" /\ handler' = [handler EXCEPT ![h] = b]
    <3>1. [IdleHandler EXCEPT !.pc = "gate", !.defn = Last(versions)].pc = "gate"
      BY DEF IdleHandler
    <3> QED  BY <2>2, <3>1 DEF DeployLoad
  <2>3. PICK b : b.pc # "claim" /\ handler' = [handler EXCEPT ![h] = b]
    BY <1>3, <2>1, <2>2
  <2>4. handler[h].pc = "idle" /\ UNCHANGED <<rows, task, claimed, unended, reconciled, deployed>>
    BY <1>3 DEF AcceptRead, DeployLoad, Asks, jobRowVars, endVars
  <2> QED  BY <1>0, <1>d, <2>3, <2>4, QuietKeeps
<1>4. CASE CheckInFlight(h) \/ ListDone(h) \/ AcceptApply(h) \/ AcceptMark(h)
  <2>1. \/ Answers(h)
        \/ \E pc \in {"create", "accepted", "failed"} : Goes(h, pc)
    BY <1>4 DEF CheckInFlight, ListDone, AcceptApply, AcceptMark
  <2>2. PICK b : b.pc # "claim" /\ handler' = [handler EXCEPT ![h] = b]
    <3>1. CASE Answers(h)
      BY <3>1, NoOnes DEF Answers
    <3>2. ASSUME NEW pc \in {"create", "accepted", "failed"}, Goes(h, pc)
          PROVE  [handler[h] EXCEPT !.pc = pc].pc # "claim" /\ handler' = [handler EXCEPT ![h] = [handler[h] EXCEPT !.pc = pc]]
      BY <1>0, <3>2 DEF Goes, Hands
    <3> QED  BY <2>1, <3>1, <3>2
  <2>3. handler[h].pc \in {"check", "answer", "accept", "accepted", "failed"}
        /\ UNCHANGED <<rows, task, claimed, unended, reconciled, deployed>>
    BY <1>4 DEF CheckInFlight, ListDone, AcceptApply, AcceptMark, jobRowVars, endVars
  <2> QED  BY <1>0, <1>d, <2>2, <2>3, QuietKeeps
<1>5. CASE DeployGate(h)
  <2>1. /\ handler' = [handler EXCEPT ![h] = IdleHandler] /\ handler[h].pc = "gate"
        /\ UNCHANGED <<rows, task, claimed, unended, reconciled>>
        /\ \/ deployed' = deployed
           \/ Baseline(handler[h].defn) # {} /\ deployed' = deployed \cup {handler[h].defn}
    BY <1>5 DEF DeployGate, Answers, jobRowVars, endVars
  <2>2. DeployedWasMeasured'
    BY <2>1 DEF JobInv, DeployedWasMeasured, Baseline, RowIds
  <2> QED  BY <1>0, <2>1, <2>2, NoOnes, QuietKeeps
<1>6. CASE Flag(h)
  <2> DEFINE pc == IF reconciled THEN Then(handler[h].op) ELSE "snap"
             b == [handler[h] EXCEPT !.pc = pc]
  <2>1. handler' = [handler EXCEPT ![h] = b] /\ b.pc = pc /\ pc # "claim" /\ handler[h].pc = "flag"
        /\ UNCHANGED <<rows, task, claimed, unended, deployed>>
    BY <1>0, <1>6 DEF Flag, Goes, endVars, Then, Hands
  <2>2. ~reconciled => pc = "snap"
    OBVIOUS
  <2> HIDE DEF b, pc
  <2> QED  BY <1>0, <1>d, <2>1, <2>2, HandKeeps DEF Claims, Finds
<1>7. CASE SnapClaims(h)
  <2> DEFINE b == [handler[h] EXCEPT !.pc = "live", !.act = claimed]
  <2>1. handler' = [handler EXCEPT ![h] = b] /\ b.pc = "live" /\ b.act = claimed /\ handler[h].pc = "snap"
        /\ UNCHANGED <<rows, task, claimed, unended, reconciled, deployed>>
    BY <1>0, <1>7 DEF SnapClaims, Hands, jobRowVars, endVars
  <2> HIDE DEF b
  <2> QED  BY <1>0, <1>d, <2>1, HandKeeps DEF Finds
<1>8. CASE FindOrphans(h)
  <2> DEFINE b == [handler[h] EXCEPT !.pc = "interrupt", !.act = Orphans(handler[h].act)]
  <2>1. handler' = [handler EXCEPT ![h] = b] /\ b.pc = "interrupt" /\ b.act = Orphans(handler[h].act)
        /\ handler[h].pc = "live" /\ UNCHANGED <<rows, task, claimed, unended, reconciled, deployed>>
    BY <1>0, <1>8 DEF FindOrphans, Hands, jobRowVars, endVars
  <2> HIDE DEF b
  <2>2. \A j \in DOMAIN rows : Running(j) /\ Finds(handler[h], j) => Finds(b, j)
    BY <2>1 DEF Finds, Orphans
  <2>3. \A j : ~Claims(handler[h], j)
    BY <2>1 DEF Claims
  <2> QED  BY <1>0, <1>d, <2>1, <2>2, <2>3, HandKeeps
<1>9. CASE InterruptJob(h)
  <2>1. handler[h].pc = "interrupt" /\ UNCHANGED <<task, claimed, unended, reconciled, deployed>>
    BY <1>9 DEF InterruptJob, endVars
  <2>2. CASE handler[h].act = {}
    <3> DEFINE b == [handler[h] EXCEPT !.pc = Then(handler[h].op)]
    <3>1. handler' = [handler EXCEPT ![h] = b] /\ b.pc \in {"answer", "check"} /\ UNCHANGED rows
      BY <1>0, <1>9, <2>2 DEF InterruptJob, Goes, endVars, Then, Hands
    <3> HIDE DEF b
    <3> QED  BY <1>0, <1>d, <2>1, <2>2, <3>1, HandKeeps DEF Finds, Claims
  <2>3. CASE handler[h].act # {}
    <3> DEFINE j == Newest(handler[h].act)
               b == [handler[h] EXCEPT !.act = handler[h].act \ {j}]
               s == IF Running(j) THEN "interrupted" ELSE rows[j].status
    <3>1. rows' = [rows EXCEPT ![j].status = s] /\ handler' = [handler EXCEPT ![h] = b]
      BY <1>9, <2>3 DEF InterruptJob, endVars
    <3>2. j \in DOMAIN rows => s \in {"running", "done", "failed", "interrupted"}
      <4>1. j \in DOMAIN rows => rows[j] \in JobRows
        BY <1>0, RowDomain
      <4> QED  BY <4>1 DEF JobRows
    <3>3. b.pc = "interrupt" /\ b.act = handler[h].act \ {j}
      BY <1>0, <2>1 DEF Hands
    <3>4. s # "running" /\ (s = rows[j].status \/ (rows[j].status = "running" /\ s = "interrupted"))
      BY DEF Running
    <3> HIDE DEF j, b, s
    <3>5. /\ DOMAIN rows' = DOMAIN rows
          /\ \A i \in DOMAIN rows :
               /\ rows'[i].kind = rows[i].kind /\ rows'[i].defn = rows[i].defn
               /\ rows'[i].status = IF i = j THEN s ELSE rows[i].status
      BY <1>0, <3>1, <3>2, RowStatus
    <3>6. handler'[h] = b /\ \A g \in Handlers \ {h} : handler'[g] = handler[g]
      BY <1>0, <3>1 DEF StudioTypes
    <3>7. DeployedWasMeasured'
      BY <2>1, <3>4, <3>5, MeasuredStays DEF JobInv
    <3>8. Threads'
      <4>1. \A i \in DOMAIN rows : Fitting(rows'[i], task'[i], i \in unended')
        BY <2>1, <3>4, <3>5 DEF JobInv, Threads, Fitting
      <4>2. \A g \in Handlers : handler'[g].pc = "claim" => handler[g].pc = "claim" /\ handler'[g] = handler[g]
        BY <2>1, <3>3, <3>6
      <4>3. \A i \in DOMAIN rows : rows'[i].status = "done" => rows[i].status = "done"
        BY <3>4, <3>5
      <4> QED  BY <2>1, <3>5, <4>1, <4>2, <4>3 DEF JobInv, Threads, Claims
    <3>9. Orphaned'
      <4> SUFFICES ASSUME reconciled, NEW i \in DOMAIN rows, rows'[i].status = "running" PROVE Owned(i)'
        BY <2>1, <3>5 DEF Orphaned, Running
      <4>1. i # j /\ Running(i) /\ Owned(i)
        BY <3>4, <3>5 DEF JobInv, Orphaned, Running
      <4>2. ~Claims(handler[h], i) /\ (Finds(handler[h], i) => Finds(b, i))
        BY <2>1, <3>3, <4>1 DEF Claims, Finds
      <4> QED  BY <2>1, <3>6, <4>1, <4>2 DEF Owned, Claims, Finds
    <3> QED  BY <1>0, <3>7, <3>8, <3>9 DEF JobInv
  <2> QED  BY <2>2, <2>3
<1>10. CASE CreateRow(h)
  <2> DEFINE new == Len(rows) + 1
             r == [kind |-> handler[h].op, status |-> "running", defn |-> handler[h].defn]
             b == [handler[h] EXCEPT !.pc = "claim", !.id = new]
  <2>1. /\ handler[h].pc = "create" /\ rows' = Append(rows, r) /\ Len(rows') = new
        /\ UNCHANGED <<task, claimed, unended, reconciled, deployed>>
    <3>1. Len(rows') = Len(rows) + 1
      BY <1>0, <1>10 DEF CreateRow, StudioTypes
    <3> QED  BY <1>10, <3>1 DEF CreateRow, endVars
  <2>2. handler' = [handler EXCEPT ![h] = b] /\ b.pc = "claim" /\ b.id = new
    BY <1>0, <1>10, <2>1 DEF CreateRow, Hands
  <2>3. /\ DOMAIN rows' = DOMAIN rows \cup {new} /\ new \notin DOMAIN rows
        /\ rows'[new] = r /\ r.status = "running" /\ \A i \in DOMAIN rows : rows'[i] = rows[i]
        /\ new \in 1..MaxStudioJobs
    <3>1. rows \in Seq(JobRows) /\ r \in JobRows
      BY <1>0, <1>10 DEF StudioTypes, Hand, Hands, JobRows, CreateRow
    <3>2. new \in 1..MaxStudioJobs
      BY <1>0, <1>10, RowDomain, StudioNumbers DEF CreateRow, endVars
    <3>3. r.status = "running"
      OBVIOUS
    <3> HIDE DEF r
    <3> QED  BY <1>0, <2>1, <3>1, <3>2, <3>3, RowDomain, AppendProperties
  <2> HIDE DEF new, r, b
  <2>4. handler'[h] = b /\ \A g \in Handlers \ {h} : handler'[g] = handler[g]
    BY <1>0, <2>2 DEF StudioTypes
  <2>5. DeployedWasMeasured'
    BY <2>1, <2>3, MeasuredStays DEF JobInv
  <2>6. new \notin claimed /\ task[new].pc = "off"
    BY <2>3 DEF JobInv, Threads
  <2>7. Threads'
    <3>1. \A i \in DOMAIN rows' : Fitting(rows'[i], task'[i], i \in unended')
      BY <2>1, <2>3, <2>6 DEF JobInv, Threads, Fitting
    <3>2. \A g \in Handlers : handler'[g].pc = "claim" =>
            /\ handler'[g].id \in DOMAIN rows' /\ handler'[g].id \notin claimed
            /\ rows'[handler'[g].id].status # "done"
      BY <2>2, <2>3, <2>4, <2>6 DEF JobInv, Threads
    <3>3. \A g \in Handlers \ {h} : \A j : Claims(handler'[g], j) => Claims(handler[g], j) /\ j # new
      BY <2>3, <2>4 DEF JobInv, Threads, Claims
    <3>4. \A j : Claims(handler'[h], j) => j = new
      BY <2>2, <2>4 DEF Claims
    <3>5. \A f, g \in Handlers : \A j : Claims(handler'[f], j) /\ Claims(handler'[g], j) => f = g
      BY <3>3, <3>4 DEF JobInv, Threads
    <3> QED  BY <2>1, <2>3, <3>1, <3>2, <3>5 DEF JobInv, Threads
  <2>8. Orphaned'
    <3> SUFFICES ASSUME reconciled, NEW i \in DOMAIN rows', rows'[i].status = "running" PROVE Owned(i)'
      BY <2>1 DEF Orphaned, Running
    <3>1. CASE i = new
      BY <2>2, <2>4, <3>1 DEF Owned, Claims
    <3>2. CASE i # new
      <4>1. Owned(i) /\ ~Claims(handler[h], i) /\ ~Finds(handler[h], i)
        BY <2>1, <2>3, <3>2 DEF JobInv, Orphaned, Running, Claims, Finds
      <4> QED  BY <2>1, <2>4, <4>1 DEF Owned, Claims, Finds
    <3> QED  BY <3>1, <3>2
  <2> QED  BY <1>0, <2>5, <2>7, <2>8 DEF JobInv
<1>11. CASE ClaimJob(h)
  <2> DEFINE k == handler[h].id
  <2>1. /\ handler[h].pc = "claim" /\ claimed' = claimed \cup {k}
        /\ handler' = [handler EXCEPT ![h] = IdleHandler]
        /\ UNCHANGED <<rows, unended, reconciled, deployed>>
    BY <1>11 DEF ClaimJob, Answers, endVars
  <2>2. k \in DOMAIN rows /\ k \notin claimed /\ rows[k].status # "done" /\ k \in 1..MaxStudioJobs
    BY <1>0, <2>1, RowDomain DEF JobInv, Threads
  <2>3. task'[k].pc = "work" /\ \A i \in (1..MaxStudioJobs) \ {k} : task'[i] = task[i]
    BY <1>0, <1>11, <2>2 DEF ClaimJob, NoTask, StudioTypes
  <2>4. handler'[h] = IdleHandler /\ \A g \in Handlers \ {h} : handler'[g] = handler[g]
    BY <1>0, <2>1 DEF StudioTypes
  <2> HIDE DEF k
  <2>5. Claims(handler[h], k) /\ IdleHandler.pc = "idle"
    BY <2>1, NoOnes DEF Claims, k
  <2>6. Threads'
    <3>1. \A i \in DOMAIN rows : Fitting(rows[i], task'[i], i \in unended')
      <4>1. \A i \in DOMAIN rows : i # k => task'[i] = task[i]
        BY <1>0, <2>3, RowDomain
      <4> QED  BY <2>1, <2>2, <2>3, <4>1 DEF JobInv, Threads, Fitting
    <3>2. \A i \in 1..MaxStudioJobs : task'[i].pc # "off" <=> i \in claimed'
      BY <2>1, <2>3 DEF JobInv, Threads
    <3>3. \A g \in Handlers : handler'[g].pc = "claim" => g # h /\ handler'[g] = handler[g] /\ handler[g].id # k
      <4>1. \A g \in Handlers : handler[g].pc = "claim" => Claims(handler[g], handler[g].id)
        BY DEF Claims
      <4> QED  BY <2>4, <2>5, <4>1 DEF JobInv, Threads
    <3>4. \A f, g \in Handlers : \A j : Claims(handler'[f], j) /\ Claims(handler'[g], j) => f = g
      BY <3>3 DEF JobInv, Threads, Claims
    <3>5. claimed' \subseteq DOMAIN rows
      BY <2>1, <2>2 DEF JobInv, Threads
    <3>6. \A g \in Handlers : handler'[g].pc = "claim" =>
            /\ handler'[g].id \in DOMAIN rows /\ handler'[g].id \notin claimed'
            /\ rows[handler'[g].id].status # "done"
      BY <2>1, <3>3 DEF JobInv, Threads
    <3> QED  BY <2>1, <3>1, <3>2, <3>4, <3>5, <3>6 DEF Threads
  <2>7. Orphaned'
    <3> SUFFICES ASSUME reconciled, NEW i \in DOMAIN rows, Running(i) PROVE Owned(i)'
      BY <2>1 DEF Orphaned, Running
    <3>1. Owned(i)
      BY DEF JobInv, Orphaned
    <3>2. Claims(handler[h], i) => i = k
      BY DEF Claims, k
    <3>3. ~Finds(handler[h], i)
      BY <2>1 DEF Finds
    <3> QED  BY <2>1, <2>4, <3>1, <3>2, <3>3 DEF Owned
  <2> QED  BY <1>0, <1>d, <2>1, <2>6, <2>7 DEF JobInv
<1>12. CASE ReconcileFails(h)
  <2> DEFINE b == [handler[h] EXCEPT !.pc = Then(handler[h].op)]
  <2>1. handler' = [handler EXCEPT ![h] = b] /\ b.pc \in {"answer", "check"}
        /\ UNCHANGED <<rows, task, claimed, reconciled, deployed>>
    BY <1>0, <1>12 DEF ReconcileFails, Goes, Then, Hands
  <2> HIDE DEF b
  <2>2. /\ unended \subseteq unended' /\ handler[h].pc \in {"live", "interrupt"}
        /\ \A j \in DOMAIN rows : Running(j) /\ Finds(handler[h], j) => j \in unended'
    BY <1>12 DEF ReconcileFails, Finds, Orphans
  <2>3. \A j : ~Claims(handler[h], j)
    BY <2>2 DEF Claims
  <2> QED  BY <1>0, <1>d, <2>1, <2>2, <2>3, HandKeeps
<1> QED
  BY <1>1, <1>2, <1>3, <1>4, <1>5, <1>6, <1>7, <1>8, <1>9, <1>10, <1>11, <1>12 DEF HandlerStep

(* The thread of a claimed job goes on.                                      *)
LEMMA LoopsJobs ==
  ASSUME JobInv, NEW j \in DOMAIN rows,
         LoopRead(j) \/ LoopSuggests(j) \/ LoopApplies(j) \/ LoopMarks(j)
  PROVE  Threads' /\ UNCHANGED <<rows, claimed, unended, reconciled, handler, deployed>>
<1>0. j \in 1..MaxStudioJobs /\ task \in [1..MaxStudioJobs -> Tasks]
  BY RowDomain DEF JobInv, StudioTypes
<1>1. /\ task[j].pc \notin {"off", "release"}
      /\ UNCHANGED <<rows, claimed, unended, reconciled, handler, deployed>>
  BY DEF LoopRead, LoopSuggests, LoopApplies, LoopMarks, endVars
<1>2. PICK b : b.pc \notin {"off", "release"} /\ task' = [task EXCEPT ![j] = b]
  <2>1. ASSUME NEW pc, pc \notin {"off", "release"}, Step(j, pc)
        PROVE  [task[j] EXCEPT !.pc = pc].pc \notin {"off", "release"}
               /\ task' = [task EXCEPT ![j] = [task[j] EXCEPT !.pc = pc]]
    BY <1>0, <2>1 DEF Step, Tasks
  <2>2. ASSUME NEW pc, pc \notin {"off", "release"}, NEW sid, task' = [task EXCEPT ![j].pc = pc, ![j].sid = sid]
        PROVE  [task[j] EXCEPT !.pc = pc, !.sid = sid].pc \notin {"off", "release"}
               /\ task' = [task EXCEPT ![j] = [task[j] EXCEPT !.pc = pc, !.sid = sid]]
    BY <1>0, <2>2 DEF Tasks
  <2>3. ASSUME NEW w, NEW n, task' = [task EXCEPT ![j] = [pc |-> "suggest", base |-> w, sid |-> 0, n |-> n]]
        PROVE  \E b : b.pc \notin {"off", "release"} /\ task' = [task EXCEPT ![j] = b]
    <3>1. [pc |-> "suggest", base |-> w, sid |-> 0, n |-> n].pc = "suggest"
      OBVIOUS
    <3> QED  BY <2>3, <3>1
  <2>4. CASE LoopRead(j)
    <3>1. CASE Step(j, "finish")
      BY <2>1, <3>1
    <3>2. CASE task' = [task EXCEPT ![j] = [pc |-> "suggest", base |-> Working, sid |-> 0, n |-> @.n + 1]]
      BY <2>3, <3>2
    <3> QED  BY <2>4, <3>1, <3>2 DEF LoopRead
  <2>5. CASE LoopSuggests(j) \/ LoopApplies(j) \/ LoopMarks(j)
    <3>1. \/ \E pc \in {"work", "finish", "stale", "mark"} : Step(j, pc)
          \/ \E pc \in {"apply", "worse"} : task' = [task EXCEPT ![j].pc = pc, ![j].sid = Len(suggested')]
      BY <2>5 DEF LoopSuggests, LoopApplies, LoopMarks
    <3> QED  BY <2>1, <2>2, <3>1
  <2> QED  BY <2>4, <2>5
<1>3. task'[j] = b /\ \A i \in (1..MaxStudioJobs) \ {j} : task'[i] = task[i]
  BY <1>0, <1>2
<1>4. \A i \in DOMAIN rows : Fitting(rows[i], task'[i], i \in unended')
  <2>1. DOMAIN rows \subseteq 1..MaxStudioJobs
    BY RowDomain DEF JobInv
  <2>2. rows[j].status # "done"
    BY <1>1 DEF JobInv, Threads, Fitting
  <2> QED  BY <1>1, <1>2, <1>3, <2>1, <2>2 DEF JobInv, Threads, Fitting
<1>5. \A i \in 1..MaxStudioJobs : task'[i].pc # "off" <=> i \in claimed
  BY <1>0, <1>1, <1>2, <1>3 DEF JobInv, Threads
<1> QED  BY <1>1, <1>4, <1>5 DEF JobInv, Threads

LEMMA ThreadsJobs ==
  ASSUME JobInv, NEW j \in DOMAIN rows, JobThread(j)
  PROVE  JobInv'
<1>0. /\ StudioTypes' /\ StudioTypes /\ j \in 1..MaxStudioJobs /\ task \in [1..MaxStudioJobs -> Tasks]
      /\ DOMAIN rows \subseteq 1..MaxStudioJobs
  BY JobsType, RowDomain DEF JobInv, StudioTypes
<1>1. CASE LoopRead(j) \/ LoopSuggests(j) \/ LoopApplies(j) \/ LoopMarks(j)
  <2>1. Threads' /\ UNCHANGED <<rows, claimed, unended, reconciled, handler, deployed>>
    BY <1>1, LoopsJobs
  <2>2. DeployedWasMeasured'
    BY <2>1, MeasuredStays DEF JobInv
  <2> QED  BY <1>0, <2>1, <2>2 DEF JobInv, Orphaned, Owned, Running
<1>2. CASE Finish(j) \/ Fail(j)
  <2>1. PICK outcome \in {"done", "failed"} : Ends(j, outcome) /\ (Fail(j) => outcome = "failed")
        /\ (outcome = "failed" => Fail(j))
    BY <1>2 DEF Finish, Fail
  <2>2. task[j].pc \notin {"off", "release"}
    BY <1>2 DEF Finish, Fail
  <2>3. /\ DOMAIN rows' = DOMAIN rows
        /\ \A i \in DOMAIN rows :
             /\ rows'[i].kind = rows[i].kind /\ rows'[i].defn = rows[i].defn
             /\ rows'[i].status = IF i = j THEN outcome ELSE rows[i].status
        /\ UNCHANGED <<claimed, unended, reconciled, handler, deployed>>
    BY <1>0, <2>1, RowStatus DEF Ends, endVars
  <2>4. task'[j].pc = "release" /\ \A i \in (1..MaxStudioJobs) \ {j} : task'[i] = task[i]
    BY <1>0, <2>1 DEF Ends, Step, Tasks
  <2>5. j \in claimed /\ rows[j].status # "done"
    BY <1>0, <2>2 DEF JobInv, Threads, Fitting
  <2>6. DeployedWasMeasured'
    BY <2>3, <2>5, MeasuredStays DEF JobInv
  <2>7. Threads'
    <3>1. \A i \in DOMAIN rows : Fitting(rows'[i], task'[i], i \in unended')
      BY <1>0, <2>3, <2>4 DEF JobInv, Threads, Fitting
    <3>2. \A i \in 1..MaxStudioJobs : task'[i].pc # "off" <=> i \in claimed
      BY <2>4, <2>5 DEF JobInv, Threads
    <3>3. \A g \in Handlers : handler[g].pc = "claim" => handler[g].id # j
      BY <2>5 DEF JobInv, Threads
    <3> QED  BY <2>3, <3>1, <3>2, <3>3 DEF JobInv, Threads
  <2>8. Orphaned'
    BY <2>3, <2>5 DEF JobInv, Orphaned, Owned, Running
  <2> QED  BY <1>0, <2>6, <2>7, <2>8 DEF JobInv
<1>3. CASE Release(j)
  <2>1. /\ task[j].pc = "release" /\ claimed' = claimed \ {j}
        /\ UNCHANGED <<rows, unended, reconciled, handler, deployed>>
    BY <1>3 DEF Release, endVars
  <2>2. task'[j].pc = "off" /\ \A i \in (1..MaxStudioJobs) \ {j} : task'[i] = task[i]
    BY <1>0, <1>3, NoOnes DEF Release, endVars
  <2>3. (Running(j) => j \in unended) /\ j \in claimed
    BY <1>0, <2>1 DEF JobInv, Threads, Fitting, Running
  <2>4. DeployedWasMeasured'
    BY <2>1, MeasuredStays DEF JobInv
  <2>5. Threads'
    <3>1. \A i \in DOMAIN rows : Fitting(rows[i], task'[i], i \in unended')
      BY <1>0, <2>1, <2>2 DEF JobInv, Threads, Fitting
    <3>2. \A i \in 1..MaxStudioJobs : task'[i].pc # "off" <=> i \in claimed'
      BY <2>1, <2>2 DEF JobInv, Threads
    <3> QED  BY <2>1, <3>1, <3>2 DEF JobInv, Threads
  <2>6. Orphaned'
    BY <2>1, <2>3 DEF JobInv, Orphaned, Owned, Running
  <2> QED  BY <1>0, <2>4, <2>5, <2>6 DEF JobInv
<1>4. CASE FailUnwritten(j)
  <2>1. /\ task[j].pc \notin {"off", "release"} /\ unended' = unended \cup {j}
        /\ UNCHANGED <<rows, claimed, reconciled, handler, deployed>>
    BY <1>4 DEF FailUnwritten
  <2>2. task'[j].pc = "release" /\ \A i \in (1..MaxStudioJobs) \ {j} : task'[i] = task[i]
    BY <1>0, <1>4 DEF FailUnwritten, Step, Tasks
  <2>3. DeployedWasMeasured'
    BY <2>1, MeasuredStays DEF JobInv
  <2>4. Threads'
    <3>1. \A i \in DOMAIN rows : Fitting(rows[i], task'[i], i \in unended')
      BY <1>0, <2>1, <2>2 DEF JobInv, Threads, Fitting
    <3>2. \A i \in 1..MaxStudioJobs : task'[i].pc # "off" <=> i \in claimed
      BY <2>1, <2>2 DEF JobInv, Threads
    <3> QED  BY <2>1, <3>1, <3>2 DEF JobInv, Threads
  <2>5. Orphaned'
    BY <2>1 DEF JobInv, Orphaned, Owned, Running
  <2> QED  BY <1>0, <2>3, <2>4, <2>5 DEF JobInv
<1> QED  BY <1>1, <1>2, <1>3, <1>4 DEF JobThread

LEMMA DeathJobs == JobInv /\ StudioDies => JobInv'
<1> SUFFICES ASSUME JobInv, StudioDies PROVE JobInv'
  OBVIOUS
<1>1. StudioTypes' /\ DeployedWasMeasured'
  BY DeathTypes, MeasuredStays DEF JobInv, StudioDies
<1>2. /\ \A h \in Handlers : handler'[h].pc = "idle"
      /\ \A i \in 1..MaxStudioJobs : task'[i].pc = "off"
      /\ claimed' = {} /\ ~reconciled' /\ rows' = rows /\ DOMAIN rows \subseteq 1..MaxStudioJobs
  BY NoOnes, RowDomain DEF StudioDies, JobInv, StudioTypes
<1>3. Threads'
  BY <1>2 DEF Threads, Fitting, Claims
<1> QED  BY <1>1, <1>2, <1>3 DEF JobInv, Orphaned

LEMMA JobInvariant == StudioSpec => []JobInv
<1>1. JobInv /\ [StudioNext]_studioVars => JobInv'
  <2> SUFFICES ASSUME JobInv, [StudioNext]_studioVars PROVE JobInv'
    OBVIOUS
  <2>1. CASE UNCHANGED studioVars
    <3>1. StudioTypes' /\ UNCHANGED <<rows, task, claimed, unended, reconciled, handler, deployed>>
      BY <2>1 DEF studioVars, endVars, JobInv, StudioTypes
    <3> QED  BY <3>1, ElseKeeps
  <2> QED  BY <2>1, HandlersJobs, ThreadsJobs, DeathJobs DEF StudioNext
<1> QED  BY <1>1, JobInvInit, PTL DEF StudioSpec

-----------------------------------------------------------------------------
(* What passed the deploy gate was measured (_gate_baseline of             *)
(* web/routes/strategy_studio.py): for any number of tabs, jobs and deaths  *)
(* of the process, a run of exactly the deployed definition is done, since  *)
(* no step takes a done row back or gives it another definition.            *)
THEOREM DeployedWasMeasuredAlways == StudioSpec => []DeployedWasMeasured
<1>1. JobInv => DeployedWasMeasured
  BY DEF JobInv
<1> QED  BY <1>1, JobInvariant, PTL

(* No running row is left without a thread once its process has reconciled  *)
(* (_reconcile_studio_jobs): however many requests do so at once, a row is   *)
(* claimed, about to be claimed by the one request that made it, still      *)
(* ahead of the request that looks for orphans, or one of those the store   *)
(* raised for, in the reconciliation or when its own job wrote its end.     *)
THEOREM OrphansAlwaysFound == StudioSpec => []OrphansAreFound
<1>1. JobInv => OrphansAreFound
  BY DEF JobInv, OrphansAreFound, Reconciling, Orphaned, Owned, Finds, Claims
<1> QED  BY <1>1, JobInvariant, PTL

-----------------------------------------------------------------------------
(* Deployments.  A node is served once per process; whoever has failed or   *)
(* stopped its row has left a mark that the serve thread must come by.      *)
Rows == {"none", "pending", "running", "paused", "stopped", "failed"}
Marked == [stopping : BOOLEAN, abandoned : BOOLEAN, built : BOOLEAN,
           failure : BOOLEAN, announced : BOOLEAN, exitedEarly : BOOLEAN]
ClickTypes == [pc : {"idle", "drive", "rearm", "record", "refuse"}, verb : Verbs \cup {"none"}]
NodeUp == {"registered", "up", "finally"}
Served == NodeUp \cup {"report", "gone"}

Doomed ==
  \/ serve \in {"drop", "finally", "report", "gone"}
  \/ flags.stopping /\ serve \in {"registered", "up"}
  \/ flags.abandoned /\ serve \in {"none", "building"}
  \/ serve = "none" /\ launch \notin {"pickup", "enter"}

RunnerTypes ==
  /\ status \in Rows /\ flags \in Marked
  /\ node \in [registered : BOOLEAN, trading : BOOLEAN]
  /\ click \in [Operators -> ClickTypes]
  /\ \A o \in Operators : click[o].pc # "idle" => click[o].verb \in Verbs

Fresh ==
  status = "none" =>
    /\ serve = "none" /\ launch = "off" /\ tick = "idle" /\ switch = "off"
    /\ \A o \in Operators : click[o].pc = "idle"

ServedOnce ==
  /\ serve \in {"none", "building", "drop"} \cup Served
  /\ node.registered <=> serve \in NodeUp
  /\ flags.failure => serve \in {"finally", "report", "gone"}
  /\ flags.exitedEarly => serve \in {"report", "gone"}
  /\ launch \in {"pickup", "enter"} => serve = "none"
  /\ status \in {"running", "paused"} \/ launch = "arm" \/ tick = "report" => serve \in Served

ClicksMean ==
  \A o \in Operators :
    /\ click[o].pc # "idle" /\ click[o].verb # "stop" => serve \in Served
    /\ click[o].pc = "refuse" => serve \in {"report", "gone"}
    /\ click[o].pc = "rearm" => click[o].verb = "resume"
    /\ click[o].pc = "record" /\ click[o].verb = "stop" => Doomed

EndsMean ==
  /\ status \in {"stopped", "failed"} => Doomed \/ launch \in {"fail-stop", "stop"}
  /\ launch = "refused" => Doomed

RunnerInv == RunnerTypes /\ Fresh /\ ServedOnce /\ ClicksMean /\ EndsMean

LEMMA RunnerInvInit == RunnerInit => RunnerInv
BY DEF RunnerInit, RunnerInv, RunnerTypes, Fresh, ServedOnce, ClicksMean, EndsMean, Doomed,
       NoFlags, NoNode, NoClick, Rows, Marked, ClickTypes, NodeUp, Served

LEMMA LauncherKeeps == RunnerInv /\ (Deploy \/ Launcher \/ LateStop) => RunnerInv'
<1> SUFFICES ASSUME RunnerInv, Deploy \/ Launcher \/ LateStop PROVE RunnerInv'
  OBVIOUS
<1> USE DEF RunnerInv, RunnerTypes, Fresh, ServedOnce, ClicksMean, EndsMean, Doomed,
            Rows, Marked, NodeUp, Served, counters
<1>1. CASE Deploy
  BY <1>1 DEF Deploy
<1>2. CASE Pickup
  BY <1>2 DEF Pickup
<1>3. CASE Enter
  BY <1>3 DEF Enter
<1>4. CASE Waited
  BY <1>4 DEF Waited
<1>5. CASE LateBuild
  BY <1>5 DEF LateBuild
<1>6. CASE LaunchFails
  BY <1>6 DEF LaunchFails
<1>7. CASE Announce
  BY <1>7 DEF Announce
<1>8. CASE Arm
  BY <1>8 DEF Arm
<1>9. CASE LateStop
  BY <1>9 DEF LateStop, Stops
<1> QED  BY <1>1, <1>2, <1>3, <1>4, <1>5, <1>6, <1>7, <1>8, <1>9 DEF Launcher

LEMMA ServeThreadKeeps == RunnerInv /\ (ServeThread \/ NodeExits) => RunnerInv'
<1> SUFFICES ASSUME RunnerInv, ServeThread \/ NodeExits PROVE RunnerInv'
  OBVIOUS
<1> USE DEF RunnerInv, RunnerTypes, Fresh, ServedOnce, ClicksMean, EndsMean, Doomed,
            Rows, Marked, NodeUp, Served, counters
<1>1. CASE BuildFails
  BY <1>1 DEF BuildFails
<1>2. CASE Register
  <2>1. flags' \in Marked /\ flags'.stopping = flags.stopping /\ flags'.failure = flags.failure
        /\ flags'.exitedEarly = flags.exitedEarly
    BY <1>2 DEF Register
  <2>2. CASE flags.abandoned
    BY <1>2, <2>1, <2>2 DEF Register, GivesUp
  <2>3. CASE ~flags.abandoned
    <3>1. /\ serve = "building" /\ serve' = "registered" /\ node' = [registered |-> TRUE, trading |-> TRUE]
          /\ UNCHANGED <<status, launch, switch, tick, click>>
      BY <1>2, <2>3 DEF Register, GivesUp
    <3>2. ~Doomed /\ status # "none"
      BY <2>3, <3>1
    <3>3. \A o \in Operators : ~(click[o].pc = "record" /\ click[o].verb = "stop")
      BY <3>2
    <3> QED  BY <2>1, <3>1, <3>2, <3>3
  <2> QED  BY <2>2, <2>3
<1>3. CASE Built
  BY <1>3 DEF Built
<1>4. CASE Deregister
  BY <1>4 DEF Deregister, ExitedEarly, NoNode
<1>5. CASE ReportExit
  BY <1>5 DEF ReportExit
<1>6. CASE NodeExits
  BY <1>6 DEF NodeExits
<1> QED  BY <1>1, <1>2, <1>3, <1>4, <1>5, <1>6 DEF ServeThread

LEMMA ClicksKeep ==
  ASSUME RunnerInv, NEW o \in Operators, Driven(o) \/ \E verb \in Verbs : Clicks(o, verb)
  PROVE  RunnerInv'
<1> USE DEF RunnerInv, RunnerTypes, Fresh, ServedOnce, ClicksMean, EndsMean, Doomed,
            Rows, Marked, NodeUp, Served, counters, ClickTypes, Verbs
<1>1. ASSUME NEW verb \in Verbs, Clicks(o, verb)  PROVE RunnerInv'
  BY <1>1 DEF Clicks, AllowedFrom
<1>2. CASE DriveStop(o)
  BY <1>2 DEF DriveStop, Stops
<1>3. CASE DrivePause(o)
  BY <1>3 DEF DrivePause
<1>4. CASE Rearm(o)
  <2>1. /\ click' = [click EXCEPT ![o].pc = "record"] /\ click[o].pc = "rearm"
        /\ UNCHANGED <<status, launch, serve, node, flags, tick>>
        /\ status # "none"
    BY <1>4 DEF Rearm
  <2> QED  BY <2>1
<1>5. CASE Record(o)
  BY <1>5 DEF Record, Target, NoClick
<1> QED  BY <1>1, <1>2, <1>3, <1>4, <1>5 DEF Driven

LEMMA SwitchKeeps == RunnerInv /\ (Measure \/ Monitor \/ Restart) => RunnerInv'
<1> SUFFICES ASSUME RunnerInv, Measure \/ Monitor \/ Restart PROVE RunnerInv'
  OBVIOUS
<1> USE DEF RunnerInv, RunnerTypes, Fresh, ServedOnce, ClicksMean, EndsMean, Doomed,
            Rows, Marked, NodeUp, Served, counters
<1>1. CASE Measure
  BY <1>1 DEF Measure
<1>2. CASE Judge
  BY <1>2 DEF Judge
<1>3. CASE FirePause
  BY <1>3 DEF FirePause
<1>4. CASE FireReport
  BY <1>4 DEF FireReport
<1>5. CASE Restart
  BY <1>5 DEF Restart, LiveRows, NoFlags, NoNode, NoClick, ClickTypes
<1> QED  BY <1>1, <1>2, <1>3, <1>4, <1>5 DEF Monitor

(* There is no hidden node (strategy_studio/runner.py): for any number of   *)
(* operators, clicks, kill switch measurements and restarts, a trading node *)
(* that nobody has told to stop, or is about to, has a row it can be        *)
(* stopped from.                                                            *)
THEOREM NodeAlwaysSeen == RunnerSpec => []NodeIsSeen
<1>1. RunnerInv /\ [RunnerNext]_runnerVars => RunnerInv'
  <2>1. RunnerInv /\ UNCHANGED runnerVars => RunnerInv'
    BY DEF runnerVars, RunnerInv, RunnerTypes, Fresh, ServedOnce, ClicksMean, EndsMean, Doomed
  <2> QED  BY <2>1, LauncherKeeps, ServeThreadKeeps, ClicksKeep, SwitchKeeps DEF RunnerNext
<1>2. RunnerInv => NodeIsSeen
  BY DEF RunnerInv, RunnerTypes, Fresh, ServedOnce, EndsMean, Doomed, NodeIsSeen, AboutToStop,
         LiveRows, Rows, NodeUp
<1> QED  BY <1>1, <1>2, RunnerInvInit, PTL DEF RunnerSpec

-----------------------------------------------------------------------------
(* The optimizer's sweep (StrategySweep).  First, order.                    *)

(* A set of numbers has a least one.                                        *)
LEMMA SmallestIsOne ==
  ASSUME NEW S \in SUBSET Nat, S # {}
  PROVE  \E l \in S : \A y \in S : l <= y
<1>1. PICK l \in S : \A y \in S : <<y, l>> \notin OpToRel(<, Nat)
  BY NatLessThanWellFounded, WFMin
<1>2. \A y \in S : l <= y
  <2> SUFFICES ASSUME NEW y \in S  PROVE l <= y
    OBVIOUS
  <2>1. l \in Nat /\ y \in Nat /\ ~(y < l)
    BY <1>1 DEF OpToRel
  <2> QED  BY <2>1
<1> QED  BY <1>2

-----------------------------------------------------------------------------
(* A finite set in a strict order: the members by how many come before.     *)
StrictOrder(S, R) ==
  /\ \A x \in S : <<x, x>> \notin R
  /\ \A x, y, z \in S : <<x, y>> \in R /\ <<y, z>> \in R => <<x, z>> \in R
  /\ \A x, y \in S : x # y => <<x, y>> \in R \/ <<y, x>> \in R
Earlier(S, R, x) == {y \in S : <<y, x>> \in R}

LEMMA EarlierGrow ==
  ASSUME NEW S, IsFiniteSet(S), NEW R, StrictOrder(S, R)
  PROVE  /\ Cardinality(S) \in Nat
         /\ \A x \in S : Cardinality(Earlier(S, R, x)) \in 0..Cardinality(S) - 1
         /\ \A x, y \in S : <<x, y>> \in R =>
              Cardinality(Earlier(S, R, x)) < Cardinality(Earlier(S, R, y))
<1>1. \A x \in S : IsFiniteSet(Earlier(S, R, x)) /\ Cardinality(Earlier(S, R, x)) \in Nat
  <2>1. \A x \in S : Earlier(S, R, x) \subseteq S
    BY DEF Earlier
  <2> QED  BY <2>1, FS_Subset, FS_CardinalityType
<1>2. ASSUME NEW x \in S, NEW y \in S, <<x, y>> \in R
      PROVE  Cardinality(Earlier(S, R, x)) < Cardinality(Earlier(S, R, y))
  <2>1. Earlier(S, R, x) \subseteq Earlier(S, R, y)
    BY <1>2 DEF Earlier, StrictOrder
  <2>2. x \in Earlier(S, R, y) /\ x \notin Earlier(S, R, x)
    BY <1>2 DEF Earlier, StrictOrder
  <2>3. Cardinality(Earlier(S, R, x)) <= Cardinality(Earlier(S, R, y))
        /\ (Cardinality(Earlier(S, R, x)) = Cardinality(Earlier(S, R, y))
              => Earlier(S, R, x) = Earlier(S, R, y))
    BY <1>1, <2>1, FS_Subset
  <2> QED  BY <1>1, <2>2, <2>3
<1>3. ASSUME NEW x \in S  PROVE Cardinality(Earlier(S, R, x)) \in 0..Cardinality(S) - 1
  <2>1. Earlier(S, R, x) \subseteq S /\ x \notin Earlier(S, R, x)
    BY DEF Earlier, StrictOrder
  <2>2. Cardinality(Earlier(S, R, x)) <= Cardinality(S)
        /\ (Cardinality(Earlier(S, R, x)) = Cardinality(S) => Earlier(S, R, x) = S)
    BY <2>1, FS_Subset
  <2> QED  BY <1>1, <2>1, <2>2, FS_CardinalityType
<1> QED  BY <1>2, <1>3, FS_CardinalityType

(* f has in place i the member with i - 1 before it, if there is one.       *)
InPlace(S, R, f) ==
  /\ f = [i \in 1..Cardinality(S) |-> f[i]]
  /\ \A i \in 1..Cardinality(S), x \in S : Cardinality(Earlier(S, R, x)) = i - 1 =>
       f[i] \in S /\ Cardinality(Earlier(S, R, f[i])) = i - 1

(* Each place is taken, by one of them, and they stand in order.            *)
LEMMA OrderedOnce ==
  ASSUME NEW S, IsFiniteSet(S), NEW R, StrictOrder(S, R), NEW f, InPlace(S, R, f)
  PROVE  /\ Cardinality(S) \in Nat /\ f \in [1..Cardinality(S) -> S]
         /\ \A i, j \in 1..Cardinality(S) : i < j => <<f[i], f[j]>> \in R
         /\ \A x \in S : \E i \in 1..Cardinality(S) : f[i] = x
<1> DEFINE n == Cardinality(S)
           P == [x \in S |-> Cardinality(Earlier(S, R, x))]
<1>1. n \in Nat /\ P \in [S -> 0..n - 1] /\ \A x, y \in S : <<x, y>> \in R => P[x] < P[y]
  BY EarlierGrow
<1>2. P \in Injection(S, 0..n - 1)
  <2> HIDE DEF P, n
  <2> SUFFICES \A x, y \in S : P[x] = P[y] => x = y
    BY <1>1 DEF Injection, IsInjective
  <2> SUFFICES ASSUME NEW x \in S, NEW y \in S, x # y  PROVE P[x] # P[y]
    OBVIOUS
  <2>1. <<x, y>> \in R \/ <<y, x>> \in R
    BY DEF StrictOrder
  <2>2. P[x] \in 0..n-1 /\ P[y] \in 0..n-1
    BY <1>1
  <2> QED  BY <1>1, <2>1, <2>2
<1>3. IsFiniteSet(0..n - 1) /\ Cardinality(0..n - 1) = n
  <2> HIDE DEF n
  <2>1. n \in Nat /\ 0 \in Int /\ n - 1 \in Int
    BY <1>1
  <2>2. IsFiniteSet(0..n - 1) /\ Cardinality(0..n - 1) = IF 0 > n - 1 THEN 0 ELSE n - 1 - 0 + 1
    BY <2>1, FS_Interval
  <2> QED  BY <2>1, <2>2
<1>4. P \in Surjection(S, 0..n - 1)
  <2> HIDE DEF P
  <2> QED  BY <1>2, <1>3, FS_Injection
<1>5. ASSUME NEW i \in 1..n  PROVE f[i] \in S /\ P[f[i]] = i - 1
  <2>1. \E x \in S : P[x] = i - 1
    <3> HIDE DEF P, n
    <3>1. i - 1 \in 0..n - 1
      BY <1>1
    <3> QED  BY <1>4, <3>1 DEF Surjection
  <2>2. \E x \in S : Cardinality(Earlier(S, R, x)) = i - 1
    BY <2>1
  <2>4. f[i] \in S /\ Cardinality(Earlier(S, R, f[i])) = i - 1
    BY <2>2 DEF InPlace
  <2> QED  BY <2>4
<1>6. f \in [1..n -> S]
  <2>1. f = [i \in 1..n |-> f[i]]
    BY DEF InPlace
  <2> HIDE DEF n, P
  <2> QED  BY <1>5, <2>1
<1>7. ASSUME NEW i \in 1..n, NEW j \in 1..n, i < j  PROVE <<f[i], f[j]>> \in R
  <2> HIDE DEF P
  <2>1. P[f[i]] = i - 1 /\ P[f[j]] = j - 1 /\ f[i] \in S /\ f[j] \in S
    BY <1>5
  <2>2. f[i] # f[j] /\ <<f[j], f[i]>> \notin R
    <3>1. i - 1 < j - 1
      BY <1>7
    <3>2. P[f[i]] < P[f[j]] /\ ~(P[f[j]] < P[f[i]])
      BY <2>1, <3>1
    <3> HIDE DEF n
    <3> QED  BY <1>1, <2>1, <3>2
  <2> QED  BY <2>1, <2>2 DEF StrictOrder
<1>8. ASSUME NEW x \in S  PROVE \E i \in 1..n : f[i] = x
  <2> DEFINE i == P[x] + 1
  <2>1. i \in 1..n /\ P[x] = i - 1
    <3> HIDE DEF P, n
    <3>1. P[x] \in 0..n - 1
      BY <1>1
    <3> QED  BY <1>1, <3>1
  <2> HIDE DEF i, P
  <2>2. f[i] \in S /\ P[f[i]] = P[x]
    BY <1>5, <2>1
  <2>3. f[i] = x
    BY <1>2, <2>2 DEF Injection, IsInjective
  <2> QED  BY <2>1, <2>3
<1> QED  BY <1>1, <1>6, <1>7, <1>8

-----------------------------------------------------------------------------
(* The axes of a grid are a sequence, and so is the grid.                   *)
LEMMA MarkedAreSome ==
  ASSUME NEW d, NEW m \in Nat, DOMAIN d.rules \subseteq 1..m
  PROVE  /\ Optimized(d) \subseteq {Risk} \cup DOMAIN d.rules
         /\ IsFiniteSet(Optimized(d)) /\ Cardinality(Optimized(d)) \in Nat
<1>1. \A i : In(d, Walk[i][1], Walk[i][2]) \subseteq DOMAIN d.rules
  BY DEF In
<1>2. Optimized(d) \subseteq {Risk} \cup DOMAIN d.rules
  BY <1>1 DEF Optimized
<1>3. Optimized(d) \subseteq 0..m
  BY <1>2 DEF Risk
<1>4. IsFiniteSet(0..m)
  BY FS_Interval
<1>5. IsFiniteSet(Optimized(d))
  BY <1>3, <1>4, FS_Subset
<1> QED  BY <1>2, <1>5, FS_CardinalityType

LEMMA PlacesAreNumbers ==
  ASSUME NEW d, NEW m \in Nat, DOMAIN d.rules \subseteq 1..m, NEW r \in Optimized(d)
  PROVE  PlaceOf(d, r) \in Nat /\ r \in Nat
<1>1. DOMAIN Walk = 1..9 /\ Len(Walk) = 9
  BY DEF Walk
<1>2. r \in Nat
  BY MarkedAreSome DEF Risk
<1>3. CASE r = Risk
  BY <1>1, <1>2, <1>3 DEF PlaceOf
<1>4. CASE r # Risk
  <2>1. PICK i \in DOMAIN Walk : r \in In(d, Walk[i][1], Walk[i][2])
    BY <1>4 DEF Optimized
  <2>2. Walk[i][1] = d.rules[r].block /\ Walk[i][2] = d.rules[r].filter
    BY <2>1 DEF In
  <2>3. Walk[i] = <<Walk[i][1], Walk[i][2]>>
    BY <1>1 DEF Walk
  <2>4. PlaceOf(d, r) \in DOMAIN Walk
    BY <1>4, <2>2, <2>3 DEF PlaceOf
  <2> QED  BY <1>1, <1>2, <2>4
<1> QED  BY <1>3, <1>4

(* Every marked owner is an axis, once.                                     *)
LEMMA AxesInOrder ==
  ASSUME NEW d, NEW m \in Nat, DOMAIN d.rules \subseteq 1..m
  PROVE  /\ Len(Axes(d)) = Cardinality(Optimized(d)) /\ Len(Axes(d)) \in Nat
         /\ Axes(d) \in [1..Len(Axes(d)) -> Optimized(d)]
         /\ \A i, j \in 1..Len(Axes(d)) : i < j => Axes(d)[i] # Axes(d)[j]
         /\ \A r \in Optimized(d) : \E i \in 1..Len(Axes(d)) : Axes(d)[i] = r
<1> DEFINE M == Optimized(d)
           R == {p \in M \X M : PlaceOf(d, p[1]) < PlaceOf(d, p[2])
                                \/ (PlaceOf(d, p[1]) = PlaceOf(d, p[2]) /\ p[1] < p[2])}
           n == Cardinality(M)
           ax == Axes(d)
<1>1. \A r \in M : PlaceOf(d, r) \in Nat /\ r \in Nat
  BY PlacesAreNumbers
<1>2. \A x, y \in M : <<x, y>> \in R <=> (PlaceOf(d, x) < PlaceOf(d, y) \/ (PlaceOf(d, x) = PlaceOf(d, y) /\ x < y))
  OBVIOUS
<1>3. StrictOrder(M, R)
  <2> HIDE DEF M, R
  <2>1. \A x \in M : <<x, x>> \notin R
    BY <1>1, <1>2
  <2>2. \A x, y, z \in M : <<x, y>> \in R /\ <<y, z>> \in R => <<x, z>> \in R
    BY <1>1, <1>2
  <2>3. \A x, y \in M : x # y => <<x, y>> \in R \/ <<y, x>> \in R
    BY <1>1, <1>2
  <2> QED  BY <2>1, <2>2, <2>3 DEF StrictOrder
<1>4. \A x \in M : Earlier(M, R, x) = {y \in M : PlaceOf(d, y) < PlaceOf(d, x)
                                                 \/ (PlaceOf(d, y) = PlaceOf(d, x) /\ y < x)}
  <2> HIDE DEF M, R
  <2> QED  BY <1>2 DEF Earlier
<1>5. ax = [i \in 1..n |-> CHOOSE x \in M : Cardinality({y \in M : PlaceOf(d, y) < PlaceOf(d, x)
                                                 \/ (PlaceOf(d, y) = PlaceOf(d, x) /\ y < x)}) = i - 1]
  BY Zenon DEF Axes, InOrder
<1>6. ax = [i \in 1..n |-> ax[i]] /\ \A i \in 1..n, x \in M :
        Cardinality(Earlier(M, R, x)) = i - 1 => ax[i] \in M /\ Cardinality(Earlier(M, R, ax[i])) = i - 1
  <2> DEFINE Before(x) == {y \in M : PlaceOf(d, y) < PlaceOf(d, x)
                                     \/ (PlaceOf(d, y) = PlaceOf(d, x) /\ y < x)}
  <2>1. ax = [i \in 1..n |-> CHOOSE x \in M : Cardinality(Before(x)) = i - 1]
    BY <1>5
  <2>2. \A x \in M : Earlier(M, R, x) = Before(x)
    BY <1>4
  <2> HIDE DEF Before, M, R, ax, n
  <2>3. ASSUME NEW i \in 1..n, NEW x \in M, Cardinality(Earlier(M, R, x)) = i - 1
        PROVE  ax[i] \in M /\ Cardinality(Earlier(M, R, ax[i])) = i - 1
    <3>1. Cardinality(Before(x)) = i - 1
      BY <2>2, <2>3
    <3>2. ax[i] \in M /\ Cardinality(Before(ax[i])) = i - 1
      BY <2>1, <3>1
    <3> QED  BY <2>2, <3>2
  <2> QED  BY <2>1, <2>3
<1>7. IsFiniteSet(M)
  BY MarkedAreSome
<1> HIDE DEF M, R, n, ax
<1>8. /\ n \in Nat /\ ax \in [1..n -> M]
      /\ \A i, j \in 1..n : i < j => <<ax[i], ax[j]>> \in R
      /\ \A x \in M : \E i \in 1..n : ax[i] = x
  <2>1. InPlace(M, R, ax)
    BY <1>6 DEF n, InPlace
  <2> QED  BY <1>3, <1>7, <2>1, OrderedOnce DEF n
<1>9. \A i, j \in 1..n : i < j => ax[i] # ax[j]
  BY <1>3, <1>8 DEF StrictOrder
<1>10. Len(ax) = n
  BY <1>8
<1> QED  BY <1>8, <1>9, <1>10 DEF M, n, ax

(* The points over the first axes, one axis after another.                  *)
Wider(d, fewer, owner) ==
  LET range == ParamOf(d, owner).marked
      size == Cardinality(range[1]..range[2])
  IN  [i \in 1..Len(fewer) * size |->
         Widened(fewer[(i - 1) \div size + 1], owner, range[1] + ((i - 1) % size))]

LEMMA CombosFollow ==
  ASSUME NEW d, Len(Axes(d)) \in Nat
  PROVE  \E points :
           /\ points[0] = << [owner \in {} |-> 0] >>
           /\ \A k \in 1..Len(Axes(d)) : points[k] = Wider(d, points[k - 1], Axes(d)[k])
           /\ Combos(d) = IF Axes(d) = <<>> THEN <<>> ELSE points[Len(Axes(d))]
<1> DEFINE axes == Axes(d)
           last == Len(axes)
           Origin == << [owner \in {} |-> 0] >>
           Layer(h, k) == IF k = 0 THEN Origin ELSE Wider(d, h[k - 1], axes[k])
           Exists(n) == \E h : h = [k \in 0..n |-> Layer(h, k)]
           Fails == {n \in 0..last : ~Exists(n)}
<1>1. Fails = {}
  <2> HIDE DEF Origin, axes
  <2> SUFFICES ASSUME Fails # {}  PROVE FALSE
    OBVIOUS
  <2>0. last \in Nat
    BY DEF axes
  <2>1. PICK n \in Fails : \A m \in Fails : n <= m
    <3>1. Fails \in SUBSET Nat
      BY <2>0
    <3> HIDE DEF Fails
    <3> QED  BY <3>1, SmallestIsOne
  <2>2. n \in 0..last /\ ~Exists(n)
    OBVIOUS
  <2>3. CASE n = 0
    <3> DEFINE h == [k \in 0..0 |-> Origin]
    <3>1. h = [k \in 0..0 |-> Layer(h, k)]
      <4>1. \A k \in 0..0 : Layer(h, k) = Origin
        OBVIOUS
      <4> QED  BY <4>1
    <3> HIDE DEF h
    <3>2. Exists(0)
      BY <3>1
    <3> QED  BY <2>2, <2>3, <3>2
  <2>4. CASE n # 0
    <3>1. n - 1 \in 0..last /\ n - 1 < n /\ n \in Nat
      BY <2>0, <2>2, <2>4
    <3>2. Exists(n - 1)
      BY <2>1, <3>1
    <3>3. PICK h : h = [k \in 0..n - 1 |-> Layer(h, k)]
      BY <3>2
    <3> DEFINE g == [k \in 0..n |-> IF k = n THEN Wider(d, h[n - 1], axes[n]) ELSE h[k]]
    <3>4. ASSUME NEW k \in 0..n  PROVE g[k] = Layer(g, k)
      <4>1. CASE k = n
        <5>1. g[n - 1] = h[n - 1] /\ g[n] = Wider(d, h[n - 1], axes[n])
          BY <3>1
        <5> QED  BY <2>4, <4>1, <5>1
      <4>2. CASE k # n
        <5>1. k \in 0..n - 1
          BY <3>1, <4>2
        <5>2. g[k] = h[k] /\ h[k] = Layer(h, k)
          BY <3>3, <4>2, <5>1
        <5>3. k # 0 => k - 1 \in 0..n /\ k - 1 # n /\ g[k - 1] = h[k - 1]
          BY <3>1, <5>1
        <5> QED  BY <5>2, <5>3
      <4> QED  BY <4>1, <4>2
    <3>5. g = [k \in 0..n |-> Layer(g, k)]
      BY <3>4
    <3> HIDE DEF g
    <3>6. Exists(n)
      BY <3>5
    <3> QED  BY <2>2, <3>6
  <2> QED  BY <2>3, <2>4
<1>2. Exists(last)
  <2> HIDE DEF Exists
  <2> QED  BY <1>1
<1> DEFINE points == CHOOSE h : h = [k \in 0..last |-> Layer(h, k)]
<1>3. Combos(d) = IF axes = <<>> THEN <<>> ELSE points[last]
  BY Zenon DEF Combos, Wider
<1>4. points = [k \in 0..last |-> Layer(points, k)]
  <2> HIDE DEF Layer
  <2> QED  BY <1>2
<1> HIDE DEF points
<1>5. points[0] = Origin
  BY <1>4
<1>6. ASSUME NEW k \in 1..last  PROVE points[k] = Wider(d, points[k - 1], axes[k])
  <2>1. k \in 0..last /\ k # 0
    OBVIOUS
  <2> HIDE DEF axes, Origin
  <2> QED  BY <1>4, <2>1
<1> QED  BY <1>3, <1>5, <1>6

IsDrawn(d, m) == d \in StrategyDefinition(DOMAIN d.rules) /\ DOMAIN d.rules \subseteq 1..m

LEMMA MarkedSpan ==
  ASSUME NEW d, NEW m \in Nat, IsDrawn(d, m), NEW o \in Optimized(d)
  PROVE  /\ ParamOf(d, o).marked[1] \in Int /\ ParamOf(d, o).marked[2] \in Int
         /\ Cardinality(ParamOf(d, o).marked[1]..ParamOf(d, o).marked[2]) \in Nat
<1> DEFINE range == ParamOf(d, o).marked
<1>1. range \in Markings /\ range # Unmarked
  <2>1. CASE o = Risk
    <3>1. Risk \notin DOMAIN d.rules
      BY DEF IsDrawn, Risk
    <3>2. \A i : Risk \notin In(d, Walk[i][1], Walk[i][2])
      BY <3>1 DEF In
    <3> QED  BY <2>1, <3>2 DEF Optimized, ParamOf, IsDrawn, StrategyDefinition
  <2>2. CASE o # Risk
    <3>1. o \in DOMAIN d.rules /\ d.rules[o].marked # Unmarked
      <4>1. o \in DOMAIN d.rules
        BY <2>2, MarkedAreSome DEF IsDrawn
      <4> QED  BY <2>2, <4>1 DEF Optimized
    <3>2. d.rules[o] \in Rules
      BY <3>1 DEF IsDrawn, StrategyDefinition
    <3> QED  BY <2>2, <3>1, <3>2 DEF ParamOf, Rules
  <2> QED  BY <2>1, <2>2
<1>2. range \in Seq(Int) /\ Len(range) = 2
  <2> HIDE DEF range
  <2>1. range \in Seq(Int) /\ Len(range) \in {0, 2}
    BY <1>1 DEF Markings
  <2>2. Len(range) # 0
    BY <1>1, <2>1, EmptySeq DEF Unmarked
  <2> QED  BY <2>1, <2>2
<1> HIDE DEF range
<1>3. range[1] \in Int /\ range[2] \in Int
  <2>1. 1 \in 1..Len(range) /\ 2 \in 1..Len(range)
    BY <1>2
  <2> QED  BY <1>2, <2>1, ElementOfSeq
<1>4. Cardinality(range[1]..range[2]) \in Nat
  <2>1. IsFiniteSet(range[1]..range[2])
    BY <1>3, FS_Interval
  <2> QED  BY <2>1, FS_CardinalityType
<1> QED  BY <1>3, <1>4 DEF range

LEMMA WiderIsSome ==
  ASSUME NEW d, NEW m \in Nat, IsDrawn(d, m), NEW o \in Optimized(d), NEW fewer, Len(fewer) \in Nat
  PROVE  Len(Wider(d, fewer, o)) \in Nat
<1> DEFINE range == ParamOf(d, o).marked
           size == Cardinality(range[1]..range[2])
           w == Wider(d, fewer, o)
<1>1. size \in Nat
  BY MarkedSpan
<1>2. w = [i \in 1..Len(fewer) * size |-> w[i]]
  BY DEF Wider
<1> HIDE DEF size, w
<1>3. Len(fewer) * size \in Nat
  BY <1>1
<1> QED  BY <1>2, <1>3 DEF w

LEMMA GridIsSome ==
  ASSUME NEW d, NEW m \in Nat, IsDrawn(d, m)
  PROVE  Len(Combos(d)) \in Nat /\ Len(Grid(d)) \in Nat
<1> DEFINE axes == Axes(d)
           last == Len(axes)
<1>1. last \in Nat /\ axes \in [1..last -> Optimized(d)]
  BY AxesInOrder DEF IsDrawn
<1>2. PICK points :
        /\ points[0] = << [owner \in {} |-> 0] >>
        /\ \A k \in 1..last : points[k] = Wider(d, points[k - 1], axes[k])
        /\ Combos(d) = IF axes = <<>> THEN <<>> ELSE points[last]
  BY <1>1, CombosFollow
<1> HIDE DEF axes
<1> DEFINE Fails == {k \in 0..last : Len(points[k]) \notin Nat}
<1>3. Fails = {}
  <2> SUFFICES ASSUME Fails # {}  PROVE FALSE
    OBVIOUS
  <2>1. PICK k \in Fails : \A j \in Fails : k <= j
    <3>1. Fails \in SUBSET Nat
      BY <1>1
    <3> HIDE DEF Fails
    <3> QED  BY <3>1, SmallestIsOne
  <2>2. k \in 0..last /\ Len(points[k]) \notin Nat
    OBVIOUS
  <2>3. k # 0
    BY <1>2, <2>2
  <2>4. k \in 1..last /\ k - 1 \in 0..last /\ k - 1 < k
    BY <1>1, <2>2, <2>3
  <2>5. Len(points[k - 1]) \in Nat
    BY <2>1, <2>4
  <2>6. axes[k] \in Optimized(d)
    BY <1>1, <2>4
  <2> QED  BY <1>2, <2>2, <2>4, <2>5, <2>6, WiderIsSome
<1>4. Len(Combos(d)) \in Nat
  BY <1>1, <1>2, <1>3, EmptySeq
<1>5. MaxEvals \in Nat
  BY SweepAssumption
<1>6. Len(Grid(d)) \in Nat
  <2>1. CASE Len(Combos(d)) <= MaxEvals
    BY <1>4, <2>1 DEF Grid
  <2>2. CASE ~(Len(Combos(d)) <= MaxEvals)
    <3> DEFINE g == Grid(d)
    <3>1. g = [i \in 1..MaxEvals |-> g[i]]
      BY <2>2 DEF Grid
    <3> HIDE DEF g
    <3> QED  BY <1>5, <3>1 DEF g
  <2> QED  BY <2>1, <2>2
<1> QED  BY <1>4, <1>6

-----------------------------------------------------------------------------
(* Edits.  A rule that was there keeps its block and its indicator, and a   *)
(* new one has an id that was never used.                                   *)
Redrawn(d, m, e, last) ==
  /\ last \in Nat /\ m <= last /\ IsDrawn(e, last)
  /\ \A r \in DOMAIN e.rules : r <= m =>
       /\ r \in DOMAIN d.rules
       /\ e.rules[r].block = d.rules[r].block /\ e.rules[r].indicator = d.rules[r].indicator

LEMMA SweepNumbers ==
  /\ {SampleBars, MinWindow, Highest, MaxEvals, TopRanks, SweepLimit,
      EngineLimit, MaxEdits, MaxSweeps, MaxRuleId} \subseteq Nat
  /\ MaxEvals > 0
BY SweepAssumption

LEMMA AddingDraws ==
  ASSUME NEW d, NEW m \in Nat, IsDrawn(d, m), NEW rule \in Rules
  PROVE  Redrawn(d, m, WithRule(d, m + 1, rule), m + 1)
<1> DEFINE e == WithRule(d, m + 1, rule)
           ids == DOMAIN d.rules \cup {m + 1}
           f == [r \in ids |-> IF r = m + 1 THEN rule ELSE d.rules[r]]
<1>1. d \in StrategyDefinition(DOMAIN d.rules) /\ DOMAIN d.rules \subseteq 1..m
  BY DEF IsDrawn
<1>2. e = [d EXCEPT !.rules = f]
  BY DEF WithRule
<1>3. f \in [ids -> Rules]
  BY <1>1 DEF StrategyDefinition
<1>4. e.rules = f /\ e \in StrategyDefinition(ids)
  <2> HIDE DEF f, ids
  <2> QED  BY <1>1, <1>2, <1>3 DEF StrategyDefinition
<1>5. DOMAIN e.rules = ids /\ ids \subseteq 1..m + 1
  BY <1>1, <1>4
<1>6. ASSUME NEW r \in ids, r <= m  PROVE r \in DOMAIN d.rules /\ e.rules[r] = d.rules[r]
  BY <1>4, <1>6
<1>7. Redrawn(d, m, e, m + 1)
  <2> HIDE DEF e, ids, f
  <2>1. IsDrawn(e, m + 1)
    BY <1>4, <1>5 DEF IsDrawn
  <2>2. \A r \in DOMAIN e.rules : r <= m =>
          /\ r \in DOMAIN d.rules
          /\ e.rules[r].block = d.rules[r].block /\ e.rules[r].indicator = d.rules[r].indicator
    BY <1>5, <1>6
  <2> QED  BY <2>1, <2>2 DEF Redrawn
<1> QED  BY <1>7

LEMMA FieldsDraw ==
  ASSUME NEW d, NEW m \in Nat, IsDrawn(d, m), NEW e, e \in StrategyDefinition(DOMAIN d.rules), e.rules = d.rules
  PROVE  Redrawn(d, m, e, m)
BY DEF Redrawn, IsDrawn

LEMMA ParamDraws ==
  ASSUME NEW d, NEW m \in Nat, IsDrawn(d, m), NEW owner \in {Risk} \cup DOMAIN d.rules,
         NEW v \in Nat, NEW marked \in Markings
  PROVE  /\ Redrawn(d, m, SetParam(d, owner, [ParamOf(d, owner) EXCEPT !.value = v]), m)
         /\ Redrawn(d, m, SetParam(d, owner, [ParamOf(d, owner) EXCEPT !.marked = marked]), m)
<1>1. d \in StrategyDefinition(DOMAIN d.rules) /\ DOMAIN d.rules \subseteq 1..m
  BY DEF IsDrawn
<1>2. CASE owner = Risk
  <2>1. [d.risk EXCEPT !.value = v] \in [value : Nat, marked : Markings]
        /\ [d.risk EXCEPT !.marked = marked] \in [value : Nat, marked : Markings]
    BY <1>1 DEF StrategyDefinition
  <2>2. ASSUME NEW p \in [value : Nat, marked : Markings]
        PROVE  [d EXCEPT !.risk = p] \in StrategyDefinition(DOMAIN d.rules) /\ [d EXCEPT !.risk = p].rules = d.rules
    BY <1>1 DEF StrategyDefinition
  <2>3. \A p \in [value : Nat, marked : Markings] : Redrawn(d, m, [d EXCEPT !.risk = p], m)
    BY <2>2, FieldsDraw
  <2> QED  BY <1>2, <2>1, <2>3 DEF SetParam, ParamOf
<1>3. CASE owner # Risk
  <2>1. owner \in DOMAIN d.rules /\ d.rules[owner] \in Rules
    BY <1>1, <1>3 DEF StrategyDefinition
  <2>2. ASSUME NEW p \in Rules, p.block = d.rules[owner].block, p.indicator = d.rules[owner].indicator
        PROVE  Redrawn(d, m, [d EXCEPT !.rules[owner] = p], m)
    <3> DEFINE e == [d EXCEPT !.rules[owner] = p]
               f == [d.rules EXCEPT ![owner] = p]
    <3>1. e.rules = f /\ f \in [DOMAIN d.rules -> Rules] /\ e \in StrategyDefinition(DOMAIN d.rules)
      BY <1>1 DEF StrategyDefinition
    <3>2. DOMAIN e.rules = DOMAIN d.rules
      BY <3>1
    <3>3. \A r \in DOMAIN d.rules : f[r].block = d.rules[r].block /\ f[r].indicator = d.rules[r].indicator
      BY <1>1, <2>1, <2>2 DEF StrategyDefinition
    <3> HIDE DEF e, f
    <3> QED  BY <1>1, <3>1, <3>2, <3>3 DEF Redrawn, IsDrawn, e
  <2>3. [d.rules[owner] EXCEPT !.value = v] \in Rules /\ [d.rules[owner] EXCEPT !.marked = marked] \in Rules
    BY <2>1 DEF Rules
  <2>4. /\ [d.rules[owner] EXCEPT !.value = v].block = d.rules[owner].block
        /\ [d.rules[owner] EXCEPT !.value = v].indicator = d.rules[owner].indicator
        /\ [d.rules[owner] EXCEPT !.marked = marked].block = d.rules[owner].block
        /\ [d.rules[owner] EXCEPT !.marked = marked].indicator = d.rules[owner].indicator
    BY <2>1 DEF Rules
  <2> QED  BY <1>3, <2>2, <2>3, <2>4 DEF SetParam, ParamOf
<1> QED  BY <1>2, <1>3

(* A result that can be applied changes values, and nothing else.           *)
LEMMA AppliedDraws ==
  ASSUME NEW d, NEW m \in Nat, IsDrawn(d, m), NEW point, Settable(d, point)
  PROVE  /\ Redrawn(d, m, Applied(d, point), m) /\ DOMAIN Applied(d, point).rules = DOMAIN d.rules
         /\ \A k \in DOMAIN point :
              Held(Applied(d, point), k) /\ ParamOf(Applied(d, point), k).value = point[k]
<1> DEFINE e == Applied(d, point)
           f == [r \in DOMAIN d.rules |-> IF r \in DOMAIN point
                                          THEN [d.rules[r] EXCEPT !.value = point[r]] ELSE d.rules[r]]
           k0 == IF Risk \in DOMAIN point THEN [d.risk EXCEPT !.value = point[Risk]] ELSE d.risk
<1>1. d \in StrategyDefinition(DOMAIN d.rules) /\ DOMAIN d.rules \subseteq 1..m
  BY DEF IsDrawn
<1>2. e = [d EXCEPT !.rules = f, !.risk = k0]
  BY DEF Applied
<1>3. \A k \in DOMAIN point : point[k] \in Nat /\ Held(d, k)
  BY SweepNumbers DEF Settable, Bounds
<1>4. f \in [DOMAIN d.rules -> Rules]
  <2> SUFFICES ASSUME NEW r \in DOMAIN d.rules  PROVE f[r] \in Rules
    OBVIOUS
  <2>1. d.rules[r] \in Rules
    BY <1>1 DEF StrategyDefinition
  <2> QED  BY <1>3, <2>1 DEF Rules
<1>5. k0 \in [value : Nat, marked : Markings]
  BY <1>1, <1>3 DEF StrategyDefinition
<1>6. e.rules = f /\ e.risk = k0 /\ e \in StrategyDefinition(DOMAIN d.rules)
  <2> HIDE DEF f, k0
  <2> QED  BY <1>1, <1>2, <1>4, <1>5 DEF StrategyDefinition
<1>7. DOMAIN e.rules = DOMAIN d.rules
  BY <1>6
<1>8. \A r \in DOMAIN d.rules : f[r].block = d.rules[r].block /\ f[r].indicator = d.rules[r].indicator
  <2> SUFFICES ASSUME NEW r \in DOMAIN d.rules
               PROVE  f[r].block = d.rules[r].block /\ f[r].indicator = d.rules[r].indicator
    OBVIOUS
  <2>1. d.rules[r] \in Rules
    BY <1>1 DEF StrategyDefinition
  <2> QED  BY <2>1 DEF Rules
<1>9. Redrawn(d, m, e, m)
  <2> HIDE DEF e, f, k0
  <2> QED  BY <1>1, <1>6, <1>7, <1>8 DEF Redrawn, IsDrawn
<1>10. ASSUME NEW k \in DOMAIN point
       PROVE  Held(e, k) /\ ParamOf(e, k).value = point[k]
  <2>1. CASE k = Risk
    <3>1. k0 = [d.risk EXCEPT !.value = point[Risk]] /\ k0.value = point[Risk]
      BY <1>1, <2>1 DEF StrategyDefinition
    <3> QED  BY <1>6, <2>1, <3>1 DEF Held, ParamOf
  <2>2. CASE k # Risk
    <3>1. k \in DOMAIN d.rules /\ d.rules[k] \in Rules
      BY <1>1, <1>3, <2>2 DEF Held, StrategyDefinition
    <3>2. f[k].value = point[k]
      BY <3>1 DEF Rules
    <3> QED  BY <1>6, <1>7, <2>2, <3>1, <3>2 DEF Held, ParamOf
  <2> QED  BY <2>1, <2>2
<1> QED  BY <1>7, <1>9, <1>10

LEMMA NoMarking == Unmarked \in Markings
BY EmptySeq DEF Unmarked, Markings

LEMMA PairMarks ==
  ASSUME NEW a \in Int, NEW b \in Int  PROVE <<a, b>> \in Markings
<1>1. <<a, b>> \in Seq(Int) /\ Len(<<a, b>>) = 2
  OBVIOUS
<1> QED  BY <1>1 DEF Markings

LEMMA NewRuleIsOne ==
  ASSUME NEW block \in Blocks, NEW filter \in BOOLEAN, NEW indicator \in Indicators
  PROVE  NewRule(block, filter, indicator) \in Rules
BY NoMarking DEF NewRule, Rules

LEMMA RemovingDraws ==
  ASSUME NEW d, NEW m \in Nat, IsDrawn(d, m), NEW r
  PROVE  Redrawn(d, m, [d EXCEPT !.rules = [q \in DOMAIN d.rules \ {r} |-> d.rules[q]]], m)
<1> DEFINE ids == DOMAIN d.rules \ {r}
           f == [q \in ids |-> d.rules[q]]
           e == [d EXCEPT !.rules = f]
<1>1. d \in StrategyDefinition(DOMAIN d.rules) /\ DOMAIN d.rules \subseteq 1..m
  BY DEF IsDrawn
<1>2. f \in [ids -> Rules] /\ DOMAIN f = ids
  BY <1>1 DEF StrategyDefinition
<1>3. e.rules = f /\ e \in StrategyDefinition(ids)
  <2> HIDE DEF f, ids
  <2> QED  BY <1>1, <1>2 DEF StrategyDefinition
<1>4. \A q \in ids : q \in DOMAIN d.rules /\ f[q] = d.rules[q]
  OBVIOUS
<1>5. IsDrawn(e, m)
  <2>1. ids \subseteq 1..m
    BY <1>1
  <2> HIDE DEF f, ids, e
  <2> QED  BY <1>2, <1>3, <2>1 DEF IsDrawn
<1>6. Redrawn(d, m, e, m)
  <2> HIDE DEF f, ids, e
  <2> QED  BY <1>2, <1>3, <1>4, <1>5 DEF Redrawn
<1> QED  BY <1>6

LEMMA BranchDraws ==
  ASSUME NEW d, NEW m \in Nat, IsDrawn(d, m), NEW mode \in {"flat", "substrategy"}
  PROVE  LET enter == WithRule(d, m + 1, NewRule("sub_entry", FALSE, "rsi"))
             leave == WithRule(enter, m + 2, NewRule("sub_exit", FALSE, "rsi"))
         IN  Redrawn(d, m, [leave EXCEPT !.regime = mode, !.branch = TRUE], m + 2)
<1> DEFINE enter == WithRule(d, m + 1, NewRule("sub_entry", FALSE, "rsi"))
           leave == WithRule(enter, m + 2, NewRule("sub_exit", FALSE, "rsi"))
           e == [leave EXCEPT !.regime = mode, !.branch = TRUE]
<1>1. Redrawn(d, m, enter, m + 1)
  <2>1. NewRule("sub_entry", FALSE, "rsi") \in Rules
    BY NewRuleIsOne DEF Blocks, Indicators
  <2> QED  BY <2>1, AddingDraws
<1>2. m + 1 \in Nat /\ (m + 1) + 1 = m + 2 /\ m + 2 \in Nat
  OBVIOUS
<1> HIDE DEF enter
<1>3. Redrawn(enter, m + 1, leave, m + 2)
  <2>1. NewRule("sub_exit", FALSE, "rsi") \in Rules
    BY NewRuleIsOne DEF Blocks, Indicators
  <2>2. Redrawn(enter, m + 1, WithRule(enter, (m + 1) + 1, NewRule("sub_exit", FALSE, "rsi")), (m + 1) + 1)
    BY <1>1, <1>2, <2>1, AddingDraws DEF Redrawn
  <2> QED  BY <1>2, <2>2
<1> HIDE DEF leave
<1>4. Redrawn(leave, m + 2, e, m + 2)
  <2>1. leave \in StrategyDefinition(DOMAIN leave.rules) /\ IsDrawn(leave, m + 2)
    BY <1>3 DEF Redrawn, IsDrawn
  <2>2. e \in StrategyDefinition(DOMAIN leave.rules) /\ e.rules = leave.rules
    BY <2>1 DEF StrategyDefinition
  <2> HIDE DEF e
  <2> QED  BY <1>2, <2>1, <2>2, FieldsDraw
<1>5. Redrawn(d, m, e, m + 2)
  <2> HIDE DEF e
  <2>1. \A r \in DOMAIN e.rules : r \in 1..m + 2
    BY <1>4 DEF Redrawn, IsDrawn
  <2>2. ASSUME NEW r \in DOMAIN e.rules, r <= m
        PROVE  r \in DOMAIN d.rules /\ e.rules[r].block = d.rules[r].block
               /\ e.rules[r].indicator = d.rules[r].indicator
    <3>1. r <= m + 2 /\ r <= m + 1
      BY <2>1, <2>2
    <3>2. /\ r \in DOMAIN leave.rules /\ e.rules[r].block = leave.rules[r].block
          /\ e.rules[r].indicator = leave.rules[r].indicator
      BY <1>4, <3>1 DEF Redrawn
    <3>3. /\ r \in DOMAIN enter.rules /\ leave.rules[r].block = enter.rules[r].block
          /\ leave.rules[r].indicator = enter.rules[r].indicator
      BY <1>3, <3>1, <3>2 DEF Redrawn
    <3> QED  BY <1>1, <2>2, <3>2, <3>3 DEF Redrawn
  <2> QED  BY <1>2, <1>4, <2>2 DEF Redrawn
<1> QED  BY <1>5 DEF enter, leave

LEMMA EditDraws ==
  ASSUME IsDrawn(strategy, lastRule), lastRule \in Nat, EditStep
  PROVE  /\ Redrawn(strategy, lastRule, strategy', lastRule')
         /\ taken' = NothingTaken /\ UNCHANGED <<engine, split, sweep, ranked, swept>>
<1>0. strategy \in StrategyDefinition(DOMAIN strategy.rules)
  BY DEF IsDrawn
<1>1. ASSUME NEW new \in NewRules, AddRule(new[1], new[2], new[3])
      PROVE  Redrawn(strategy, lastRule, strategy', lastRule') /\ Edits(strategy')
  <2>1. NewRule(new[1], new[2], new[3]) \in Rules
    <3>1. new[1] \in Blocks /\ new[2] \in BOOLEAN /\ new[3] \in Indicators
      BY SweepAssumption
    <3> QED  BY <3>1, NewRuleIsOne
  <2>2. /\ lastRule' = lastRule + 1 /\ Edits(strategy')
        /\ strategy' = WithRule(strategy, lastRule + 1, NewRule(new[1], new[2], new[3]))
    BY <1>1 DEF AddRule, Edits, FreshId
  <2> QED  BY <2>1, <2>2, AddingDraws
<1>2. ASSUME NEW r \in DOMAIN strategy.rules, RemoveRule(r)
      PROVE  Redrawn(strategy, lastRule, strategy', lastRule') /\ Edits(strategy')
  BY <1>2, RemovingDraws DEF RemoveRule, Edits
<1>3. ASSUME NEW k \in DOMAIN strategy.rules \cup {Risk},
             ToggleOptimize(k) \/ (\E v \in Bounds : SetValue(k, v))
               \/ (\E range \in Typed : SetOptimizeRange(k, range))
      PROVE  Redrawn(strategy, lastRule, strategy', lastRule') /\ Edits(strategy')
  <2>1. ParamOf(strategy, k).value \in Nat
    <3>1. CASE k = Risk
      BY <1>0, <3>1 DEF ParamOf, StrategyDefinition
    <3>2. CASE k # Risk
      <4>1. strategy.rules[k] \in Rules
        BY <1>0, <3>2 DEF StrategyDefinition
      <4> QED  BY <3>2, <4>1 DEF ParamOf, Rules
    <3> QED  BY <3>1, <3>2
  <2>2. \A v \in Nat, marked \in Markings :
          /\ Redrawn(strategy, lastRule, SetParam(strategy, k, [ParamOf(strategy, k) EXCEPT !.value = v]), lastRule)
          /\ Redrawn(strategy, lastRule, SetParam(strategy, k, [ParamOf(strategy, k) EXCEPT !.marked = marked]), lastRule)
    BY ParamDraws
  <2>3. CASE ToggleOptimize(k)
    <3> DEFINE p == ParamOf(strategy, k)
               mark == IF p.marked = Unmarked THEN DefaultRange(p.value) ELSE Unmarked
    <3>1. mark \in Markings
      <4>1. DefaultRange(p.value) \in Markings
        <5> DEFINE v == p.value
        <5>1. v \in Nat
          BY <2>1
        <5> HIDE DEF v
        <5>2. v \div 2 \in Int /\ (3 * v + 1) \div 2 \in Int
          BY <5>1
        <5>3. DefaultRange(v) \in Markings
          BY <5>2, PairMarks DEF DefaultRange
        <5> QED  BY <5>3 DEF v
      <4> QED  BY <4>1, NoMarking
    <3>2. /\ strategy' = SetParam(strategy, k, [p EXCEPT !.marked = mark]) /\ lastRule' = lastRule
          /\ Edits(strategy')
      BY <2>3 DEF ToggleOptimize, Edits
    <3> HIDE DEF mark
    <3> QED  BY <2>2, <3>1, <3>2
  <2>4. ASSUME NEW v \in Bounds, SetValue(k, v)
        PROVE  Redrawn(strategy, lastRule, strategy', lastRule') /\ Edits(strategy')
    <3>1. v \in Nat
      BY SweepNumbers DEF Bounds
    <3>2. strategy' = SetParam(strategy, k, [ParamOf(strategy, k) EXCEPT !.value = v]) /\ lastRule' = lastRule
          /\ Edits(strategy')
      BY <2>4 DEF SetValue, Edits
    <3> QED  BY <2>2, <3>1, <3>2, NoMarking
  <2>5. ASSUME NEW range \in Typed, SetOptimizeRange(k, range)
        PROVE  Redrawn(strategy, lastRule, strategy', lastRule') /\ Edits(strategy')
    <3>1. range \in Markings
      <4>1. range \in Int \X Int
        BY SweepAssumption
      <4>2. range = <<range[1], range[2]>> /\ range[1] \in Int /\ range[2] \in Int
        BY <4>1
      <4> QED  BY <4>2, PairMarks
    <3>2. strategy' = SetParam(strategy, k, [ParamOf(strategy, k) EXCEPT !.marked = range]) /\ lastRule' = lastRule
          /\ Edits(strategy')
      BY <2>5 DEF SetOptimizeRange, Edits
    <3> QED  BY <2>2, <3>1, <3>2
  <2> QED  BY <1>3, <2>3, <2>4, <2>5
<1>4. ASSUME NEW i \in {"btc", "eth"}, ToggleInstrument(i)
      PROVE  Redrawn(strategy, lastRule, strategy', lastRule') /\ Edits(strategy')
  <2>1. \A on \in SUBSET {"btc", "eth"} :
          /\ [strategy EXCEPT !.active = on] \in StrategyDefinition(DOMAIN strategy.rules)
          /\ [strategy EXCEPT !.active = on].rules = strategy.rules
    BY <1>0 DEF StrategyDefinition
  <2>2. strategy.active \in SUBSET {"btc", "eth"}
    BY <1>0 DEF StrategyDefinition
  <2>3. PICK on \in SUBSET {"btc", "eth"} :
          strategy' = [strategy EXCEPT !.active = on] /\ lastRule' = lastRule /\ Edits(strategy')
    BY <1>4, <2>2 DEF ToggleInstrument, Edits
  <2> QED  BY <2>1, <2>3, FieldsDraw
<1>5. ASSUME UpdateAllocation
      PROVE  Redrawn(strategy, lastRule, strategy', lastRule') /\ Edits(strategy')
  <2>1. /\ strategy' \in StrategyDefinition(DOMAIN strategy.rules) /\ strategy'.rules = strategy.rules
        /\ lastRule' = lastRule /\ Edits(strategy')
    <3>1. CASE Edits([strategy EXCEPT !.ranked = ~@])
      BY <1>0, <1>5, <3>1 DEF UpdateAllocation, Edits, StrategyDefinition
    <3>2. ASSUME NEW n \in 1..2, Edits([strategy EXCEPT !.topN = n])
          PROVE  /\ strategy' \in StrategyDefinition(DOMAIN strategy.rules) /\ strategy'.rules = strategy.rules
                 /\ lastRule' = lastRule /\ Edits(strategy')
      BY <1>0, <1>5, <3>2 DEF UpdateAllocation, Edits, StrategyDefinition
    <3> QED  BY <1>5, <3>1, <3>2 DEF UpdateAllocation
  <2> QED  BY <2>1, FieldsDraw
<1>6. ASSUME NEW match \in {"all", "any"}, SetMatch(match)
      PROVE  Redrawn(strategy, lastRule, strategy', lastRule') /\ Edits(strategy')
  <2>1. /\ strategy' \in StrategyDefinition(DOMAIN strategy.rules) /\ strategy'.rules = strategy.rules
        /\ lastRule' = lastRule /\ Edits(strategy')
    BY <1>0, <1>6 DEF SetMatch, Edits, StrategyDefinition
  <2> QED  BY <2>1, FieldsDraw
<1>7. ASSUME NEW mode \in {"flat", "substrategy"}, SetRegimeElse(mode)
      PROVE  Redrawn(strategy, lastRule, strategy', lastRule') /\ Edits(strategy')
  <2>1. CASE mode = "substrategy" /\ ~strategy.branch
    <3> DEFINE enter == WithRule(strategy, lastRule + 1, NewRule("sub_entry", FALSE, "rsi"))
               leave == WithRule(enter, lastRule + 2, NewRule("sub_exit", FALSE, "rsi"))
               e == [leave EXCEPT !.regime = mode, !.branch = TRUE]
    <3>1. lastRule' = lastRule + 2 /\ Edits(e)
      BY <1>7, <2>1 DEF SetRegimeElse
    <3>2. Redrawn(strategy, lastRule, e, lastRule + 2)
      BY BranchDraws
    <3> HIDE DEF e
    <3>3. strategy' = e
      BY <3>1 DEF Edits
    <3> QED  BY <3>1, <3>2, <3>3
  <2>2. CASE ~(mode = "substrategy" /\ ~strategy.branch)
    <3>1. /\ strategy' \in StrategyDefinition(DOMAIN strategy.rules) /\ strategy'.rules = strategy.rules
          /\ lastRule' = lastRule /\ Edits(strategy')
      BY <1>0, <1>7, <2>2 DEF SetRegimeElse, Edits, StrategyDefinition
    <3> QED  BY <3>1, FieldsDraw
  <2> QED  BY <2>1, <2>2
<1>8. Redrawn(strategy, lastRule, strategy', lastRule') /\ Edits(strategy')
  BY <1>1, <1>2, <1>3, <1>4, <1>5, <1>6, <1>7 DEF EditStep
<1> QED  BY <1>8 DEF Edits, sweepSetting

-----------------------------------------------------------------------------
(* The inductive invariant.  What can be set on the definition that was     *)
(* swept, what the engine does not refuse, and how many folds are enough.   *)
Tryable == {p \in {sweep.grid[i] : i \in 1..Len(sweep.grid)} : Settable(sweep.base, p)}
Runnable == {p \in Tryable : ~EngineRefuses(p)}
Enough == {f \in FoldScores : Len(f) \in 1..split.folds /\ 5 * Len(f) >= 3 * split.folds}
Candidates == [point : Runnable, scores : Enough]
Tallies == [invalid : Nat, engineError : Nat, screenedOut : Nat, thinFolds : Nat]

RunInv ==
  /\ sweep \in [pc : {"off", "screen", "folds", "rank", "done", "failed"}, base : {sweep.base},
                grid : {sweep.grid}, n : Nat \ {0}, viable : Seq(Tryable), scored : Seq(Candidates),
                tally : Tallies]
  /\ Len(sweep.grid) \in Nat

(* A rule of the definition that was swept, if it is there yet, is the same.*)
BaseInv ==
  sweep.pc # "off" =>
    /\ IsDrawn(sweep.base, lastRule)
    /\ \A r \in DOMAIN strategy.rules : r \in DOMAIN sweep.base.rules =>
         /\ strategy.rules[r].block = sweep.base.rules[r].block
         /\ strategy.rules[r].indicator = sweep.base.rules[r].indicator

BooksInv ==
  LET t == sweep.tally
      out == t.invalid + t.engineError + t.screenedOut
  IN  /\ sweep.pc = "screen" => /\ sweep.n - 1 = out + Len(sweep.viable) /\ sweep.n <= Len(sweep.grid) + 1
                                /\ t.thinFolds = 0 /\ sweep.scored = <<>>
      /\ sweep.pc = "folds" => /\ Len(sweep.grid) = out + Len(sweep.viable)
                               /\ sweep.n - 1 = t.thinFolds + Len(sweep.scored)
                               /\ sweep.n <= Len(sweep.viable) + 1
      /\ sweep.pc \in {"rank", "done", "failed"} =>
           Len(sweep.grid) = out + t.thinFolds + Len(sweep.scored)

RankedInv == ranked = IF sweep.pc \in {"done", "failed"} THEN Ranking(sweep.scored) ELSE <<>>

TakenInv ==
  /\ taken \in [on : BOOLEAN, point : {taken.point}, before : {taken.before}]
  /\ taken.on => /\ sweep.pc = "done" /\ taken.point \in Tryable /\ IsDrawn(taken.before, lastRule)
                 /\ strategy = AppliedWhole(taken.before, taken.point)

SweepInv ==
  /\ lastRule \in Nat /\ IsDrawn(strategy, lastRule)
  /\ engine \in {"stub", "nautilus"} /\ split \in Splits
  /\ RunInv /\ BaseInv /\ BooksInv /\ RankedInv /\ TakenInv

LEMMA RankingKept ==
  ASSUME UNCHANGED split, sweep'.scored = sweep.scored
  PROVE  Ranking(sweep.scored)' = Ranking(sweep.scored)
<1>1. ASSUME NEW s  PROVE PenalizedScore(s)' = PenalizedScore(s)
  <2>1. Fine' = Fine
    BY DEF Fine
  <2>2. \A m : Root(m)' = Root(m)
    BY <2>1 DEF Root
  <2>3. Spread(s)' = Spread(s) /\ Sum(s)' = Sum(s)
    BY DEF Spread, Sum, Often
  <2> QED  BY <2>1, <2>2, <2>3 DEF PenalizedScore
<1> DEFINE worth == [i \in DOMAIN sweep.scored |-> PenalizedScore(sweep.scored[i].scores)]
<1>2. worth' = worth
  BY <1>1
<1> QED  BY <1>2 DEF Ranking

LEMMA RunKept ==
  ASSUME RunInv, UNCHANGED <<sweep, engine, split>>
  PROVE  RunInv' /\ Tryable' = Tryable
<1>1. sweep' = sweep /\ engine' = engine /\ split' = split
  OBVIOUS
<1>2. Tryable' = Tryable
  BY <1>1 DEF Tryable
<1>3. \A p : EngineRefuses(p)' = EngineRefuses(p)
  BY <1>1 DEF EngineRefuses, Trial
<1>4. Runnable' = Runnable
  BY <1>2, <1>3 DEF Runnable
<1>5. Enough' = Enough
  BY <1>1 DEF Enough
<1>6. Candidates' = Candidates
  BY <1>4, <1>5 DEF Candidates
<1>7. RunInv'
  BY <1>1, <1>2, <1>6 DEF RunInv
<1> QED  BY <1>2, <1>7

LEMMA DrawnLater ==
  ASSUME NEW d, NEW m \in Nat, IsDrawn(d, m), NEW n \in Nat, m <= n  PROVE IsDrawn(d, n)
BY DEF IsDrawn

(* A redrawn definition is still one of the definition that was swept.      *)
LEMMA BaseKept ==
  ASSUME SweepInv, Redrawn(strategy, lastRule, strategy', lastRule'), UNCHANGED sweep
  PROVE  BaseInv'
<1>1. lastRule \in Nat /\ lastRule' \in Nat /\ lastRule <= lastRule'
  BY DEF SweepInv, Redrawn
<1>2. SUFFICES ASSUME sweep.pc # "off"
               PROVE  /\ IsDrawn(sweep.base, lastRule')
                      /\ \A r \in DOMAIN strategy'.rules : r \in DOMAIN sweep.base.rules =>
                           /\ strategy'.rules[r].block = sweep.base.rules[r].block
                           /\ strategy'.rules[r].indicator = sweep.base.rules[r].indicator
  BY DEF BaseInv
<1>3. IsDrawn(sweep.base, lastRule)
  BY <1>2 DEF SweepInv, BaseInv
<1>4. ASSUME NEW r \in DOMAIN strategy'.rules, r \in DOMAIN sweep.base.rules
      PROVE  /\ strategy'.rules[r].block = sweep.base.rules[r].block
             /\ strategy'.rules[r].indicator = sweep.base.rules[r].indicator
  <2>1. r <= lastRule
    BY <1>1, <1>3, <1>4 DEF IsDrawn
  <2>2. /\ r \in DOMAIN strategy.rules /\ strategy'.rules[r].block = strategy.rules[r].block
        /\ strategy'.rules[r].indicator = strategy.rules[r].indicator
    BY <2>1, <1>4 DEF Redrawn
  <2> QED  BY <1>2, <1>4, <2>2 DEF SweepInv, BaseInv
<1> QED  BY <1>1, <1>3, <1>4, DrawnLater

LEMMA EditKeeps ==
  ASSUME SweepInv, EditStep  PROVE SweepInv'
<1>1. /\ Redrawn(strategy, lastRule, strategy', lastRule')
      /\ taken' = NothingTaken /\ UNCHANGED <<engine, split, sweep, ranked, swept>>
  BY EditDraws DEF SweepInv
<1>2. lastRule' \in Nat /\ IsDrawn(strategy', lastRule')
  BY <1>1 DEF Redrawn
<1>3. RunInv'
  BY <1>1, RunKept DEF SweepInv
<1>4. BaseInv'
  BY <1>1, BaseKept
<1>5. BooksInv'
  BY <1>1 DEF SweepInv, BooksInv
<1>6. RankedInv'
  BY <1>1, RankingKept DEF SweepInv, RankedInv
<1>7. TakenInv'
  BY <1>1 DEF TakenInv, NothingTaken
<1> QED  BY <1>1, <1>2, <1>3, <1>4, <1>5, <1>6, <1>7 DEF SweepInv

LEMMA StartKeeps ==
  ASSUME SweepInv, StartSweep  PROVE SweepInv'
<1>1. /\ sweep' = [NoSweep EXCEPT !.pc = "screen", !.base = strategy, !.grid = Grid(strategy)]
      /\ ranked' = <<>> /\ taken' = NothingTaken /\ UNCHANGED <<strategy, lastRule, engine, split>>
  BY DEF StartSweep, sweepSetting
<1>2. sweep' = [pc |-> "screen", base |-> strategy, grid |-> Grid(strategy), n |-> 1, viable |-> <<>>,
                scored |-> <<>>, tally |-> NoTally]
  BY <1>1 DEF NoSweep
<1>3. Len(Grid(strategy)) \in Nat
  BY GridIsSome DEF SweepInv
<1>4. RunInv'
  BY <1>2, <1>3, EmptySeq DEF RunInv, NoTally, Tallies
<1>5. BaseInv'
  BY <1>1, <1>2 DEF SweepInv, BaseInv
<1>6. BooksInv'
  BY <1>2, <1>3, EmptySeq DEF BooksInv, NoTally
<1>7. RankedInv' /\ TakenInv'
  BY <1>1, <1>2 DEF RankedInv, TakenInv, NothingTaken
<1> QED  BY <1>1, <1>4, <1>5, <1>6, <1>7 DEF SweepInv

(* What a run of a point comes to.                                          *)
LEMMA ScreenedIs ==
  ASSUME NEW point, NEW s \in Screened(sweep, point)
  PROVE  \/ \E what \in {"invalid", "engineError", "screenedOut"} : s = Tally(sweep, what)
         \/ s = Survives(sweep, point) /\ Settable(sweep.base, point)
<1>1. CASE ~Settable(sweep.base, point) \/ ~Compiles(Trial(point))
  BY <1>1 DEF Screened
<1>2. CASE Settable(sweep.base, point) /\ Compiles(Trial(point))
  <2>1. CASE split.inSample = 0
    BY <1>2, <2>1 DEF Screened
  <2>2. CASE split.inSample # 0 /\ (EngineRefuses(point) \/ ~Runs(0, ScreenEnd))
    BY <1>2, <2>2 DEF Screened
  <2>3. CASE split.inSample # 0 /\ ~(EngineRefuses(point) \/ ~Runs(0, ScreenEnd))
    BY <1>2, <2>3 DEF Screened
  <2> QED  BY <2>1, <2>2, <2>3
<1> QED  BY <1>1, <1>2

(* Nothing but the run of the sweep changes.                                *)
LEMMA BaseGoes ==
  ASSUME SweepInv, SweepGoes, sweep.pc # "off", sweep'.base = sweep.base  PROVE BaseInv'
BY DEF SweepInv, BaseInv, SweepGoes

LEMMA TryableGoes ==
  ASSUME sweep'.base = sweep.base, sweep'.grid = sweep.grid, UNCHANGED <<engine, split>>
  PROVE  Tryable' = Tryable /\ Candidates' = Candidates
<1>1. Tryable' = Tryable
  BY DEF Tryable
<1>2. \A p : EngineRefuses(p)' = EngineRefuses(p)
  BY DEF EngineRefuses, Trial
<1>3. Runnable' = Runnable
  BY <1>1, <1>2 DEF Runnable
<1>4. Enough' = Enough
  BY DEF Enough
<1> QED  BY <1>1, <1>3, <1>4 DEF Candidates

(* The points that are out before the folds.                                *)
Out(t) == t.invalid + t.engineError + t.screenedOut

LEMMA TalliedOnce ==
  ASSUME NEW t \in Tallies
  PROVE  /\ Out(t) \in Nat
         /\ \A what \in {"invalid", "engineError", "screenedOut"} :
              LET u == [t EXCEPT ![what] = @ + 1]
              IN  u \in Tallies /\ u.thinFolds = t.thinFolds /\ Out(u) = Out(t) + 1
         /\ LET u == [t EXCEPT !.thinFolds = @ + 1]
            IN  u \in Tallies /\ u.thinFolds = t.thinFolds + 1 /\ Out(u) = Out(t)
<1>1. t.invalid \in Nat /\ t.engineError \in Nat /\ t.screenedOut \in Nat /\ t.thinFolds \in Nat
  BY DEF Tallies
<1>2. t = [invalid |-> t.invalid, engineError |-> t.engineError, screenedOut |-> t.screenedOut,
           thinFolds |-> t.thinFolds]
  BY DEF Tallies
<1>3. ASSUME NEW what \in {"invalid", "engineError", "screenedOut"}, NEW u, u = [t EXCEPT ![what] = @ + 1]
      PROVE  u \in Tallies /\ u.thinFolds = t.thinFolds /\ Out(u) = Out(t) + 1
  <2>1. CASE what = "invalid"
    <3>1. u = [invalid |-> t.invalid + 1, engineError |-> t.engineError, screenedOut |-> t.screenedOut,
               thinFolds |-> t.thinFolds]
      BY <1>2, <1>3, <2>1
    <3> QED  BY <1>1, <3>1 DEF Tallies, Out
  <2>2. CASE what = "engineError"
    <3>1. u = [invalid |-> t.invalid, engineError |-> t.engineError + 1, screenedOut |-> t.screenedOut,
               thinFolds |-> t.thinFolds]
      BY <1>2, <1>3, <2>2
    <3> QED  BY <1>1, <3>1 DEF Tallies, Out
  <2>3. CASE what = "screenedOut"
    <3>1. u = [invalid |-> t.invalid, engineError |-> t.engineError, screenedOut |-> t.screenedOut + 1,
               thinFolds |-> t.thinFolds]
      BY <1>2, <1>3, <2>3
    <3> QED  BY <1>1, <3>1 DEF Tallies, Out
  <2> QED  BY <2>1, <2>2, <2>3
<1>4. ASSUME NEW u, u = [t EXCEPT !.thinFolds = @ + 1]
      PROVE  u \in Tallies /\ u.thinFolds = t.thinFolds + 1 /\ Out(u) = Out(t)
  <2>1. u = [invalid |-> t.invalid, engineError |-> t.engineError, screenedOut |-> t.screenedOut,
             thinFolds |-> t.thinFolds + 1]
    BY <1>2, <1>4
  <2> QED  BY <1>1, <2>1 DEF Tallies, Out
<1>5. Out(t) \in Nat
  BY <1>1 DEF Out
<1> QED  BY <1>3, <1>4, <1>5

LEMMA ScreenKeeps ==
  ASSUME SweepInv, Screen  PROVE SweepInv'
<1>1. /\ sweep.pc = "screen" /\ SweepGoes
      /\ UNCHANGED <<strategy, lastRule, engine, split, ranked, taken, edited, swept>>
  BY DEF Screen, SweepGoes, sweepSetting
<1>2. /\ sweep.n \in Nat \ {0} /\ Len(sweep.grid) \in Nat /\ sweep.viable \in Seq(Tryable)
      /\ Len(sweep.viable) \in Nat /\ sweep.scored = <<>> /\ sweep.tally \in Tallies
      /\ sweep.n - 1 = Out(sweep.tally) + Len(sweep.viable) /\ Out(sweep.tally) \in Nat
      /\ sweep.n <= Len(sweep.grid) + 1 /\ sweep.tally.thinFolds = 0
  BY <1>1, LenProperties, TalliedOnce DEF SweepInv, RunInv, BooksInv, Out
<1>3. sweep \in [pc : {"screen"}, base : {sweep.base}, grid : {sweep.grid}, n : Nat \ {0},
                 viable : {sweep.viable}, scored : {<<>>}, tally : Tallies]
  BY <1>1, <1>2 DEF SweepInv, RunInv
<1>4. ranked = <<>> /\ ~taken.on
  BY <1>1 DEF SweepInv, RankedInv, TakenInv
<1>5. /\ sweep'.base = sweep.base /\ sweep'.grid = sweep.grid /\ sweep'.scored = <<>>
      /\ sweep'.pc \in {"screen", "folds"} /\ RunInv' /\ BooksInv'
  <2>1. CASE sweep.n > Len(sweep.grid)
    <3>1. sweep' = [pc |-> "folds", base |-> sweep.base, grid |-> sweep.grid, n |-> 1,
                    viable |-> sweep.viable, scored |-> <<>>, tally |-> sweep.tally]
      BY <1>1, <1>3, <2>1 DEF Screen
    <3>2. Tryable' = Tryable /\ Candidates' = Candidates
      BY <1>1, <3>1, TryableGoes
    <3>3. RunInv'
      BY <1>2, <3>1, <3>2, EmptySeq DEF RunInv
    <3>4. BooksInv'
      <4>1. Len(sweep.grid) = Out(sweep.tally) + Len(sweep.viable) /\ Len(<<>>) = 0
        BY <1>2, <2>1, EmptySeq
      <4> QED  BY <1>2, <3>1, <4>1 DEF BooksInv, Out
    <3> QED  BY <3>1, <3>3, <3>4
  <2>2. CASE ~(sweep.n > Len(sweep.grid))
    <3> DEFINE point == sweep.grid[sweep.n]
    <3>1. PICK s \in Screened(sweep, point) : sweep' = [s EXCEPT !.n = @ + 1]
      BY <1>1, <2>2 DEF Screen
    <3>2. sweep.n \in 1..Len(sweep.grid)
      BY <1>2, <2>2
    <3>3. ASSUME NEW what \in {"invalid", "engineError", "screenedOut"}, s = Tally(sweep, what)
          PROVE  /\ sweep'.base = sweep.base /\ sweep'.grid = sweep.grid /\ sweep'.scored = <<>>
                 /\ sweep'.pc \in {"screen", "folds"} /\ RunInv' /\ BooksInv'
      <4>0. sweep.n \in Nat /\ Len(sweep.grid) \in Nat /\ Len(sweep.viable) \in Nat /\ Out(sweep.tally) \in Nat
            /\ sweep.n - 1 = Out(sweep.tally) + Len(sweep.viable)
        BY <1>2
      <4> DEFINE t == [sweep.tally EXCEPT ![what] = @ + 1]
      <4>1. sweep' = [pc |-> "screen", base |-> sweep.base, grid |-> sweep.grid, n |-> sweep.n + 1,
                      viable |-> sweep.viable, scored |-> <<>>, tally |-> t]
        <5> HIDE DEF point
        <5> QED  BY <1>3, <3>1, <3>3 DEF Tally
      <4>2. t \in Tallies /\ t.thinFolds = sweep.tally.thinFolds /\ Out(t) = Out(sweep.tally) + 1
        BY <1>2, TalliedOnce
      <4> HIDE DEF t
      <4>4. Tryable' = Tryable /\ Candidates' = Candidates
        BY <1>1, <4>1, TryableGoes
      <4>5. RunInv'
        BY <1>2, <4>1, <4>2, <4>4, EmptySeq DEF RunInv
      <4>6. BooksInv'
        <5>1. sweep.n + 1 - 1 = Out(t) + Len(sweep.viable)
              /\ sweep.n + 1 <= Len(sweep.grid) + 1
          BY <3>2, <4>0, <4>2
        <5>2. /\ sweep'.pc = "screen" /\ sweep'.n = sweep.n + 1 /\ sweep'.viable = sweep.viable
              /\ sweep'.grid = sweep.grid /\ sweep'.scored = <<>> /\ sweep'.tally = t /\ t.thinFolds = 0
          BY <1>2, <4>1, <4>2
        <5> QED  BY <4>0, <5>1, <5>2 DEF BooksInv, Out
      <4> QED  BY <4>1, <4>5, <4>6
    <3>4. ASSUME s = Survives(sweep, point), Settable(sweep.base, point)
          PROVE  /\ sweep'.base = sweep.base /\ sweep'.grid = sweep.grid /\ sweep'.scored = <<>>
                 /\ sweep'.pc \in {"screen", "folds"} /\ RunInv' /\ BooksInv'
      <4>0. sweep.n \in Nat /\ Len(sweep.grid) \in Nat /\ Len(sweep.viable) \in Nat /\ Out(sweep.tally) \in Nat
            /\ sweep.n - 1 = Out(sweep.tally) + Len(sweep.viable)
        BY <1>2
      <4> DEFINE v == Append(sweep.viable, point)
      <4>1. sweep' = [pc |-> "screen", base |-> sweep.base, grid |-> sweep.grid, n |-> sweep.n + 1,
                      viable |-> v, scored |-> <<>>, tally |-> sweep.tally]
        <5> HIDE DEF point
        <5> QED  BY <1>3, <3>1, <3>4 DEF Survives
      <4>2. point \in Tryable
        BY <3>2, <3>4 DEF Tryable
      <4> HIDE DEF point
      <4>3. v \in Seq(Tryable) /\ Len(v) = Len(sweep.viable) + 1
        BY <1>2, <4>2, AppendProperties
      <4> HIDE DEF v
      <4>4. Tryable' = Tryable /\ Candidates' = Candidates
        BY <1>1, <4>1, TryableGoes
      <4>5. RunInv'
        BY <1>2, <4>1, <4>3, <4>4, EmptySeq DEF RunInv
      <4>6. BooksInv'
        <5>2. sweep.n + 1 - 1 = Out(sweep.tally) + Len(v)
              /\ sweep.n + 1 <= Len(sweep.grid) + 1
          BY <3>2, <4>0, <4>3
        <5>3. /\ sweep'.pc = "screen" /\ sweep'.n = sweep.n + 1 /\ sweep'.viable = v
              /\ sweep'.grid = sweep.grid /\ sweep'.scored = <<>> /\ sweep'.tally = sweep.tally
          BY <4>1
        <5> QED  BY <1>2, <5>2, <5>3 DEF BooksInv, Out
      <4> QED  BY <4>1, <4>5, <4>6
    <3> HIDE DEF point
    <3> QED  BY <3>1, <3>3, <3>4, ScreenedIs
  <2> QED  BY <2>1, <2>2
<1>6. BaseInv'
  BY <1>1, <1>5, BaseGoes
<1>7. RankedInv' /\ TakenInv'
  BY <1>1, <1>4, <1>5 DEF SweepInv, RankedInv, TakenInv
<1> QED  BY <1>1, <1>5, <1>6, <1>7 DEF SweepInv

(* The scores of a point that is not refused, if they are enough.           *)
LEMMA ScoresAreEnough ==
  ASSUME split \in Splits, NEW point \in Tryable, NEW scores \in FoldOutcomes(point), ~Thin(scores)
  PROVE  point \in Runnable /\ scores \in Enough
<1>1. split.folds \in Nat /\ split.folds >= 2 /\ FoldScores \subseteq Seq(0..2)
  BY SweepAssumption
<1>2. scores \in FoldScores /\ scores # <<>> /\ 5 * Len(scores) >= 3 * split.folds
      /\ Len(scores) \in Nat /\ Len(scores) # 0
  <2>1. scores \in FoldScores /\ scores \in Seq(0..2)
    BY <1>1 DEF FoldOutcomes
  <2>2. scores # <<>> /\ ~(5 * Len(scores) < 3 * split.folds)
    BY DEF Thin
  <2>3. Len(scores) \in Nat /\ Len(scores) # 0
    BY <2>1, <2>2, EmptySeq
  <2> QED  BY <1>1, <2>1, <2>2, <2>3
<1>3. ~EngineRefuses(point)
  <2> SUFFICES ASSUME EngineRefuses(point)  PROVE FALSE
    OBVIOUS
  <2>1. Len(scores) <= 0
    BY DEF FoldOutcomes
  <2> QED  BY <1>2, <2>1
<1>4. Len(scores) <= split.folds
  <2>1. Len(scores) <= Cardinality(UsableFolds)
    BY <1>3 DEF FoldOutcomes
  <2>2. IsFiniteSet(1..split.folds) /\ Cardinality(1..split.folds) = split.folds
    <3>1. 1 \in Int /\ split.folds \in Int
      BY <1>1
    <3>2. IsFiniteSet(1..split.folds)
          /\ Cardinality(1..split.folds) = IF 1 > split.folds THEN 0 ELSE split.folds - 1 + 1
      BY <3>1, FS_Interval
    <3> QED  BY <1>1, <3>2
  <2>3. UsableFolds \subseteq 1..split.folds
    BY DEF UsableFolds
  <2>4. Cardinality(UsableFolds) <= split.folds /\ Cardinality(UsableFolds) \in Nat
    BY <2>2, <2>3, FS_Subset, FS_CardinalityType
  <2> QED  BY <1>1, <1>2, <2>1, <2>4
<1>5. Len(scores) \in 1..split.folds
  BY <1>1, <1>2, <1>4
<1> QED  BY <1>2, <1>3, <1>5 DEF Runnable, Enough

LEMMA ScoreKeeps ==
  ASSUME SweepInv, Score  PROVE SweepInv'
<1>1. /\ sweep.pc = "folds" /\ SweepGoes
      /\ UNCHANGED <<strategy, lastRule, engine, split, ranked, taken, edited, swept>>
  BY DEF Score, SweepGoes, sweepSetting
<1>2. /\ sweep.n \in Nat \ {0} /\ Len(sweep.grid) \in Nat /\ sweep.viable \in Seq(Tryable)
      /\ sweep.scored \in Seq(Candidates) /\ sweep.tally \in Tallies
  BY <1>1 DEF SweepInv, RunInv
<1>3. /\ sweep.n \in Nat /\ Len(sweep.grid) \in Nat /\ Len(sweep.viable) \in Nat /\ Len(sweep.scored) \in Nat /\ sweep.tally.thinFolds \in Nat
      /\ Out(sweep.tally) \in Nat /\ Len(sweep.grid) = Out(sweep.tally) + Len(sweep.viable)
      /\ sweep.n - 1 = sweep.tally.thinFolds + Len(sweep.scored) /\ sweep.n <= Len(sweep.viable) + 1
  BY <1>1, <1>2, LenProperties, TalliedOnce DEF SweepInv, BooksInv, Out, Tallies
<1>4. sweep \in [pc : {"folds"}, base : {sweep.base}, grid : {sweep.grid}, n : Nat \ {0},
                 viable : {sweep.viable}, scored : {sweep.scored}, tally : Tallies]
  BY <1>1, <1>2 DEF SweepInv, RunInv
<1>5. ranked = <<>> /\ ~taken.on
  BY <1>1 DEF SweepInv, RankedInv, TakenInv
<1>6. /\ sweep'.base = sweep.base /\ sweep'.grid = sweep.grid /\ sweep'.pc \in {"folds", "rank"}
      /\ RunInv' /\ BooksInv'
  <2>1. CASE sweep.n > Len(sweep.viable)
    <3>1. sweep' = [pc |-> "rank", base |-> sweep.base, grid |-> sweep.grid, n |-> sweep.n,
                    viable |-> sweep.viable, scored |-> sweep.scored, tally |-> sweep.tally]
      BY <1>1, <1>4, <2>1 DEF Score
    <3>2. Tryable' = Tryable /\ Candidates' = Candidates
      BY <1>1, <3>1, TryableGoes
    <3>3. RunInv'
      BY <1>2, <3>1, <3>2 DEF RunInv
    <3>4. BooksInv'
      <4>1. Len(sweep.grid) = Out(sweep.tally) + sweep.tally.thinFolds + Len(sweep.scored)
        <5> DEFINE n == sweep.n    thin == sweep.tally.thinFolds
                   out == Out(sweep.tally)    all == Len(sweep.grid)
                   through == Len(sweep.viable)    kept == Len(sweep.scored)
        <5>1. /\ n \in Nat /\ thin \in Nat /\ out \in Nat /\ all \in Nat /\ through \in Nat /\ kept \in Nat
              /\ all = out + through /\ n - 1 = thin + kept /\ n <= through + 1 /\ n > through
          BY <1>3, <2>1
        <5> HIDE DEF n, thin, out, all, through, kept
        <5>2. all = out + thin + kept
          BY <5>1
        <5> QED  BY <5>2 DEF thin, out, all, kept
      <4> QED  BY <3>1, <4>1 DEF BooksInv, Out
    <3> QED  BY <3>1, <3>3, <3>4
  <2>2. CASE ~(sweep.n > Len(sweep.viable))
    <3> DEFINE point == sweep.viable[sweep.n]
    <3>1. PICK scores \in FoldOutcomes(point) : sweep' = [WithScores(sweep, point, scores) EXCEPT !.n = @ + 1]
      BY <1>1, <2>2 DEF Score
    <3>2. sweep.n \in 1..Len(sweep.viable) /\ point \in Tryable
      <4>1. sweep.n \in 1..Len(sweep.viable)
        BY <1>3, <2>2
      <4> QED  BY <1>2, <4>1, ElementOfSeq
    <3> HIDE DEF point
    <3>3. CASE Thin(scores)
      <4> DEFINE t == [sweep.tally EXCEPT !.thinFolds = @ + 1]
      <4>1. sweep' = [pc |-> "folds", base |-> sweep.base, grid |-> sweep.grid, n |-> sweep.n + 1,
                      viable |-> sweep.viable, scored |-> sweep.scored, tally |-> t]
        BY <1>4, <3>1, <3>3 DEF WithScores, Tally
      <4>2. t \in Tallies /\ t.thinFolds = sweep.tally.thinFolds + 1 /\ Out(t) = Out(sweep.tally)
        BY <1>2, TalliedOnce
      <4> HIDE DEF t
      <4>3. Tryable' = Tryable /\ Candidates' = Candidates
        BY <1>1, <4>1, TryableGoes
      <4>4. RunInv'
        BY <1>2, <4>1, <4>2, <4>3 DEF RunInv
      <4>5. BooksInv'
        <5>1. /\ Len(sweep.grid) = Out(t) + Len(sweep.viable)
              /\ sweep.n + 1 - 1 = t.thinFolds + Len(sweep.scored) /\ sweep.n + 1 <= Len(sweep.viable) + 1
          <6> DEFINE n == sweep.n    thin == sweep.tally.thinFolds
                     through == Len(sweep.viable)    kept == Len(sweep.scored)
          <6>1. /\ n \in Nat /\ thin \in Nat /\ through \in Nat /\ kept \in Nat
                /\ n - 1 = thin + kept /\ n \in 1..through
            BY <1>3, <3>2
          <6> HIDE DEF n, thin, through, kept
          <6>2. n + 1 - 1 = thin + 1 + kept /\ n + 1 <= through + 1
            BY <6>1
          <6> QED  BY <1>3, <6>2, <4>2 DEF n, thin, through, kept
        <5>2. /\ sweep'.pc = "folds" /\ sweep'.n = sweep.n + 1 /\ sweep'.viable = sweep.viable
              /\ sweep'.grid = sweep.grid /\ sweep'.scored = sweep.scored /\ sweep'.tally = t
          BY <4>1
        <5> QED  BY <1>3, <5>1, <5>2 DEF BooksInv, Out
      <4> QED  BY <4>1, <4>4, <4>5
    <3>4. CASE ~Thin(scores)
      <4> DEFINE c == [point |-> point, scores |-> scores]
                 more == Append(sweep.scored, c)
      <4>1. sweep' = [pc |-> "folds", base |-> sweep.base, grid |-> sweep.grid, n |-> sweep.n + 1,
                      viable |-> sweep.viable, scored |-> more, tally |-> sweep.tally]
        BY <1>4, <3>1, <3>4 DEF WithScores
      <4>2. c \in Candidates
        BY <3>2, <3>4, ScoresAreEnough DEF SweepInv, Candidates
      <4> HIDE DEF c
      <4>3. more \in Seq(Candidates) /\ Len(more) = Len(sweep.scored) + 1
        BY <1>2, <4>2, AppendProperties
      <4> HIDE DEF more
      <4>4. Tryable' = Tryable /\ Candidates' = Candidates
        BY <1>1, <4>1, TryableGoes
      <4>5. RunInv'
        BY <1>2, <4>1, <4>3, <4>4 DEF RunInv
      <4>6. BooksInv'
        <5>1. /\ sweep.n + 1 - 1 = sweep.tally.thinFolds + Len(more) /\ sweep.n + 1 <= Len(sweep.viable) + 1
          <6> DEFINE n == sweep.n    thin == sweep.tally.thinFolds
                     through == Len(sweep.viable)    kept == Len(sweep.scored)
          <6>1. /\ n \in Nat /\ thin \in Nat /\ through \in Nat /\ kept \in Nat
                /\ n - 1 = thin + kept /\ n \in 1..through
            BY <1>3, <3>2
          <6> HIDE DEF n, thin, through, kept
          <6>2. n + 1 - 1 = thin + (kept + 1) /\ n + 1 <= through + 1
            BY <6>1
          <6> QED  BY <1>3, <6>2, <4>3 DEF n, thin, through, kept
        <5>2. /\ sweep'.pc = "folds" /\ sweep'.n = sweep.n + 1 /\ sweep'.viable = sweep.viable
              /\ sweep'.grid = sweep.grid /\ sweep'.scored = more /\ sweep'.tally = sweep.tally
          BY <4>1
        <5> QED  BY <1>3, <5>1, <5>2 DEF BooksInv, Out
      <4> QED  BY <4>1, <4>5, <4>6
    <3> QED  BY <3>3, <3>4
  <2> QED  BY <2>1, <2>2
<1>7. BaseInv'
  BY <1>1, <1>6, BaseGoes
<1>8. RankedInv' /\ TakenInv'
  BY <1>1, <1>5, <1>6 DEF SweepInv, RankedInv, TakenInv
<1> QED  BY <1>1, <1>6, <1>7, <1>8 DEF SweepInv

-----------------------------------------------------------------------------
(* Products of numbers.                                                     *)
LEMMA TimesLeq ==
  ASSUME NEW x \in Int, NEW y \in Int, NEW z \in Nat, x <= y
  PROVE  x * z <= y * z /\ z * x <= z * y
<1>1. (y - x) * z >= 0
  OBVIOUS
<1>2. (y - x) * z = y * z - x * z
  OBVIOUS
<1>3. z * x = x * z /\ z * y = y * z
  OBVIOUS
<1>4. x * z \in Int /\ y * z \in Int
  OBVIOUS
<1> QED  BY <1>1, <1>2, <1>3, <1>4

LEMMA TimesLess ==
  ASSUME NEW x \in Int, NEW y \in Int, NEW z \in Nat \ {0}, x * z < y * z
  PROVE  x < y
<1> SUFFICES ASSUME y <= x  PROVE FALSE
  OBVIOUS
<1>1. y * z <= x * z
  BY TimesLeq
<1> QED  BY <1>1

LEMMA SquaresGrow ==
  ASSUME NEW x \in Nat, NEW y \in Nat
  PROVE  /\ x <= y => x * x <= y * y
         /\ x < y => x * x < y * y
         /\ x * x < y * y => x < y
         /\ x * x <= y * y => x <= y
<1>1. ASSUME NEW a \in Nat, NEW b \in Nat, a <= b  PROVE a * a <= b * b
  <2>1. a * a <= a * b /\ a * b <= b * b
    BY <1>1, TimesLeq
  <2> QED  BY <2>1
<1>2. ASSUME NEW a \in Nat, NEW b \in Nat, a < b  PROVE a * a < b * b
  <2>1. a * a <= a * b /\ (a + 1) * b <= b * b
    BY <1>2, TimesLeq
  <2>2. (a + 1) * b = a * b + b
    OBVIOUS
  <2> QED  BY <1>2, <2>1, <2>2
<1>3. x * x \in Int /\ y * y \in Int
  OBVIOUS
<1> QED  BY <1>1, <1>2, <1>3

(* What is divided by more than it is smaller comes out smaller.            *)
LEMMA QuotientsApart ==
  ASSUME NEW A \in Int, NEW B \in Int, NEW na \in Nat \ {0}, NEW nb \in Nat \ {0},
         nb * A >= na * B + na * nb
  PROVE  A \div na \in Int /\ B \div nb \in Int /\ A \div na > B \div nb
<1> DEFINE qa == A \div na    qb == B \div nb
<1>1. qa \in Int /\ qb \in Int
  OBVIOUS
<1>2. A < na * (qa + 1) /\ nb * qb <= B
  OBVIOUS
<1> HIDE DEF qa, qb
<1>3. nb * A < nb * (na * (qa + 1)) /\ na * (nb * qb) <= na * B
  <2>1. A + 1 <= na * (qa + 1) /\ na * (qa + 1) \in Int /\ A + 1 \in Int /\ nb * qb \in Int
    BY <1>1, <1>2
  <2>2. nb * (A + 1) <= nb * (na * (qa + 1)) /\ na * (nb * qb) <= na * B
    BY <1>2, <2>1, TimesLeq
  <2>3. nb * (A + 1) = nb * A + nb
    OBVIOUS
  <2>4. nb * A \in Int /\ nb * (na * (qa + 1)) \in Int
    BY <2>1
  <2> QED  BY <2>2, <2>3, <2>4
<1>4. nb * (na * (qa + 1)) = (na * nb) * qa + na * nb /\ na * (nb * qb) = (na * nb) * qb
  BY <1>1
<1>5. qb * (na * nb) < qa * (na * nb)
  <2>1. nb * A \in Int /\ na * B \in Int /\ na * nb \in Int
    OBVIOUS
  <2>2. (na * nb) * qa \in Int /\ (na * nb) * qb \in Int
        /\ (na * nb) * qa = qa * (na * nb) /\ (na * nb) * qb = qb * (na * nb)
    BY <1>1
  <2> QED  BY <1>3, <1>4, <2>1, <2>2
<1>6. na * nb \in Nat \ {0}
  OBVIOUS
<1>7. qa > qb
  BY <1>1, <1>5, <1>6, TimesLess
<1> QED  BY <1>1, <1>7 DEF qa, qb

(* A whole root of k * k * m, where k is the precision.                     *)
LEMMA RootThereIs ==
  ASSUME NEW k \in Nat \ {0}, NEW m \in Nat
  PROVE  \E r \in 0..k * m : r * r <= k * k * m /\ k * k * m < (r + 1) * (r + 1)
<1> DEFINE s == k * k * m
           S == {r \in Nat : s < (r + 1) * (r + 1)}
<1>1. s \in Nat /\ k * m \in Nat
  OBVIOUS
<1>2. s <= (k * m) * (k * m)
  <2>1. CASE m = 0
    BY <2>1
  <2>2. CASE m # 0
    <3>1. (k * k) * m \in Nat
      OBVIOUS
    <3>2. (k * k) * m * 1 <= (k * k) * m * m
      BY <2>2, <3>1, TimesLeq
    <3>3. (k * k) * m * m = (k * m) * (k * m) /\ (k * k) * m * 1 = k * k * m
      OBVIOUS
    <3> QED  BY <3>2, <3>3
  <2> QED  BY <2>1, <2>2
<1>3. (k * m) \in S
  <2> HIDE DEF s
  <2>1. (k * m) * (k * m) < (k * m + 1) * (k * m + 1)
    BY <1>1, SquaresGrow
  <2> QED  BY <1>1, <1>2, <2>1
<1>4. PICK r \in S : \A y \in S : r <= y
  BY <1>3, SmallestIsOne
<1>5. r \in 0..k * m
  BY <1>1, <1>3, <1>4
<1>6. r * r <= s
  <2> HIDE DEF s
  <2>1. CASE r = 0
    BY <1>1, <2>1
  <2>2. CASE r # 0
    <3>1. r - 1 \in Nat /\ r - 1 \notin S
      BY <1>4, <2>2
    <3>2. ~(s < (r - 1 + 1) * (r - 1 + 1)) /\ r - 1 + 1 = r
      BY <3>1
    <3>3. ~(s < r * r) /\ r * r \in Nat
      BY <1>4, <3>2
    <3> QED  BY <1>1, <3>3
  <2> QED  BY <2>1, <2>2
<1> QED  BY <1>4, <1>5, <1>6

(* The precision is enough: less spread over as many scores, in the whole   *)
(* numbers the roots are rounded to, is a smaller deviation by as much as   *)
(* rounding the score can take away.                                        *)
LEMMA PreciseEnough ==
  ASSUME NEW F \in Nat, F >= 2, NEW na \in 1..F, NEW nb \in 1..F
  PROVE  (na * nb + na) * (2 * (na * nb) + 1) <= 4 * F * F * F * F
<1> DEFINE g == na * nb + na    w == 2 * (na * nb) + 1    ff == F * F
<1>1. na * nb <= ff /\ na * nb \in Nat /\ ff \in Nat
  <2>1. na * nb <= na * F /\ na * F <= F * F
    BY TimesLeq
  <2>2. na * nb \in Nat /\ na * F \in Nat /\ F * F \in Nat
    OBVIOUS
  <2> QED  BY <2>1, <2>2
<1>2. g \in Nat /\ w \in Nat /\ g <= ff + F /\ w <= 2 * ff + 1
  <2> HIDE DEF ff
  <2> QED  BY <1>1
<1>3. 2 * F <= ff /\ 4 <= ff
  <2>1. 2 * F <= F * F /\ 2 * 2 <= F * 2
    BY TimesLeq
  <2> QED  BY <2>1
<1> HIDE DEF g, w
<1>4. g * w <= (ff + F) * (2 * ff + 1)
  <2> HIDE DEF ff
  <2>1. g * w <= (ff + F) * w /\ (ff + F) * w <= (ff + F) * (2 * ff + 1)
    BY <1>1, <1>2, TimesLeq
  <2>2. g * w \in Int /\ (ff + F) * w \in Int /\ (ff + F) * (2 * ff + 1) \in Int
    BY <1>1, <1>2
  <2> QED  BY <2>1, <2>2
<1>5. (ff + F) * (2 * ff + 1) <= 4 * (ff * ff)
  <2> HIDE DEF ff
  <2>1. (ff + F) * (2 * ff + 1) = 2 * (ff * ff) + ff * (2 * F) + ff + F
    BY <1>1
  <2>2. ff * (2 * F) <= ff * ff /\ 4 * ff <= ff * ff
    BY <1>1, <1>3, TimesLeq
  <2>3. ff * ff \in Int /\ ff * (2 * F) \in Int
    BY <1>1
  <2> QED  BY <1>1, <1>3, <2>1, <2>2, <2>3
<1>6. 4 * (ff * ff) = 4 * F * F * F * F
  OBVIOUS
<1>7. g * w \in Int /\ (ff + F) * (2 * ff + 1) \in Int /\ 4 * (ff * ff) \in Int
  <2> HIDE DEF ff
  <2> QED  BY <1>1, <1>2
<1> HIDE DEF ff
<1>8. g * w <= 4 * F * F * F * F
  BY <1>4, <1>5, <1>6, <1>7
<1> QED  BY <1>8 DEF g, w

LEMMA RootsApart ==
  ASSUME NEW K \in Nat \ {0}, NEW na \in Nat \ {0}, NEW nb \in Nat \ {0},
         NEW Pa \in Nat, NEW Pb \in Nat, NEW Ra \in Nat, NEW Rb \in Nat,
         (na * nb + na) * (2 * (na * nb) + 1) <= K,
         Pa <= na * na, Pa * nb * nb < Pb * na * na,
         Ra * Ra <= K * K * Pa, K * K * Pb < (Rb + 1) * (Rb + 1)
  PROVE  Ra * nb + na * nb <= Rb * na
<1> DEFINE g == na * nb + na    m == na * nb    X == Ra * nb    Y == (Rb + 1) * na
           P == Pa * nb * nb    Q == Pb * na * na    kk == K * K
<1>1. /\ g \in Nat \ {0} /\ m \in Nat \ {0} /\ X \in Nat /\ Y \in Nat
      /\ P \in Nat /\ Q \in Nat /\ kk \in Nat \ {0}
  OBVIOUS
<1>2. X * X <= kk * P
  <2>1. Ra * Ra * (nb * nb) <= K * K * Pa * (nb * nb)
    <3>1. Ra * Ra \in Int /\ K * K * Pa \in Int /\ nb * nb \in Nat
      OBVIOUS
    <3> QED  BY <3>1, TimesLeq
  <2>2. Ra * Ra * (nb * nb) = X * X
    OBVIOUS
  <2>3. K * K * Pa * (nb * nb) = kk * P
    OBVIOUS
  <2> QED  BY <2>1, <2>2, <2>3
<1>3. kk * Q < Y * Y
  <2>1. (K * K * Pb + 1) * (na * na) <= (Rb + 1) * (Rb + 1) * (na * na)
    <3>1. K * K * Pb + 1 \in Int /\ (Rb + 1) * (Rb + 1) \in Int /\ na * na \in Nat
          /\ K * K * Pb + 1 <= (Rb + 1) * (Rb + 1)
      OBVIOUS
    <3> QED  BY <3>1, TimesLeq
  <2>2. (K * K * Pb + 1) * (na * na) = kk * Q + na * na
    OBVIOUS
  <2>3. (Rb + 1) * (Rb + 1) * (na * na) = Y * Y
    OBVIOUS
  <2>4. na * na > 0 /\ na * na \in Int /\ kk * Q \in Int /\ Y * Y \in Int
    BY <1>1
  <2> HIDE DEF kk, Q, Y
  <2> QED  BY <2>1, <2>2, <2>3, <2>4
<1>4. X <= K * m
  <2>1. Ra <= K * na
    <3>1. K * K * Pa <= K * K * (na * na)
      <4>1. K * K \in Nat /\ na * na \in Int
        OBVIOUS
      <4> QED  BY <4>1, TimesLeq
    <3>2. K * K * (na * na) = (K * na) * (K * na) /\ K * na \in Nat /\ Ra * Ra \in Int
          /\ K * K * Pa \in Int /\ (K * na) * (K * na) \in Int
      OBVIOUS
    <3>3. Ra * Ra <= (K * na) * (K * na)
      BY <3>1, <3>2
    <3> QED  BY <3>2, <3>3, SquaresGrow
  <2>2. Ra * nb <= K * na * nb
    <3>1. K * na \in Int
      OBVIOUS
    <3> QED  BY <2>1, <3>1, TimesLeq
  <2>3. K * na * nb = K * m
    OBVIOUS
  <2> QED  BY <2>2, <2>3
<1>5. SUFFICES ASSUME Y < X + g  PROVE FALSE
  <2>1. Ra * nb \in Int /\ Rb * na \in Int /\ Y = Rb * na + na
    OBVIOUS
  <2> HIDE DEF Y
  <2> QED  BY <1>1, <2>1
<1>6. P + 1 <= Q
  OBVIOUS
<1>7. g * (2 * m + 1) <= K
  OBVIOUS
<1> HIDE DEF g, m, X, Y, P, Q
<1>8. Y * Y < X * X + 2 * (g * X) + g * g
  <2>1. Y * Y < (X + g) * (X + g)
    BY <1>1, <1>5, SquaresGrow
  <2>2. (X + g) * (X + g) = X * X + 2 * (g * X) + g * g
    BY <1>1
  <2> QED  BY <2>1, <2>2
<1>9. kk * P + kk <= kk * Q
  <2> HIDE DEF kk
  <2>1. kk * (P + 1) <= kk * Q
    BY <1>1, <1>6, TimesLeq
  <2>2. kk * (P + 1) = kk * P + kk
    BY <1>1
  <2> QED  BY <2>1, <2>2
<1>10. g * X <= g * (K * m)
  <2>1. K * m \in Int
    BY <1>1
  <2> QED  BY <1>1, <1>4, <2>1, TimesLeq
<1>11. K * (g * (2 * m + 1)) <= kk
  <2>1. g * (2 * m + 1) \in Int
    BY <1>1
  <2> QED  BY <1>1, <1>7, <2>1, TimesLeq
<1>12. K * (g * (2 * m + 1)) = 2 * (g * (K * m)) + K * g
  BY <1>1
<1>13. g * g <= K * g
  <2>1. g <= g * (2 * m + 1)
    <3>1. 1 <= 2 * m + 1 /\ g * 1 = g
      BY <1>1
    <3>2. g * 1 <= g * (2 * m + 1)
      BY <1>1, <3>1, TimesLeq
    <3> QED  BY <3>1, <3>2
  <2>2. g <= K
    <3>1. g * (2 * m + 1) \in Int
      BY <1>1
    <3> QED  BY <1>1, <1>7, <2>1, <3>1
  <2> QED  BY <1>1, <2>2, TimesLeq
<1> DEFINE a == X * X    b == Y * Y    c == g * X    e == g * (K * m)    h == g * g    j == K * g
           p == kk * P    q == kk * Q
<1>14. /\ a \in Int /\ b \in Int /\ c \in Int /\ e \in Int /\ h \in Int /\ j \in Int /\ p \in Int /\ q \in Int
       /\ kk \in Int
  BY <1>1
<1>15. /\ a <= p /\ q < b /\ b < a + 2 * c + h /\ p + kk <= q /\ c <= e /\ 2 * e + j <= kk /\ h <= j
  BY <1>2, <1>3, <1>8, <1>9, <1>10, <1>11, <1>12, <1>13
<1> HIDE DEF a, b, c, e, h, j, p, q, kk
<1> QED  BY <1>14, <1>15

(* How far the scores of a candidate spread.                                *)
LEMMA SpreadIsSome ==
  ASSUME NEW n \in Nat, NEW c1 \in Nat, NEW c2 \in Nat, c1 + c2 <= n
  PROVE  LET sum == c1 + 2 * c2
             spread == n * (c1 + 4 * c2) - sum * sum
         IN  spread \in Nat /\ spread <= n * n
<1> DEFINE c0 == n - (c1 + c2)
           sum == c1 + 2 * c2
           spread == n * (c1 + 4 * c2) - sum * sum
<1>1. c0 \in Nat /\ n = c0 + c1 + c2
  OBVIOUS
<1> HIDE DEF c0
<1>2. spread = c0 * c1 + 4 * (c0 * c2) + c1 * c2
  BY <1>1
<1>3. n * n - spread = (c0 - c2) * (c0 - c2) + c1 * c1 + c0 * c1 + c1 * c2
  BY <1>1
<1>4. /\ c0 * c1 \in Nat /\ c0 * c2 \in Nat /\ c1 * c2 \in Nat /\ c1 * c1 \in Nat
      /\ (c0 - c2) * (c0 - c2) >= 0 /\ (c0 - c2) * (c0 - c2) \in Int /\ n * n \in Int
  BY <1>1
<1>5. spread \in Int
  OBVIOUS
<1> HIDE DEF spread
<1>6. spread \in Nat /\ spread <= n * n
  BY <1>2, <1>3, <1>4, <1>5
<1> QED  BY <1>6 DEF spread

LEMMA ScoresAreNumbers ==
  ASSUME NEW s \in Seq(0..2)
  PROVE  Len(s) \in Nat /\ Sum(s) \in Nat /\ Spread(s) \in Nat /\ Spread(s) <= Len(s) * Len(s)
<1> DEFINE n == Len(s)
           C(v) == {i \in DOMAIN s : s[i] = v}
<1>1. n \in Nat /\ DOMAIN s = 1..n
  BY LenProperties
<1>2. IsFiniteSet(1..n) /\ Cardinality(1..n) = n
  <2> HIDE DEF n
  <2>1. IsFiniteSet(1..n) /\ Cardinality(1..n) = IF 1 > n THEN 0 ELSE n - 1 + 1
    BY <1>1, FS_Interval
  <2> QED  BY <1>1, <2>1
<1>3. \A v : IsFiniteSet(C(v)) /\ Cardinality(C(v)) \in Nat
  <2> TAKE v
  <2>1. C(v) \subseteq 1..n
    BY <1>1
  <2> QED  BY <1>2, <2>1, FS_Subset, FS_CardinalityType
<1>4. Cardinality(C(1)) + Cardinality(C(2)) <= n
  <2>1. C(1) \cap C(2) = {} /\ C(1) \cup C(2) \subseteq 1..n
    BY <1>1
  <2> HIDE DEF C
  <2>2. Cardinality(C(1) \cup C(2)) <= n
    BY <1>2, <2>1, FS_Subset
  <2>3. Cardinality(C(1) \cup C(2)) = Cardinality(C(1)) + Cardinality(C(2)) - Cardinality(C(1) \cap C(2))
    BY <1>3, FS_Union
  <2>4. Cardinality(C(1) \cap C(2)) = 0
    BY <2>1, FS_EmptySet
  <2> QED  BY <1>3, <2>2, <2>3, <2>4
<1> DEFINE c1 == Often(s, 1)    c2 == Often(s, 2)
<1>5. c1 \in Nat /\ c2 \in Nat /\ c1 + c2 <= n
  BY <1>3, <1>4 DEF Often
<1>6. Sum(s) = c1 + 2 * c2 /\ Spread(s) = n * (c1 + 4 * c2) - Sum(s) * Sum(s)
  BY DEF Sum, Spread
<1> HIDE DEF c1, c2, n, C
<1>7. Sum(s) \in Nat
  BY <1>5, <1>6
<1>8. Spread(s) \in Nat /\ Spread(s) <= n * n
  BY <1>1, <1>5, <1>6, SpreadIsSome
<1> QED  BY <1>1, <1>7, <1>8 DEF n

LEMMA FineIsSome ==
  ASSUME split \in Splits
  PROVE  Fine \in Nat \ {0} /\ split.folds \in Nat /\ split.folds >= 2
<1>1. split.folds \in Nat /\ split.folds >= 2
  BY SweepAssumption
<1> DEFINE F == split.folds
<1>2. F \in Nat \ {0}
  BY <1>1
<1> HIDE DEF F
<1>3. 4 * F * F * F * F \in Nat \ {0}
  BY <1>2
<1> QED  BY <1>1, <1>3 DEF Fine, F

LEMMA RootIsOne ==
  ASSUME split \in Splits, NEW m \in Nat
  PROVE  Root(m) \in Nat /\ Root(m) * Root(m) <= Fine * Fine * m
         /\ Fine * Fine * m < (Root(m) + 1) * (Root(m) + 1)
<1>1. \E r \in 0..Fine * m : r * r <= Fine * Fine * m /\ Fine * Fine * m < (r + 1) * (r + 1)
  BY FineIsSome, RootThereIs
<1>2. /\ Root(m) \in 0..Fine * m /\ Root(m) * Root(m) <= Fine * Fine * m
      /\ Fine * Fine * m < (Root(m) + 1) * (Root(m) + 1)
  BY <1>1 DEF Root
<1> QED  BY <1>2

LEMMA ScoreIsNumber ==
  ASSUME split \in Splits, NEW s \in Enough
  PROVE  PenalizedScore(s) \in Int
<1>1. s \in Seq(0..2) /\ Len(s) \in Nat \ {0}
  BY SweepAssumption DEF Enough
<1>2. Sum(s) \in Nat /\ Root(Spread(s)) \in Nat /\ Fine \in Nat
  BY <1>1, ScoresAreNumbers, RootIsOne, FineIsSome
<1>3. 2 * Fine * Sum(s) - Root(Spread(s)) \in Int
  BY <1>2
<1> QED  BY <1>1, <1>3 DEF PenalizedScore

(* A steadier candidate has the better score, not as good a one.            *)
LEMMA SteadierScoresMore ==
  ASSUME split \in Splits, NEW a \in Enough, NEW b \in Enough, Steadier(a, b)
  PROVE  PenalizedScore(a) > PenalizedScore(b)
<1> DEFINE F == split.folds    K == Fine    na == Len(a)    nb == Len(b)
           Sa == Sum(a)    Sb == Sum(b)    Pa == Spread(a)    Pb == Spread(b)
           Ra == Root(Pa)    Rb == Root(Pb)
<1>1. a \in Seq(0..2) /\ b \in Seq(0..2) /\ na \in 1..F /\ nb \in 1..F
  BY SweepAssumption DEF Enough
<1>2. K \in Nat \ {0} /\ F \in Nat /\ F >= 2 /\ K = 4 * F * F * F * F
  BY FineIsSome DEF Fine
<1>3. /\ Sa \in Nat /\ Pa \in Nat /\ Pa <= na * na
      /\ Sb \in Nat /\ Pb \in Nat /\ Pb <= nb * nb
  BY <1>1, ScoresAreNumbers
<1>4. /\ Ra \in Nat /\ Ra * Ra <= K * K * Pa
      /\ Rb \in Nat /\ K * K * Pb < (Rb + 1) * (Rb + 1)
  BY <1>3, RootIsOne
<1>5. Sa * nb >= Sb * na /\ Pa * nb * nb < Pb * na * na
  BY DEF Steadier
<1>6. PenalizedScore(a) = (2 * K * Sa - Ra) \div na /\ PenalizedScore(b) = (2 * K * Sb - Rb) \div nb
  BY DEF PenalizedScore
<1> HIDE DEF F, K, na, nb, Sa, Sb, Pa, Pb, Ra, Rb
<1>7. na \in Nat \ {0} /\ nb \in Nat \ {0}
  BY <1>1, <1>2
<1>8. (na * nb + na) * (2 * (na * nb) + 1) <= K
  BY <1>1, <1>2, PreciseEnough
<1>9. Ra * nb + na * nb <= Rb * na
  BY <1>2, <1>3, <1>4, <1>5, <1>7, <1>8, RootsApart
<1>10. nb * (2 * K * Sa - Ra) >= na * (2 * K * Sb - Rb) + na * nb
  <2> DEFINE x == Sa * nb    y == Sb * na
  <2>1. nb * (2 * K * Sa - Ra) = 2 * K * x - Ra * nb
    BY <1>2, <1>3, <1>4, <1>7
  <2>2. na * (2 * K * Sb - Rb) = 2 * K * y - Rb * na
    BY <1>2, <1>3, <1>4, <1>7
  <2>3. 2 * K * y <= 2 * K * x
    <3>1. x \in Int /\ y \in Int /\ y <= x /\ 2 * K \in Nat
      BY <1>2, <1>3, <1>5, <1>7
    <3> HIDE DEF x, y
    <3> QED  BY <3>1, TimesLeq
  <2>4. /\ 2 * K * y \in Int /\ 2 * K * x \in Int /\ Ra * nb \in Int /\ Rb * na \in Int
        /\ na * nb \in Int
    BY <1>2, <1>3, <1>4, <1>7
  <2> HIDE DEF x, y
  <2> QED  BY <1>9, <2>1, <2>2, <2>3, <2>4
<1>11. 2 * K * Sa - Ra \in Int /\ 2 * K * Sb - Rb \in Int
  BY <1>2, <1>3, <1>4
<1> QED  BY <1>6, <1>7, <1>10, <1>11, QuotientsApart

-----------------------------------------------------------------------------
(* The ranking: the first of the candidates in the order of their scores.   *)
LEMMA LeastOfTwo ==
  ASSUME NEW a \in Int, NEW b \in Int
  PROVE  /\ Min({a, b}) \in {a, b} /\ Min({a, b}) <= a /\ Min({a, b}) <= b
         /\ Max({a, b}) \in {a, b} /\ Max({a, b}) >= a /\ Max({a, b}) >= b
<1>1. \E x \in {a, b} : \A y \in {a, b} : x <= y
  OBVIOUS
<1>2. \E x \in {a, b} : \A y \in {a, b} : x >= y
  OBVIOUS
<1>3. Min({a, b}) \in {a, b} /\ \A y \in {a, b} : Min({a, b}) <= y
  BY <1>1 DEF Min
<1>4. Max({a, b}) \in {a, b} /\ \A y \in {a, b} : Max({a, b}) >= y
  BY <1>2 DEF Max
<1> QED  BY <1>3, <1>4

Falling(worth, n, order) ==
  /\ order \in [1..n -> 1..n]
  /\ \A i, j \in 1..n : i < j => worth[order[i]] >= worth[order[j]]
  /\ \A x \in 1..n : \E i \in 1..n : order[i] = x

LEMMA ByWorthFalls ==
  ASSUME NEW n \in Nat, NEW worth \in [1..n -> Int]
  PROVE  Falling(worth, n, ByWorth(worth))
<1> DEFINE M == DOMAIN worth
           R == {p \in M \X M : worth[p[1]] > worth[p[2]] \/ (worth[p[1]] = worth[p[2]] /\ p[1] < p[2])}
           order == ByWorth(worth)
<1>1. M = 1..n /\ \A x \in M : worth[x] \in Int /\ x \in Int
  OBVIOUS
<1>2. \A x, y \in M : <<x, y>> \in R <=> (worth[x] > worth[y] \/ (worth[x] = worth[y] /\ x < y))
  OBVIOUS
<1>3. StrictOrder(M, R)
  <2> HIDE DEF M, R
  <2>1. \A x \in M : <<x, x>> \notin R
    BY <1>1, <1>2
  <2>2. \A x, y, z \in M : <<x, y>> \in R /\ <<y, z>> \in R => <<x, z>> \in R
    BY <1>1, <1>2
  <2>3. \A x, y \in M : x # y => <<x, y>> \in R \/ <<y, x>> \in R
    BY <1>1, <1>2
  <2> QED  BY <2>1, <2>2, <2>3 DEF StrictOrder
<1>4. \A x \in M : Earlier(M, R, x) = {y \in M : worth[y] > worth[x] \/ (worth[y] = worth[x] /\ y < x)}
  <2> HIDE DEF M, R
  <2> QED  BY <1>2 DEF Earlier
<1>5. order = [i \in 1..Cardinality(M) |-> CHOOSE x \in M :
                 Cardinality({y \in M : worth[y] > worth[x] \/ (worth[y] = worth[x] /\ y < x)}) = i - 1]
  BY Zenon DEF ByWorth, InOrder
<1>6. InPlace(M, R, order)
  <2> DEFINE Before(x) == {y \in M : worth[y] > worth[x] \/ (worth[y] = worth[x] /\ y < x)}
  <2>1. order = [i \in 1..Cardinality(M) |-> CHOOSE x \in M : Cardinality(Before(x)) = i - 1]
    BY <1>5
  <2>2. \A x \in M : Earlier(M, R, x) = Before(x)
    BY <1>4
  <2> HIDE DEF Before, M, R, order
  <2>3. ASSUME NEW i \in 1..Cardinality(M), NEW x \in M, Cardinality(Earlier(M, R, x)) = i - 1
        PROVE  order[i] \in M /\ Cardinality(Earlier(M, R, order[i])) = i - 1
    <3>1. Cardinality(Before(x)) = i - 1
      BY <2>2, <2>3
    <3>2. order[i] \in M /\ Cardinality(Before(order[i])) = i - 1
      BY <2>1, <3>1
    <3> QED  BY <2>2, <3>2
  <2>4. order = [i \in 1..Cardinality(M) |-> order[i]]
    BY <2>1
  <2> QED  BY <2>3, <2>4 DEF InPlace
<1>7. IsFiniteSet(M) /\ Cardinality(M) = n
  <2> HIDE DEF R, order
  <2>1. IsFiniteSet(1..n) /\ Cardinality(1..n) = IF 1 > n THEN 0 ELSE n - 1 + 1
    BY FS_Interval
  <2> QED  BY <1>1, <2>1
<1> HIDE DEF M, R, order
<1>8. /\ order \in [1..n -> M]
      /\ \A i, j \in 1..n : i < j => <<order[i], order[j]>> \in R
      /\ \A x \in M : \E i \in 1..n : order[i] = x
  BY <1>3, <1>6, <1>7, OrderedOnce
<1>9. ASSUME NEW i \in 1..n, NEW j \in 1..n, i < j  PROVE worth[order[i]] >= worth[order[j]]
  <2>1. order[i] \in M /\ order[j] \in M /\ <<order[i], order[j]>> \in R
    BY <1>8, <1>9
  <2> QED  BY <1>1, <1>2, <2>1
<1>10. Falling(worth, n, order)
  BY <1>1, <1>8, <1>9 DEF Falling
<1> QED  BY <1>10 DEF order

(* The first k of them.                                                     *)
LEMMA RankingFalls ==
  ASSUME split \in Splits, NEW scored \in Seq(Candidates)
  PROVE  \E order : \E k \in 0..Len(scored) :
           /\ Falling([i \in 1..Len(scored) |-> PenalizedScore(scored[i].scores)], Len(scored), order)
           /\ Ranking(scored) = [i \in 1..k |-> scored[order[i]]]
<1> DEFINE n == Len(scored)
           worth == [i \in 1..n |-> PenalizedScore(scored[i].scores)]
           order == ByWorth(worth)
           k == Min({n, TopRanks})
<1>1. n \in Nat /\ DOMAIN scored = 1..n
  BY LenProperties
<1>2. worth \in [1..n -> Int]
  <2>1. ASSUME NEW i \in 1..n  PROVE PenalizedScore(scored[i].scores) \in Int
    <3>1. scored[i] \in Candidates
      BY <1>1, ElementOfSeq
    <3>2. scored[i].scores \in Enough
      BY <3>1 DEF Candidates
    <3> QED  BY <3>2, ScoreIsNumber
  <2> HIDE DEF n
  <2> QED  BY <2>1
<1> HIDE DEF n
<1>3. Falling(worth, n, order)
  <2> HIDE DEF worth
  <2> QED  BY <1>1, <1>2, ByWorthFalls
<1>4. Len(order) = n
  <2> HIDE DEF order
  <2> QED  BY <1>1, <1>3 DEF Falling
<1>5. k \in 0..n
  <2>1. TopRanks \in Nat
    BY SweepNumbers
  <2>2. k \in {n, TopRanks} /\ k <= n
    BY <1>1, <2>1, LeastOfTwo
  <2> HIDE DEF k
  <2> QED  BY <1>1, <2>1, <2>2
<1>6. Ranking(scored) = [i \in 1..k |-> scored[order[i]]]
  <2>1. [i \in DOMAIN scored |-> PenalizedScore(scored[i].scores)] = worth
    BY <1>1
  <2> HIDE DEF worth
  <2>2. Ranking(scored) = [i \in 1..Min({Len(order), TopRanks}) |-> scored[order[i]]]
    BY <2>1 DEF Ranking
  <2> QED  BY <1>4, <2>2
<1> HIDE DEF order, k
<1> HIDE DEF worth
<1>7. \E o : \E q \in 0..n : Falling(worth, n, o) /\ Ranking(scored) = [i \in 1..q |-> scored[o[i]]]
  BY <1>3, <1>5, <1>6
<1> QED  BY <1>7 DEF n, worth

LEMMA RankedAreScored ==
  ASSUME split \in Splits, NEW scored \in Seq(Candidates), NEW i \in DOMAIN Ranking(scored)
  PROVE  Ranking(scored)[i] \in Candidates
<1>1. PICK order : \E k \in 0..Len(scored) :
        /\ Falling([j \in 1..Len(scored) |-> PenalizedScore(scored[j].scores)], Len(scored), order)
        /\ Ranking(scored) = [j \in 1..k |-> scored[order[j]]]
  BY RankingFalls
<1>0. PICK k \in 0..Len(scored) : Ranking(scored) = [j \in 1..k |-> scored[order[j]]]
  BY <1>1
<1>2. i \in 1..k /\ k \in Nat /\ k <= Len(scored) /\ Len(scored) \in Nat
  BY <1>0, LenProperties
<1>3. i \in 1..Len(scored)
  BY <1>2
<1>4. order[i] \in 1..Len(scored)
  BY <1>1, <1>3 DEF Falling
<1>5. scored[order[i]] \in Candidates
  BY <1>4, ElementOfSeq
<1> QED  BY <1>0, <1>2, <1>5

LEMMA RankKeeps ==
  ASSUME SweepInv, Rank  PROVE SweepInv'
<1>1. /\ sweep.pc = "rank" /\ ranked' = Ranking(sweep.scored)
      /\ sweep' = [sweep EXCEPT !.pc = IF sweep.scored = <<>> THEN "failed" ELSE "done"]
      /\ UNCHANGED <<strategy, lastRule, engine, split, taken>>
  BY DEF Rank, sweepSetting
<1>2. PICK pc \in {"done", "failed"} :
        sweep' = [pc |-> pc, base |-> sweep.base, grid |-> sweep.grid, n |-> sweep.n,
                  viable |-> sweep.viable, scored |-> sweep.scored, tally |-> sweep.tally]
  BY <1>1 DEF SweepInv, RunInv
<1>3. Tryable' = Tryable /\ Candidates' = Candidates
  BY <1>1, <1>2, TryableGoes
<1>4. RunInv'
  BY <1>1, <1>2, <1>3 DEF SweepInv, RunInv
<1>5. BaseInv'
  BY <1>1, <1>2 DEF SweepInv, BaseInv
<1>6. BooksInv'
  BY <1>1, <1>2 DEF SweepInv, BooksInv
<1>7. RankedInv'
  <2>1. Ranking(sweep.scored)' = Ranking(sweep.scored)
    BY <1>1, <1>2, RankingKept
  <2> QED  BY <1>1, <1>2, <2>1 DEF RankedInv
<1>8. TakenInv'
  BY <1>1 DEF SweepInv, TakenInv
<1> QED  BY <1>1, <1>4, <1>5, <1>6, <1>7, <1>8 DEF SweepInv

LEMMA TakeKeeps ==
  ASSUME SweepInv, TakeResult  PROVE SweepInv'
<1>1. /\ sweep.pc = "done" /\ UNCHANGED <<lastRule, engine, split, sweep, ranked>>
  BY DEF TakeResult, sweepSetting
<1>2. PICK i \in DOMAIN ranked :
        /\ strategy' = AppliedWhole(strategy, ranked[i].point)
        /\ taken' = [on |-> TRUE, point |-> ranked[i].point, before |-> strategy]
  BY DEF TakeResult
<1> DEFINE point == ranked[i].point
<1>3. point \in Tryable
  <2>1. ranked[i] \in Candidates
    BY <1>1, RankedAreScored DEF SweepInv, RankedInv, RunInv
  <2> QED  BY <2>1 DEF Candidates, Runnable
<1>4. Redrawn(strategy, lastRule, strategy', lastRule')
  <2>1. CASE Settable(strategy, point)
    BY <1>1, <1>2, <2>1, AppliedDraws DEF SweepInv, AppliedWhole
  <2>2. CASE ~Settable(strategy, point)
    BY <1>1, <1>2, <2>2 DEF SweepInv, AppliedWhole, Redrawn, IsDrawn
  <2> QED  BY <2>1, <2>2
<1> HIDE DEF point
<1>5. RunInv' /\ Tryable' = Tryable
  BY <1>1, RunKept DEF SweepInv
<1>6. BaseInv'
  BY <1>1, <1>4, BaseKept
<1>7. BooksInv'
  BY <1>1 DEF SweepInv, BooksInv
<1>8. RankedInv'
  BY <1>1, RankingKept DEF SweepInv, RankedInv
<1>9. TakenInv'
  <2>1. taken' = [on |-> TRUE, point |-> point, before |-> strategy] /\ strategy' = AppliedWhole(strategy, point)
    BY <1>2 DEF point
  <2> QED  BY <1>1, <1>3, <1>5, <2>1 DEF SweepInv, TakenInv
<1>10. lastRule' \in Nat /\ IsDrawn(strategy', lastRule')
  BY <1>4 DEF Redrawn
<1> QED  BY <1>1, <1>5, <1>6, <1>7, <1>8, <1>9, <1>10 DEF SweepInv

LEMMA SweepStarts == ASSUME SweepInit  PROVE SweepInv
<1>1. /\ strategy \in Definitions /\ lastRule = Cardinality(DOMAIN strategy.rules)
      /\ engine \in {"stub", "nautilus"} /\ split \in Splits
      /\ sweep = NoSweep /\ ranked = <<>> /\ taken = NothingTaken
  BY DEF SweepInit
<1>2. strategy.rules \in Seq(Rules) /\ strategy \in StrategyDefinition(DOMAIN strategy.rules)
  BY <1>1, SweepAssumption
<1> DEFINE n == Len(strategy.rules)
<1>3. n \in Nat /\ DOMAIN strategy.rules = 1..n
  BY <1>2, LenProperties
<1>4. lastRule = n
  <2> HIDE DEF n
  <2>1. Cardinality(1..n) = IF 1 > n THEN 0 ELSE n - 1 + 1
    BY <1>3, FS_Interval
  <2> QED  BY <1>1, <1>3, <2>1
<1>5. lastRule \in Nat /\ IsDrawn(strategy, lastRule)
  BY <1>2, <1>3, <1>4 DEF IsDrawn
<1>6. RunInv
  <2>1. Len(<<>>) \in Nat
    BY EmptySeq
  <2> QED  BY <1>1, <2>1, EmptySeq DEF RunInv, NoSweep, NoTally, Tallies
<1>7. BaseInv /\ BooksInv /\ RankedInv
  BY <1>1 DEF BaseInv, BooksInv, RankedInv, NoSweep, NoTally
<1>8. TakenInv
  BY <1>1 DEF TakenInv, NothingTaken
<1> QED  BY <1>1, <1>5, <1>6, <1>7, <1>8 DEF SweepInv

LEMMA SweepStutters == ASSUME SweepInv, UNCHANGED sweepVars  PROVE SweepInv'
<1>1. UNCHANGED <<strategy, lastRule, engine, split, sweep, ranked, taken>>
  BY DEF sweepVars
<1>2. RunInv' /\ Tryable' = Tryable
  BY <1>1, RunKept DEF SweepInv
<1>3. BaseInv' /\ BooksInv'
  BY <1>1 DEF SweepInv, BaseInv, BooksInv
<1>4. RankedInv'
  BY <1>1, RankingKept DEF SweepInv, RankedInv
<1>5. TakenInv'
  BY <1>1, <1>2 DEF SweepInv, TakenInv
<1> QED  BY <1>1, <1>2, <1>3, <1>4, <1>5 DEF SweepInv

LEMMA SweepNextKeeps == ASSUME SweepInv, [SweepNext]_sweepVars  PROVE SweepInv'
<1>1. CASE EditStep
  BY <1>1, EditKeeps
<1>2. CASE StartSweep
  BY <1>2, StartKeeps
<1>3. CASE Screen
  BY <1>3, ScreenKeeps
<1>4. CASE Score
  BY <1>4, ScoreKeeps
<1>5. CASE Rank
  BY <1>5, RankKeeps
<1>6. CASE TakeResult
  BY <1>6, TakeKeeps
<1>7. CASE UNCHANGED sweepVars
  BY <1>7, SweepStutters
<1> QED  BY <1>1, <1>2, <1>3, <1>4, <1>5, <1>6, <1>7 DEF SweepNext

-----------------------------------------------------------------------------
(* What the invariant gives.                                                *)
LEMMA RankedSteadyFirst == ASSUME SweepInv  PROVE SteadyFirst
<1> DEFINE scored == sweep.scored    n == Len(scored)
           W(i) == PenalizedScore(scored[i].scores)
<1>1. split \in Splits /\ scored \in Seq(Candidates) /\ n \in Nat /\ DOMAIN scored = 1..n
  BY LenProperties DEF SweepInv, RunInv
<1>2. CASE ranked = <<>>
  <2>1. DOMAIN ranked = {}
    BY <1>2
  <2> QED  BY <2>1 DEF SteadyFirst
<1>3. CASE ranked = Ranking(scored)
  <2>1. PICK order : \E q \in 0..n :
          Falling([i \in 1..n |-> W(i)], n, order) /\ Ranking(scored) = [i \in 1..q |-> scored[order[i]]]
    BY <1>1, RankingFalls
  <2>2. PICK k \in 0..n : ranked = [i \in 1..k |-> scored[order[i]]]
    BY <1>3, <2>1
  <2> HIDE DEF W, n
  <2>3. /\ \A i \in 1..n : order[i] \in 1..n
        /\ \A i, j \in 1..n : i < j => W(order[i]) >= W(order[j])
        /\ \A x \in 1..n : \E i \in 1..n : order[i] = x
    BY <2>1 DEF Falling
  <2>4. DOMAIN ranked = 1..k /\ \A i \in 1..k : i \in 1..n /\ ranked[i] = scored[order[i]]
    BY <1>1, <2>2
  <2>5. \A i \in 1..n : scored[i] \in Candidates /\ scored[i].scores \in Enough
    <3>1. \A i \in 1..n : scored[i] \in Candidates
      BY <1>1, ElementOfSeq DEF n
    <3> QED  BY <3>1 DEF Candidates
  <2>6. ASSUME NEW i \in 1..n, NEW j \in 1..n, i < j
        PROVE  ~Steadier(scored[order[j]].scores, scored[order[i]].scores)
    <3> SUFFICES ASSUME Steadier(scored[order[j]].scores, scored[order[i]].scores)  PROVE FALSE
      OBVIOUS
    <3>1. order[i] \in 1..n /\ order[j] \in 1..n /\ W(order[i]) >= W(order[j])
      BY <2>3, <2>6
    <3>2. scored[order[i]].scores \in Enough /\ scored[order[j]].scores \in Enough
      BY <2>5, <3>1
    <3>3. W(order[j]) > W(order[i]) /\ W(order[i]) \in Int /\ W(order[j]) \in Int
      BY <1>1, <3>2, SteadierScoresMore, ScoreIsNumber DEF W
    <3> QED  BY <3>1, <3>3
  <2>7. ASSUME NEW i \in DOMAIN ranked, NEW j \in DOMAIN ranked, i < j
        PROVE  ~Steadier(ranked[j].scores, ranked[i].scores)
    BY <2>4, <2>6, <2>7
  <2>8. ASSUME NEW c \in ToSet(sweep.scored) \ ToSet(ranked), NEW i \in DOMAIN ranked
        PROVE  ~Steadier(c.scores, ranked[i].scores)
    <3>1. PICK x \in 1..n : c = scored[x]
      BY <1>1 DEF ToSet
    <3>2. PICK j \in 1..n : order[j] = x
      BY <2>3
    <3>3. ~(j \in 1..k)
      BY <2>4, <3>1, <3>2 DEF ToSet
    <3>4. i < j /\ i \in 1..n /\ ranked[i] = scored[order[i]]
      BY <1>1, <2>4, <3>3
    <3> QED  BY <2>6, <3>1, <3>2, <3>4
  <2>9. ASSUME NEW i \in DOMAIN ranked  PROVE 2 * Len(ranked[i].scores) > split.folds
    <3>1. ranked[i].scores \in Enough
      BY <2>3, <2>4, <2>5
    <3>2. split.folds \in Nat /\ split.folds >= 2
      BY <1>1, FineIsSome
    <3>3. Len(ranked[i].scores) \in 1..split.folds /\ 5 * Len(ranked[i].scores) >= 3 * split.folds
      BY <3>1 DEF Enough
    <3> QED  BY <3>2, <3>3
  <2> QED  BY <2>7, <2>8, <2>9 DEF SteadyFirst
<1> QED  BY <1>2, <1>3 DEF SweepInv, RankedInv

LEMMA RankedEntersAsDrawn == ASSUME SweepInv  PROVE EntersAsDrawn
<1> SUFFICES ASSUME engine = "nautilus", NEW i \in DOMAIN ranked,
                    NEW true \in SUBSET Read(Trial(ranked[i].point))
             PROVE  DrawnEnters(Trial(ranked[i].point), true) = EngineEnters(Trial(ranked[i].point), true)
  BY DEF EntersAsDrawn
<1> DEFINE point == ranked[i].point    d == Trial(point)
<1>1. sweep.pc \in {"done", "failed"} /\ ranked = Ranking(sweep.scored)
  <2>1. ranked # <<>>
    OBVIOUS
  <2> QED  BY <2>1 DEF SweepInv, RankedInv
<1>2. point \in Runnable
  <2>1. ranked[i] \in Candidates
    BY <1>1, RankedAreScored DEF SweepInv, RunInv
  <2> QED  BY <2>1 DEF Candidates
<1>3. ~Refuses(d)
  BY <1>2 DEF Runnable, EngineRefuses
<1>4. d.match \in {"all", "any"}
  <2>1. sweep.base.match \in {"all", "any"} /\ sweep.base \in StrategyDefinition(DOMAIN sweep.base.rules)
    BY <1>1 DEF SweepInv, BaseInv, IsDrawn, StrategyDefinition
  <2>2. d.match = sweep.base.match
    BY <2>1 DEF Trial, Applied, StrategyDefinition
  <2> QED  BY <2>1, <2>2
<1> HIDE DEF d, point
<1>5. d.regime = "none" /\ (d.match = "any" => In(d, "entry", TRUE) = {})
  BY <1>3 DEF Refuses
<1> DEFINE rules == In(d, "entry", FALSE)    filters == In(d, "entry", TRUE)
<1>6. All(d, "entry") = filters \cup rules
  BY DEF All
<1>7. CASE d.match = "all"
  <2>1. DrawnEnters(d, true) = (filters \subseteq true /\ rules \subseteq true)
    BY <1>5, <1>7 DEF DrawnEnters
  <2>2. EngineEnters(d, true) = (filters \cup rules \subseteq true)
    BY <1>6, <1>7 DEF EngineEnters, Lowered
  <2> HIDE DEF rules, filters
  <2>3. (filters \subseteq true /\ rules \subseteq true) <=> (filters \cup rules \subseteq true)
    OBVIOUS
  <2> QED  BY <2>1, <2>2, <2>3 DEF d, point
<1>8. CASE d.match = "any"
  <2>1. DrawnEnters(d, true) = (rules \cap true # {})
    BY <1>5, <1>8 DEF DrawnEnters
  <2>2. EngineEnters(d, true) = ((filters \cup rules) \cap true # {})
    BY <1>5, <1>6, <1>8 DEF EngineEnters, Lowered
  <2>3. (filters \cup rules) = rules
    BY <1>5, <1>8
  <2> HIDE DEF rules, filters
  <2>4. DrawnEnters(d, true) = EngineEnters(d, true)
    BY <2>1, <2>2, <2>3
  <2> QED  BY <2>4 DEF d, point
<1> QED  BY <1>4, <1>7, <1>8

LEMMA ResultTakenWhole == ASSUME SweepInv  PROVE TakenWhole
<1> SUFFICES ASSUME taken.on, strategy # taken.before
             PROVE  /\ \A k \in DOMAIN taken.point :
                         /\ Held(strategy, k) /\ ParamOf(strategy, k).value = taken.point[k]
                         /\ k # Risk => /\ strategy.rules[k].indicator = sweep.base.rules[k].indicator
                                        /\ strategy.rules[k].block = sweep.base.rules[k].block
                    /\ Applied(taken.before, taken.point) = strategy
  BY DEF TakenWhole
<1>1. /\ sweep.pc = "done" /\ taken.point \in Tryable /\ IsDrawn(taken.before, lastRule)
      /\ strategy = AppliedWhole(taken.before, taken.point) /\ lastRule \in Nat
  BY DEF SweepInv, TakenInv
<1>2. Settable(taken.before, taken.point) /\ strategy = Applied(taken.before, taken.point)
  BY <1>1 DEF AppliedWhole
<1>3. ASSUME NEW k \in DOMAIN taken.point
      PROVE  /\ Held(strategy, k) /\ ParamOf(strategy, k).value = taken.point[k]
             /\ k # Risk => /\ strategy.rules[k].indicator = sweep.base.rules[k].indicator
                            /\ strategy.rules[k].block = sweep.base.rules[k].block
  <2>1. Held(strategy, k) /\ ParamOf(strategy, k).value = taken.point[k]
    BY <1>1, <1>2, AppliedDraws
  <2>2. Held(sweep.base, k)
    BY <1>1 DEF Tryable, Settable
  <2>3. CASE k # Risk
    BY <1>1, <2>1, <2>2, <2>3 DEF SweepInv, BaseInv, Held
  <2> QED  BY <2>1, <2>3
<1> QED  BY <1>2, <1>3

(* The bars of a window.                                                    *)
LEMMA UnitIsSome ==
  ASSUME split \in Splits
  PROVE  /\ split.inSample \in Nat /\ split.outSample \in Nat \ {0} /\ split.folds \in Nat /\ split.folds >= 2
         /\ split.embargo \in Nat /\ SampleBars \in Nat
         /\ Unit \in Nat \ {0} /\ split.inSample <= Unit
         /\ \A i \in 0..split.folds : split.inSample + i * split.outSample \in Nat
                                      /\ split.inSample + i * split.outSample <= Unit
<1> DEFINE a == split.inSample    b == split.outSample    f == split.folds
<1>1. a \in Nat /\ b \in Nat \ {0} /\ f \in Nat /\ f >= 2 /\ split.embargo \in Nat /\ SampleBars \in Nat
  BY SweepAssumption
<1>2. Unit = a + f * b
  BY DEF Unit
<1> HIDE DEF a, b, f
<1>3. \A i \in 0..f : i * b \in Nat /\ i * b <= f * b /\ f * b \in Nat
  BY <1>1, TimesLeq
<1>4. f * b >= 1
  BY <1>1
<1>5. Unit \in Nat \ {0} /\ a <= Unit /\ \A i \in 0..f : a + i * b \in Nat /\ a + i * b <= Unit
  <2>1. 0 \in 0..f /\ f * b \in Nat
    BY <1>1
  <2> QED  BY <1>1, <1>2, <1>3, <1>4, <2>1
<1> QED  BY <1>1, <1>5 DEF a, b, f

LEMMA FloorsGrow ==
  ASSUME split \in Splits, NEW x \in Nat, NEW y \in Nat, x <= y
  PROVE  Floor(x) \in Nat /\ Floor(y) \in Nat /\ Floor(x) <= Floor(y)
<1>1. Unit \in Nat \ {0} /\ SampleBars \in Nat
  BY UnitIsSome
<1> DEFINE u == Unit    X == SampleBars * x    Y == SampleBars * y
<1>2. X \in Nat /\ Y \in Nat /\ X <= Y
  BY <1>1, TimesLeq
<1> HIDE DEF u, X, Y
<1>3. u \in Nat \ {0}
  BY <1>1 DEF u
<1>4. X \div u \in Nat /\ Y \div u \in Nat
  BY <1>2, <1>3
<1>5. u * (X \div u) <= X /\ Y < u * (Y \div u + 1)
  BY <1>2, <1>3
<1> DEFINE p == X \div u    q == Y \div u
<1>6. p * u < (q + 1) * u
  <2> HIDE DEF p, q
  <2>1. p \in Nat /\ q \in Nat /\ u * p <= X /\ Y < u * (q + 1)
    BY <1>4, <1>5 DEF p, q
  <2>2. u * p = p * u /\ u * (q + 1) = (q + 1) * u /\ p * u \in Int /\ (q + 1) * u \in Int
    BY <1>3, <2>1
  <2> QED  BY <1>2, <2>1, <2>2
<1>7. p <= q
  <2>1. p \in Int /\ q + 1 \in Int /\ q \in Int
    BY <1>4
  <2> HIDE DEF p, q
  <2>2. p < q + 1
    BY <1>3, <1>6, <2>1, TimesLess
  <2> QED  BY <2>1, <2>2
<1> QED  BY <1>4, <1>7 DEF Floor, u, X, Y

(* Rounding adds a bar at most, and none after the last of the sample.      *)
LEMMA RoundsUpByOne ==
  ASSUME split \in Splits, NEW x \in Nat, x <= Unit
  PROVE  Rounded(x) \in Nat /\ Rounded(x) <= Floor(x) + 1 /\ Rounded(x) <= SampleBars
<1>1. Unit \in Nat \ {0} /\ SampleBars \in Nat
  BY UnitIsSome
<1> DEFINE u == Unit    X == SampleBars * x    f == Floor(x)    r == X % u
<1>2. X \in Nat /\ X <= SampleBars * u
  <2>1. SampleBars * x <= SampleBars * u
    BY <1>1, TimesLeq
  <2> QED  BY <1>1, <2>1
<1>3. f = X \div u
  BY DEF Floor
<1>4. f \in Nat
  BY FloorsGrow
<1>5. Rounded(x) \in {f, f + 1} /\ (Rounded(x) = f + 1 /\ f # f + 1 => r > 0)
  <2>0. r \in Nat
    <3> HIDE DEF X
    <3> QED  BY <1>1, <1>2
  <2>1. CASE 2 * r > u \/ (2 * r = u /\ f % 2 = 1)
    <3>1. Rounded(x) = f + 1
      BY <2>1 DEF Rounded
    <3> HIDE DEF r, u
    <3>2. r > 0
      BY <1>1, <2>0, <2>1 DEF u
    <3> QED  BY <3>1, <3>2
  <2>2. CASE ~(2 * r > u \/ (2 * r = u /\ f % 2 = 1))
    <3>1. Rounded(x) = f
      BY <2>2 DEF Rounded
    <3> QED  BY <3>1
  <2> QED  BY <2>1, <2>2
<1> HIDE DEF X, f
<1>6. X = u * f + r /\ r \in Nat
  BY <1>1, <1>2, <1>3
<1> HIDE DEF r, u
<1>7. u \in Nat \ {0}
  BY <1>1 DEF u
<1>8. f <= SampleBars
  <2> SUFFICES ASSUME f > SampleBars  PROVE FALSE
    BY <1>1, <1>4
  <2>1. (SampleBars + 1) * u <= f * u
    BY <1>1, <1>4, <1>7, TimesLeq
  <2>2. (SampleBars + 1) * u = SampleBars * u + u /\ f * u = u * f /\ SampleBars * u \in Int /\ u * f \in Int
    BY <1>1, <1>4, <1>7
  <2> QED  BY <1>2, <1>6, <1>7, <2>1, <2>2
<1>9. r > 0 => f # SampleBars
  BY <1>1, <1>2, <1>6, <1>7
<1>10. Rounded(x) \in Nat /\ Rounded(x) <= f + 1 /\ Rounded(x) <= SampleBars
  BY <1>1, <1>4, <1>5, <1>8, <1>9
<1> QED  BY <1>10 DEF f

(* A window ends before the purge of a later fold does.                     *)
LEMMA EndsBeforeFold ==
  ASSUME split \in Splits, split.embargo > 0, NEW i \in 0..split.folds, NEW j \in 1..split.folds, i < j
  PROVE  Rounded(split.inSample + i * split.outSample) <= FoldStart(j)
<1> DEFINE b == split.outSample
           x == split.inSample + i * b
           y == split.inSample + (j - 1) * b
           e == Floor(y) + split.embargo
<1>1. /\ split.inSample \in Nat /\ b \in Nat /\ split.folds \in Nat /\ split.embargo \in Nat
      /\ SampleBars \in Nat
  BY UnitIsSome
<1>2. x \in Nat /\ x <= Unit
  BY UnitIsSome
<1>3. x <= y /\ y \in Nat
  <2>1. i \in Int /\ j - 1 \in Int /\ i <= j - 1 /\ i * b \in Int /\ (j - 1) * b \in Nat
    BY <1>1
  <2>2. i * b <= (j - 1) * b
    BY <1>1, <2>1, TimesLeq
  <2> QED  BY <1>1, <2>1, <2>2
<1>4. FoldStart(j) = Min({e, SampleBars})
  BY DEF FoldStart
<1> HIDE DEF x, y
<1>5. Rounded(x) \in Nat /\ Rounded(x) <= Floor(x) + 1 /\ Rounded(x) <= SampleBars
  BY <1>2, RoundsUpByOne
<1>6. Floor(x) \in Nat /\ Floor(y) \in Nat /\ Floor(x) <= Floor(y)
  BY <1>2, <1>3, FloorsGrow
<1>7. e \in Int /\ Rounded(x) <= e
  BY <1>1, <1>5, <1>6
<1> HIDE DEF e
<1>8. Min({e, SampleBars}) \in {e, SampleBars}
  <2>1. e \in Int /\ SampleBars \in Int
    BY <1>1, <1>7
  <2> QED  BY <2>1, LeastOfTwo
<1>9. Rounded(x) <= FoldStart(j)
  BY <1>4, <1>5, <1>7, <1>8
<1> QED  BY <1>9 DEF x

LEMMA FoldsStartInOrder ==
  ASSUME split \in Splits, NEW i \in 1..split.folds, NEW j \in 1..split.folds, i < j
  PROVE  FoldStart(i) \in Int /\ FoldStart(j) \in Int /\ FoldStart(i) <= FoldStart(j)
<1> DEFINE b == split.outSample
           At(k) == split.inSample + (k - 1) * b
           e(k) == Floor(At(k)) + split.embargo
<1>1. /\ split.inSample \in Nat /\ b \in Nat /\ split.folds \in Nat /\ split.embargo \in Nat
      /\ SampleBars \in Nat
  BY UnitIsSome
<1>2. At(i) \in Nat /\ At(j) \in Nat /\ At(i) <= At(j)
  <2>1. i - 1 \in Int /\ j - 1 \in Int /\ i - 1 <= j - 1 /\ (i - 1) * b \in Nat /\ (j - 1) * b \in Nat
    BY <1>1
  <2>2. (i - 1) * b <= (j - 1) * b
    BY <1>1, <2>1, TimesLeq
  <2> QED  BY <1>1, <2>1, <2>2
<1>3. FoldStart(i) = Min({e(i), SampleBars}) /\ FoldStart(j) = Min({e(j), SampleBars})
  BY DEF FoldStart
<1>4. e(i) \in Int /\ e(j) \in Int /\ e(i) <= e(j)
  <2> HIDE DEF At
  <2>1. Floor(At(i)) \in Nat /\ Floor(At(j)) \in Nat /\ Floor(At(i)) <= Floor(At(j))
    BY <1>2, FloorsGrow
  <2> QED  BY <1>1, <2>1
<1> HIDE DEF e
<1>5. /\ Min({e(i), SampleBars}) \in {e(i), SampleBars} /\ Min({e(i), SampleBars}) <= e(i)
      /\ Min({e(i), SampleBars}) <= SampleBars
      /\ Min({e(j), SampleBars}) \in {e(j), SampleBars}
  <2>1. e(i) \in Int /\ e(j) \in Int /\ SampleBars \in Int
    BY <1>1, <1>4
  <2> QED  BY <2>1, LeastOfTwo
<1> QED  BY <1>1, <1>3, <1>4, <1>5

LEMMA WindowsStandApart == ASSUME SweepInv  PROVE WindowsApart
<1> DEFINE Bars(i) == IF i = 0 THEN 0..(ScreenEnd - 1) ELSE FoldStart(i)..(FoldEnd(i) - 1)
<1> SUFFICES ASSUME split.embargo > 0, NEW i \in 0..split.folds, NEW j \in 0..split.folds, i < j
             PROVE  Bars(i) \cap Bars(j) = {}
  BY DEF WindowsApart
<1>1. /\ split \in Splits /\ split.folds \in Nat /\ SampleBars \in Nat
      /\ split.inSample \in Nat /\ split.outSample \in Nat
  BY UnitIsSome DEF SweepInv
<1>2. j \in 1..split.folds
  BY <1>1
<1>3. Rounded(split.inSample + i * split.outSample) <= FoldStart(j)
      /\ Rounded(split.inSample + i * split.outSample) \in Nat
  BY <1>1, <1>2, EndsBeforeFold, RoundsUpByOne, UnitIsSome
<1>4. Bars(j) = FoldStart(j)..(FoldEnd(j) - 1)
  BY <1>2
<1>5. FoldStart(j) \in Int /\ (i # 0 => FoldStart(i) \in Int /\ FoldStart(i) <= FoldStart(j))
  <2>1. 1 \in 1..split.folds /\ 2 \in 1..split.folds
    BY <1>1, FineIsSome
  <2>2. FoldStart(j) \in Int
    <3>1. CASE j = 1
      BY <1>1, <2>1, <3>1, FoldsStartInOrder
    <3>2. CASE j # 1
      BY <1>1, <1>2, <2>1, <3>2, FoldsStartInOrder
    <3> QED  BY <3>1, <3>2
  <2>3. CASE i # 0
    BY <1>1, <1>2, <2>2, <2>3, FoldsStartInOrder
  <2> QED  BY <2>2, <2>3
<1>6. \E end \in Int : end <= FoldStart(j) /\ \A x \in Bars(i) : x \in Int /\ x <= end - 1
  <2>1. CASE i = 0
    <3>1. split.inSample + i * split.outSample = split.inSample
      BY <1>1, <2>1
    <3>2. ScreenEnd \in Int /\ ScreenEnd <= FoldStart(j)
      BY <1>3, <3>1 DEF ScreenEnd
    <3> QED  BY <2>1, <3>2
  <2>2. CASE i # 0
    <3> DEFINE w == Rounded(split.inSample + i * split.outSample)
    <3>0. i # split.folds
      BY <1>1
    <3>1. FoldEnd(i) = Max({FoldStart(i), w})
      BY <3>0 DEF FoldEnd
    <3>2. w \in Int /\ w <= FoldStart(j) /\ FoldStart(i) \in Int /\ FoldStart(i) <= FoldStart(j)
      BY <1>3, <1>5, <2>2
    <3> HIDE DEF w
    <3>3. FoldEnd(i) \in {FoldStart(i), w}
      BY <3>1, <3>2, LeastOfTwo
    <3>4. FoldEnd(i) \in Int /\ FoldEnd(i) <= FoldStart(j)
      BY <3>2, <3>3
    <3>5. Bars(i) = FoldStart(i)..(FoldEnd(i) - 1)
      BY <2>2
    <3> HIDE DEF Bars
    <3> QED  BY <3>2, <3>4, <3>5
  <2> QED  BY <2>1, <2>2
<1>7. \A x \in Bars(j) : x >= FoldStart(j)
  BY <1>4, <1>5
<1> HIDE DEF Bars
<1> QED  BY <1>5, <1>6, <1>7

(* A sweep of the optimizer, whatever is edited meanwhile, for every        *)
(* definition, split, grid and score, and any number of edits.              *)
THEOREM SweepAlwaysSound == SweepSpec => []SweepIsSound
<1>1. SweepInit => SweepInv
  BY SweepStarts
<1>2. SweepInv /\ [SweepNext]_sweepVars => SweepInv'
  BY SweepNextKeeps
<1>3. SweepInv => SweepIsSound
  <2> SUFFICES ASSUME SweepInv  PROVE SweepIsSound
    OBVIOUS
  <2>1. EachCountedOnce
    BY DEF SweepInv, BooksInv, EachCountedOnce
  <2> QED  BY <2>1, RankedSteadyFirst, RankedEntersAsDrawn, WindowsStandApart, ResultTakenWhole DEF SweepIsSound
<1> QED  BY <1>1, <1>2, <1>3, PTL DEF SweepSpec

-----------------------------------------------------------------------------
(* The grid.  The points that give each of some owners a value in its       *)
(* range, and a list of them that has each once.                            *)
Within(d, o) == ParamOf(d, o).marked[1]..ParamOf(d, o).marked[2]
PointsOf(d, owners) == {p \in [owners -> Int] : \A o \in owners : p[o] \in Within(d, o)}
ListsEach(s, S) ==
  /\ Len(s) \in Nat /\ s \in [1..Len(s) -> S]
  /\ \A i, j \in 1..Len(s) : i # j => s[i] # s[j]
  /\ \A p \in S : \E i \in 1..Len(s) : s[i] = p

LEMMA WidenedIn ==
  ASSUME NEW d, NEW A, NEW o, NEW p \in PointsOf(d, A), NEW v \in Within(d, o), v \in Int
  PROVE  Widened(p, o, v) \in PointsOf(d, A \cup {o})
<1> DEFINE B == A \cup {o}
<1> DEFINE f == Widened(p, o, v)
<1>1. p \in [A -> Int] /\ \A k \in A : p[k] \in Within(d, k)
  BY DEF PointsOf
<1>2. f = [k \in B |-> IF k = o THEN v ELSE p[k]]
  BY <1>1 DEF Widened
<1> HIDE DEF f
<1>3. f \in [B -> Int] /\ \A k \in B : f[k] \in Within(d, k)
  BY <1>1, <1>2
<1> QED  BY <1>3 DEF PointsOf, f

LEMMA WidenedApart ==
  ASSUME NEW d, NEW A, NEW o, o \notin A, NEW p \in PointsOf(d, A), NEW q \in PointsOf(d, A),
         NEW v \in Int, NEW w \in Int, Widened(p, o, v) = Widened(q, o, w)
  PROVE  p = q /\ v = w
<1> DEFINE B == A \cup {o}
<1> DEFINE f == Widened(p, o, v)    g == Widened(q, o, w)
<1>1. p \in [A -> Int] /\ q \in [A -> Int]
  BY DEF PointsOf
<1>2. f = [k \in B |-> IF k = o THEN v ELSE p[k]] /\ g = [k \in B |-> IF k = o THEN w ELSE q[k]]
  BY <1>1 DEF Widened
<1>3. f = g
  OBVIOUS
<1> HIDE DEF f, g
<1>4. f[o] = v /\ g[o] = w /\ \A k \in A : f[k] = p[k] /\ g[k] = q[k]
  BY <1>2
<1> QED  BY <1>1, <1>3, <1>4

LEMMA WidenedAll ==
  ASSUME NEW d, NEW A, NEW o, o \notin A, NEW e \in PointsOf(d, A \cup {o})
  PROVE  \E p \in PointsOf(d, A) : e[o] \in Int /\ e[o] \in Within(d, o) /\ e = Widened(p, o, e[o])
<1> DEFINE B == A \cup {o}
<1> DEFINE p == [k \in A |-> e[k]]
<1>1. e \in [B -> Int] /\ \A k \in B : e[k] \in Within(d, k)
  BY DEF PointsOf
<1>2. p \in PointsOf(d, A)
  BY <1>1 DEF PointsOf
<1>3. e = Widened(p, o, e[o])
  <2>1. Widened(p, o, e[o]) = [k \in B |-> IF k = o THEN e[o] ELSE e[k]]
    BY DEF Widened
  <2> QED  BY <1>1, <2>1
<1> QED  BY <1>1, <1>2, <1>3

(* Rows of equal length, one after the other.                               *)
LEMMA RowOfEach ==
  ASSUME NEW n \in Nat, NEW size \in Nat, NEW i \in 1..n * size
  PROVE  /\ (i - 1) \div size + 1 \in 1..n /\ (i - 1) % size \in 0..size - 1
         /\ i - 1 = size * ((i - 1) \div size) + ((i - 1) % size)
<1>1. size # 0
  <2> SUFFICES ASSUME size = 0  PROVE FALSE
    OBVIOUS
  <2>1. n * size = 0
    OBVIOUS
  <2> QED  BY <2>1
<1> DEFINE x == i - 1    q == x \div size    r == x % size    all == n * size
<1>2. x \in Nat /\ x < all /\ all \in Nat
  OBVIOUS
<1> HIDE DEF x, all
<1>3. q \in Nat /\ r \in 0..size - 1 /\ x = size * q + r
  BY <1>1, <1>2
<1> HIDE DEF q, r
<1>4. q * size < n * size
  <2>1. q * size = size * q /\ size * q \in Nat
    BY <1>3
  <2>2. size * q < all
    BY <1>2, <1>3, <2>1
  <2> QED  BY <2>1, <2>2 DEF all
<1>5. q < n
  BY <1>1, <1>3, <1>4, TimesLess
<1>6. q + 1 \in 1..n
  BY <1>3, <1>5
<1>7. (i - 1) \div size = q /\ (i - 1) % size = r /\ i - 1 = x
  BY DEF x, q, r
<1>8. (i - 1) \div size + 1 \in 1..n /\ (i - 1) % size \in 0..size - 1
  BY <1>3, <1>6, <1>7
<1>9. i - 1 = size * ((i - 1) \div size) + ((i - 1) % size)
  <2>1. i - 1 = size * q + r
    BY <1>3, <1>7
  <2> QED  BY <1>7, <2>1
<1> QED  BY <1>8, <1>9

LEMMA EachInItsRow ==
  ASSUME NEW n \in Nat, NEW size \in Nat, NEW q \in 1..n, NEW r \in 0..size - 1
  PROVE  LET i == size * (q - 1) + r + 1
         IN  i \in 1..n * size /\ (i - 1) \div size + 1 = q /\ (i - 1) % size = r
<1> DEFINE t == size * (q - 1)    all == n * size
<1>1. t \in Nat /\ size \in Nat \ {0} /\ q - 1 \in Nat
  OBVIOUS
<1>2. t + size <= all
  <2>1. size * q <= size * n
    BY TimesLeq
  <2>2. size * q = t + size /\ size * n = all
    OBVIOUS
  <2> QED  BY <2>1, <2>2
<1>3. (t + r) \div size = q - 1 /\ (t + r) % size = r
  BY <1>1
<1>4. t + r + 1 - 1 = t + r /\ t + r + 1 \in 1..all
  <2>1. all \in Int
    OBVIOUS
  <2> HIDE DEF t, all
  <2> QED  BY <1>1, <1>2, <2>1
<1>5. q - 1 + 1 = q
  OBVIOUS
<1> QED  BY <1>3, <1>4, <1>5

LEMMA WiderListsEach ==
  ASSUME NEW d, NEW m \in Nat, IsDrawn(d, m), NEW o \in Optimized(d), NEW A, o \notin A,
         NEW s, ListsEach(s, PointsOf(d, A))
  PROVE  ListsEach(Wider(d, s, o), PointsOf(d, A \cup {o}))
<1> DEFINE low == ParamOf(d, o).marked[1]    high == ParamOf(d, o).marked[2]
           size == Cardinality(low..high)    n == Len(s)    w == Wider(d, s, o)
           P == PointsOf(d, A)    Q == PointsOf(d, A \cup {o})
           Row(i) == (i - 1) \div size + 1    Place(i) == (i - 1) % size
<1>1. low \in Int /\ high \in Int /\ Within(d, o) = low..high
  BY MarkedSpan DEF Within
<1>2. n \in Nat /\ s \in [1..n -> P] /\ (\A i, j \in 1..n : i # j => s[i] # s[j])
      /\ \A p \in P : \E i \in 1..n : s[i] = p
  BY DEF ListsEach
<1>3. w = [i \in 1..n * size |-> Widened(s[Row(i)], o, low + Place(i))]
  BY DEF Wider
<1>4. size = IF low > high THEN 0 ELSE high - low + 1
  <2> HIDE DEF low, high
  <2> QED  BY <1>1, FS_Interval
<1>5. size \in Nat /\ \A r \in 0..size - 1 : low + r \in Within(d, o) /\ low + r \in Int
  <2> HIDE DEF low, high, size
  <2> QED  BY <1>1, <1>4
<1>6. \A v \in Within(d, o) : v - low \in 0..size - 1 /\ low + (v - low) = v
  <2> HIDE DEF low, high, size
  <2> QED  BY <1>1, <1>4
<1> HIDE DEF low, high, size, w, n, P, Q
<1>7. /\ n * size \in Nat
      /\ \A i \in 1..n * size : /\ Row(i) \in 1..n /\ Place(i) \in 0..size - 1
                                /\ i - 1 = size * ((i - 1) \div size) + Place(i)
      /\ \A q \in 1..n, r \in 0..size - 1 : \E i \in 1..n * size : Row(i) = q /\ Place(i) = r
  <2>1. n \in Nat /\ size \in Nat
    BY <1>2, <1>5
  <2>2. ASSUME NEW i \in 1..n * size
        PROVE  /\ Row(i) \in 1..n /\ Place(i) \in 0..size - 1
               /\ i - 1 = size * ((i - 1) \div size) + Place(i)
    BY Zenon, <2>1, RowOfEach
  <2>3. ASSUME NEW q \in 1..n, NEW r \in 0..size - 1
        PROVE  \E i \in 1..n * size : Row(i) = q /\ Place(i) = r
    <3> DEFINE i == size * (q - 1) + r + 1
    <3>1. i \in 1..n * size /\ (i - 1) \div size + 1 = q /\ (i - 1) % size = r
      BY <2>1, EachInItsRow
    <3> HIDE DEF i
    <3> QED  BY <3>1
  <2>4. n * size \in Nat
    BY <2>1
  <2> HIDE DEF Row, Place
  <2> QED  BY Zenon, <2>2, <2>3, <2>4
<1>8. Len(w) = n * size
  BY <1>3, <1>7
<1>9. ASSUME NEW i \in 1..n * size
       PROVE  /\ s[Row(i)] \in P /\ low + Place(i) \in Within(d, o) /\ low + Place(i) \in Int
              /\ w[i] = Widened(s[Row(i)], o, low + Place(i)) /\ w[i] \in Q
  <2>1. s[Row(i)] \in P /\ low + Place(i) \in Within(d, o) /\ low + Place(i) \in Int
    BY <1>2, <1>5, <1>7
  <2>2. w[i] = Widened(s[Row(i)], o, low + Place(i))
    BY <1>3
  <2>3. w[i] \in Q
    BY <2>1, <2>2, WidenedIn DEF P, Q
  <2> QED  BY <2>1, <2>2, <2>3
<1>10. w \in [1..n * size -> Q]
  <2>1. w = [i \in 1..n * size |-> w[i]]
    BY <1>3
  <2> QED  BY <1>9, <2>1
<1>11. ASSUME NEW i \in 1..n * size, NEW j \in 1..n * size, w[i] = w[j]  PROVE i = j
  <2>1. s[Row(i)] = s[Row(j)] /\ low + Place(i) = low + Place(j)
    <3>1. Widened(s[Row(i)], o, low + Place(i)) = Widened(s[Row(j)], o, low + Place(j))
      BY Zenon, <1>9, <1>11
    <3>2. /\ s[Row(i)] \in P /\ s[Row(j)] \in P
          /\ low + Place(i) \in Int /\ low + Place(j) \in Int
      BY Zenon, <1>9
    <3> DEFINE p == s[Row(i)]    q == s[Row(j)]    v == low + Place(i)    x == low + Place(j)
    <3>3. p \in PointsOf(d, A) /\ q \in PointsOf(d, A) /\ v \in Int /\ x \in Int
      BY <3>2 DEF P
    <3>4. Widened(p, o, v) = Widened(q, o, x)
      BY <3>1
    <3> HIDE DEF p, q, v, x
    <3>5. p = q /\ v = x
      BY <3>3, <3>4, WidenedApart
    <3> QED  BY <3>5 DEF p, q, v, x
  <2>2. Row(i) \in 1..n /\ Row(j) \in 1..n /\ Place(i) \in 0..size - 1 /\ Place(j) \in 0..size - 1
    BY <1>7
  <2>3. Row(i) = Row(j)
    <3> HIDE DEF Row
    <3> QED  BY <1>2, <2>1, <2>2
  <2>4. Place(i) = Place(j)
    <3>1. Place(i) \in Int /\ Place(j) \in Int /\ low + Place(i) = low + Place(j)
      <4> HIDE DEF Place
      <4> QED  BY <1>5, <2>1, <2>2
    <3> HIDE DEF Place
    <3> QED  BY <1>1, <3>1
  <2> DEFINE a == (i - 1) \div size    b == (j - 1) \div size
  <2>5. a + 1 = b + 1 /\ a + 1 \in Int /\ b + 1 \in Int
    BY <2>2, <2>3
  <2>6. a = b
    <3>1. a \in Int /\ b \in Int
      <4>1. size # 0
        BY <1>5, <2>2
      <4> QED  BY <1>5, <4>1
    <3> HIDE DEF a, b
    <3> QED  BY <2>5, <3>1
  <2>7. i - 1 = j - 1
    <3>1. i - 1 = size * a + Place(i) /\ j - 1 = size * b + Place(j)
      BY <1>7
    <3> HIDE DEF a, b, Place
    <3> QED  BY <2>4, <2>6, <3>1
  <2> QED  BY <1>7, <2>7
<1>12. ASSUME NEW e \in Q  PROVE \E i \in 1..n * size : w[i] = e
  <2>1. PICK p \in P : e[o] \in Int /\ e[o] \in Within(d, o) /\ e = Widened(p, o, e[o])
    BY WidenedAll DEF P, Q
  <2>2. PICK q \in 1..n : s[q] = p
    BY <1>2
  <2>3. e[o] - low \in 0..size - 1 /\ low + (e[o] - low) = e[o]
    BY <1>6, <2>1
  <2>4. PICK i \in 1..n * size : Row(i) = q /\ Place(i) = e[o] - low
    BY <1>7, <2>3
  <2> HIDE DEF Row, Place
  <2>5. w[i] = e
    BY <1>9, <2>1, <2>2, <2>3, <2>4
  <2> QED  BY <2>5
<1>13. ListsEach(w, Q)
  BY <1>7, <1>8, <1>10, <1>11, <1>12 DEF ListsEach
<1> QED  BY <1>13 DEF w, Q

(* The combinations are the product of the ranges, each of them once.       *)
LEMMA CombosListEach ==
  ASSUME NEW d, NEW m \in Nat, IsDrawn(d, m), Axes(d) # <<>>
  PROVE  ListsEach(Combos(d), PointsOf(d, Optimized(d)))
<1> DEFINE axes == Axes(d)
           last == Len(axes)
           Owners(k) == {axes[j] : j \in 1..k}
<1>1. /\ last \in Nat /\ axes \in [1..last -> Optimized(d)]
      /\ \A i, j \in 1..last : i < j => axes[i] # axes[j]
      /\ \A r \in Optimized(d) : \E i \in 1..last : axes[i] = r
  BY AxesInOrder DEF IsDrawn
<1>2. PICK points :
        /\ points[0] = << [owner \in {} |-> 0] >>
        /\ \A k \in 1..last : points[k] = Wider(d, points[k - 1], axes[k])
        /\ Combos(d) = IF axes = <<>> THEN <<>> ELSE points[last]
  BY <1>1, CombosFollow
<1>3. Combos(d) = points[last]
  BY <1>2
<1> HIDE DEF axes
<1> DEFINE Holds(k) == ListsEach(points[k], PointsOf(d, Owners(k)))
           Fails == {k \in 0..last : ~Holds(k)}
<1>4. Holds(0)
  <2> DEFINE origin == [owner \in {} |-> 0]
  <2>1. Owners(0) = {}
    OBVIOUS
  <2>2. PointsOf(d, {}) = {origin}
    BY DEF PointsOf
  <2> HIDE DEF origin
  <2>3. ListsEach(<<origin>>, {origin})
    BY DEF ListsEach
  <2>4. points[0] = <<origin>>
    BY <1>2 DEF origin
  <2> QED  BY <2>1, <2>2, <2>3, <2>4
<1>5. ASSUME NEW k \in 1..last, Holds(k - 1)  PROVE Holds(k)
  <2>1. axes[k] \in Optimized(d) /\ points[k] = Wider(d, points[k - 1], axes[k])
    BY <1>1, <1>2
  <2>2. axes[k] \notin Owners(k - 1)
    BY <1>1
  <2>3. Owners(k) = Owners(k - 1) \cup {axes[k]}
    <3>1. \A j : j \in 1..k <=> j \in 1..k - 1 \/ j = k
      BY <1>1
    <3> QED  BY <3>1
  <2> HIDE DEF Owners
  <2>4. ListsEach(Wider(d, points[k - 1], axes[k]), PointsOf(d, Owners(k - 1) \cup {axes[k]}))
    BY <1>5, <2>1, <2>2, WiderListsEach
  <2> QED  BY <2>1, <2>3, <2>4
<1> HIDE DEF Holds
<1>6. Fails = {}
  <2> SUFFICES ASSUME Fails # {}  PROVE FALSE
    OBVIOUS
  <2>1. PICK k \in Fails : \A j \in Fails : k <= j
    <3>1. Fails \in SUBSET Nat
      BY <1>1
    <3> HIDE DEF Fails
    <3> QED  BY <3>1, SmallestIsOne
  <2>2. k \in 1..last /\ k - 1 \in 0..last /\ k - 1 < k
    BY <1>1, <1>4
  <2>3. Holds(k - 1)
    BY <2>1, <2>2
  <2> QED  BY <1>5, <2>2, <2>3
<1>7. Holds(last)
  BY <1>1, <1>6
<1>8. Owners(last) = Optimized(d)
  BY <1>1
<1> QED  BY <1>3, <1>7, <1>8 DEF Holds

(* What is tried of them: all, or as many as may be, in the same order, the *)
(* first among them and the last not.                                       *)
Thins(all, some) ==
  /\ Len(all) <= MaxEvals => some = all
  /\ Len(all) > MaxEvals =>
       \E f \in [1..MaxEvals -> 1..Len(all) - 1] :
         /\ some = [i \in 1..MaxEvals |-> all[f[i]]]
         /\ f[1] = 1 /\ \A i, j \in 1..MaxEvals : i < j => f[i] < f[j]

LEMMA GridThins ==
  ASSUME NEW d, Len(Combos(d)) \in Nat
  PROVE  Thins(Combos(d), Grid(d))
<1> DEFINE all == Combos(d)    L == Len(all)    M == MaxEvals
           f == [i \in 1..M |-> ((i - 1) * L) \div M + 1]
<1>1. M \in Nat \ {0} /\ L \in Nat
  BY SweepNumbers
<1>2. CASE L <= M
  BY <1>1, <1>2 DEF Grid, Thins
<1>3. CASE L > M
  <2>1. Grid(d) = [i \in 1..M |-> all[((i - 1) * L) \div M + 1]]
    BY <1>1, <1>3 DEF Grid
  <2> HIDE DEF all, L, M
  <2>2. ASSUME NEW i \in 1..M  PROVE ((i - 1) * L) \div M + 1 \in 1..L - 1
    <3> DEFINE x == (i - 1) * L    q == x \div M
    <3>1. x \in Nat /\ x + L <= M * L
      <4>1. i * L <= M * L
        BY <1>1, TimesLeq
      <4>2. i * L = x + L /\ x \in Nat /\ M * L \in Int
        BY <1>1
      <4> QED  BY <4>1, <4>2
    <3> HIDE DEF x
    <3>2. q \in Nat /\ M * q <= x
      BY <1>1, <3>1
    <3> HIDE DEF q
    <3>3. q * M < (L - 1) * M
      <4>1. q * M = M * q /\ (L - 1) * M = M * L - M /\ M * q \in Int /\ M * L \in Int
        BY <1>1, <3>2
      <4> QED  BY <1>1, <1>3, <3>1, <3>2, <4>1
    <3>4. q < L - 1
      <4>1. L - 1 \in Nat
        BY <1>1, <1>3
      <4> HIDE DEF L
      <4> QED  BY <1>1, <3>2, <3>3, <4>1, TimesLess
    <3>5. q + 1 \in 1..L - 1
      BY <1>1, <3>2, <3>4
    <3> QED  BY <3>5 DEF q, x
  <2>3. f \in [1..M -> 1..L - 1]
    BY <2>2
  <2>4. f[1] = 1
    <3>1. 1 \in 1..M /\ (1 - 1) * L = 0 /\ 0 \div M = 0
      BY <1>1
    <3> QED  BY <3>1
  <2>5. ASSUME NEW i \in 1..M, NEW j \in 1..M, i < j  PROVE f[i] < f[j]
    <3> DEFINE x == (i - 1) * L    y == (j - 1) * L
    <3>1. x \in Int /\ y \in Int /\ y >= x + L
      <4>1. i * L <= (j - 1) * L
        BY <1>1, <2>5, TimesLeq
      <4>2. i * L = x + L /\ x \in Int /\ y \in Int
        BY <1>1
      <4> QED  BY <4>1, <4>2
    <3> HIDE DEF x, y
    <3>2. M * y >= M * x + M * M
      <4>1. M * (x + M) <= M * y
        BY <1>1, <1>3, <3>1, TimesLeq
      <4>2. M * (x + M) = M * x + M * M
        BY <1>1, <3>1
      <4> QED  BY <4>1, <4>2
    <3>3. x \div M \in Int /\ y \div M \in Int /\ y \div M > x \div M
      BY <1>1, <3>1, <3>2, QuotientsApart
    <3>4. f[i] = x \div M + 1 /\ f[j] = y \div M + 1
      BY DEF x, y
    <3> HIDE DEF f
    <3> QED  BY <3>3, <3>4
  <2>6. Grid(d) = [i \in 1..M |-> all[f[i]]]
    BY <2>1
  <2> HIDE DEF f
  <2>7. \E g \in [1..M -> 1..L - 1] : /\ Grid(d) = [i \in 1..M |-> all[g[i]]]
                                  /\ g[1] = 1 /\ \A i, j \in 1..M : i < j => g[i] < g[j]
    BY <2>3, <2>4, <2>5, <2>6
  <2> QED  BY <1>1, <1>3, <2>7 DEF Thins, all, L, M
<1> QED  BY <1>1, <1>2, <1>3

(* The grid of a sweep is of the definition the sweep began with.           *)
GridOfBase == sweep.pc # "off" => Axes(sweep.base) # <<>> /\ sweep.grid = Grid(sweep.base)

LEMMA GridStays == ASSUME SweepInv, GridOfBase, [SweepNext]_sweepVars  PROVE GridOfBase'
<1>1. CASE StartSweep
  <2>1. Axes(strategy) # <<>>
        /\ sweep' = [NoSweep EXCEPT !.pc = "screen", !.base = strategy, !.grid = Grid(strategy)]
    BY <1>1 DEF StartSweep
  <2> QED  BY <2>1 DEF GridOfBase, NoSweep
<1>2. CASE Screen
  <2>1. CASE sweep.n > Len(sweep.grid)
    BY <1>2, <2>1 DEF Screen, GridOfBase, SweepInv, RunInv
  <2>2. CASE ~(sweep.n > Len(sweep.grid))
    <3>1. PICK s \in Screened(sweep, sweep.grid[sweep.n]) : sweep' = [s EXCEPT !.n = @ + 1]
      BY <1>2, <2>2 DEF Screen
    <3>2. s.pc = sweep.pc /\ s.base = sweep.base /\ s.grid = sweep.grid
          /\ s \in [pc : {s.pc}, base : {s.base}, grid : {s.grid}, n : {s.n}, viable : {s.viable},
                    scored : {s.scored}, tally : {s.tally}]
      BY DEF Screened, Tally, Survives, SweepInv, RunInv
    <3>3. sweep'.pc = sweep.pc /\ sweep'.base = sweep.base /\ sweep'.grid = sweep.grid
      BY <3>1, <3>2
    <3> QED  BY <3>3 DEF GridOfBase
  <2> QED  BY <2>1, <2>2
<1>3. CASE Score
  <2>1. CASE sweep.n > Len(sweep.viable)
    BY <1>3, <2>1 DEF Score, GridOfBase, SweepInv, RunInv
  <2>2. CASE ~(sweep.n > Len(sweep.viable))
    <3> DEFINE point == sweep.viable[sweep.n]
    <3>1. PICK scores \in FoldOutcomes(point) :
            sweep' = [WithScores(sweep, point, scores) EXCEPT !.n = @ + 1]
      BY <1>3, <2>2 DEF Score
    <3> DEFINE s == WithScores(sweep, point, scores)
    <3>2. s.pc = sweep.pc /\ s.base = sweep.base /\ s.grid = sweep.grid
          /\ s \in [pc : {s.pc}, base : {s.base}, grid : {s.grid}, n : {s.n}, viable : {s.viable},
                    scored : {s.scored}, tally : {s.tally}]
      BY DEF WithScores, Tally, SweepInv, RunInv
    <3> HIDE DEF s
    <3>3. sweep'.pc = sweep.pc /\ sweep'.base = sweep.base /\ sweep'.grid = sweep.grid
      BY <3>1, <3>2 DEF s
    <3> QED  BY <3>3 DEF GridOfBase
  <2> QED  BY <2>1, <2>2
<1>4. CASE Rank
  BY <1>4 DEF Rank, GridOfBase, SweepInv, RunInv
<1>5. CASE EditStep
  <2>1. sweep' = sweep
    BY <1>5, EditDraws DEF SweepInv
  <2> QED  BY <2>1 DEF GridOfBase
<1>6. CASE TakeResult \/ UNCHANGED sweepVars
  <2>1. sweep' = sweep
    BY <1>6 DEF TakeResult, sweepVars
  <2> QED  BY <2>1 DEF GridOfBase
<1> QED  BY <1>1, <1>2, <1>3, <1>4, <1>5, <1>6 DEF SweepNext

(* The combinations of a sweep are the product of the ranges that were      *)
(* marked when it began, each of them once; and those it tries are all of   *)
(* them, or MaxEvals of them in the same order, with the first corner of    *)
(* the grid and without the last one.                                       *)
GridIsTheProduct ==
  sweep.pc # "off" =>
    /\ ListsEach(Combos(sweep.base), PointsOf(sweep.base, Optimized(sweep.base)))
    /\ Thins(Combos(sweep.base), sweep.grid)

LEMMA GridFromBase == ASSUME SweepInv, GridOfBase  PROVE GridIsTheProduct
<1> SUFFICES ASSUME sweep.pc # "off"  PROVE GridIsTheProduct
  BY DEF GridIsTheProduct
<1>1. /\ IsDrawn(sweep.base, lastRule) /\ lastRule \in Nat
      /\ Axes(sweep.base) # <<>> /\ sweep.grid = Grid(sweep.base)
  BY DEF SweepInv, BaseInv, GridOfBase
<1>2. ListsEach(Combos(sweep.base), PointsOf(sweep.base, Optimized(sweep.base)))
  BY <1>1, CombosListEach
<1>3. Thins(Combos(sweep.base), sweep.grid)
  <2>1. Len(Combos(sweep.base)) \in Nat
    BY <1>2 DEF ListsEach
  <2> QED  BY <1>1, <2>1, GridThins
<1> QED  BY <1>2, <1>3 DEF GridIsTheProduct

(* WalkForwardOptimizer._grid, over every definition a user can draw and    *)
(* whatever is edited while the sweep runs: no combination of the marked    *)
(* values is left out of the product and none is in it twice, so that what  *)
(* is tried is tried once; and a grid that is thinned, which by the comment *)
(* "keeps the corners", loses its last one.                                 *)
THEOREM GridAlwaysTheProduct == SweepSpec => []GridIsTheProduct
<1>1. SweepInit => SweepInv /\ GridOfBase
  BY SweepStarts DEF SweepInit, NoSweep, GridOfBase
<1>2. SweepInv /\ GridOfBase /\ [SweepNext]_sweepVars => (SweepInv /\ GridOfBase)'
  BY SweepNextKeeps, GridStays
<1>3. SweepInv /\ GridOfBase => GridIsTheProduct
  BY GridFromBase
<1> QED  BY <1>1, <1>2, <1>3, PTL DEF SweepSpec
=============================================================================
