----------------------------- MODULE PageProofs -----------------------------
(***************************************************************************)
(* Proofs about what the pages keep in memory: the jobs they start and     *)
(* poll (WebJobs), their conversations (ChatDrafts) and the plans they     *)
(* preview (PlanPreview).                                                  *)
(***************************************************************************)
EXTENDS WebJobs, ChatDrafts, PlanPreview, SequenceTheorems, FiniteSetTheorems,
        WellFoundedInduction, TLAPS

-----------------------------------------------------------------------------
(* Sequences: what is left of one when an element is taken out of it.       *)
LEMMA Removed ==
  ASSUME NEW S, NEW q \in Seq(S), NEW i \in 1..Len(q)
  PROVE  /\ RemoveAt(q, i) \in Seq(S) /\ Len(RemoveAt(q, i)) = Len(q) - 1
         /\ \A j \in 1..(Len(q) - 1) : RemoveAt(q, i)[j] = IF j < i THEN q[j] ELSE q[j + 1]
<1> DEFINE a == SubSeq(q, 1, i - 1)
           b == SubSeq(q, i + 1, Len(q))
<1>1. Len(q) \in Nat /\ \A j \in 1..Len(q) : q[j] \in S
  BY LenProperties, ElementOfSeq
<1>2. /\ a \in Seq(S) /\ Len(a) = i - 1 /\ \A j \in 1..(i - 1) : a[j] = q[j]
  <2>1. a \in Seq(S) /\ Len(a) = (IF 1 <= i - 1 THEN i - 1 - 1 + 1 ELSE 0)
        /\ \A j \in 1..(i - 1 - 1 + 1) : a[j] = q[1 + j - 1]
    BY <1>1, SubSeqProperties
  <2> HIDE DEF a
  <2> QED  BY <1>1, <2>1
<1>3. /\ b \in Seq(S) /\ Len(b) = Len(q) - i /\ \A j \in 1..(Len(q) - i) : b[j] = q[i + j]
  <2>1. b \in Seq(S) /\ Len(b) = (IF i + 1 <= Len(q) THEN Len(q) - (i + 1) + 1 ELSE 0)
        /\ \A j \in 1..(Len(q) - (i + 1) + 1) : b[j] = q[i + 1 + j - 1]
    BY <1>1, SubSeqProperties
  <2> HIDE DEF b
  <2> QED  BY <1>1, <2>1
<1>4. RemoveAt(q, i) = a \o b
  BY DEF RemoveAt
<1> HIDE DEF a, b
<1>5. a \o b \in Seq(S) /\ Len(a \o b) = Len(a) + Len(b)
      /\ \A j \in 1..(Len(a) + Len(b)) : (a \o b)[j] = IF j <= Len(a) THEN a[j] ELSE b[j - Len(a)]
  BY <1>2, <1>3, ConcatProperties
<1>6. Len(a) + Len(b) = Len(q) - 1
  BY <1>1, <1>2, <1>3
<1>7. ASSUME NEW j \in 1..(Len(q) - 1)  PROVE (a \o b)[j] = IF j < i THEN q[j] ELSE q[j + 1]
  <2>1. CASE j < i
    BY <1>1, <1>2, <1>5, <1>6, <2>1
  <2>2. CASE ~(j < i)
    <3>1. j - (i - 1) \in 1..(Len(q) - i) /\ i + (j - (i - 1)) = j + 1 /\ ~(j <= i - 1)
      BY <1>1, <2>2
    <3>2. (a \o b)[j] = b[j - (i - 1)]
      BY <1>2, <1>5, <1>6, <3>1
    <3> QED  BY <1>3, <2>2, <3>1, <3>2
  <2> QED  BY <2>1, <2>2
<1> QED  BY <1>4, <1>5, <1>6, <1>7

LEMMA RemovedSet ==
  ASSUME NEW S, NEW q \in Seq(S), NEW i \in 1..Len(q)
  PROVE  RemoveAt(q, i) \in Seq(S) /\ ToSet(RemoveAt(q, i)) \subseteq ToSet(q)
<1>1. RemoveAt(q, i) \in Seq(S) /\ Len(RemoveAt(q, i)) = Len(q) - 1 /\ Len(q) \in Nat
      /\ DOMAIN q = 1..Len(q)
  BY Removed, LenProperties
<1>2. DOMAIN RemoveAt(q, i) = 1..(Len(q) - 1)
  BY <1>1, LenProperties
<1>3. ASSUME NEW j \in 1..(Len(q) - 1)  PROVE \E m \in 1..Len(q) : RemoveAt(q, i)[j] = q[m]
  <2>1. RemoveAt(q, i)[j] = IF j < i THEN q[j] ELSE q[j + 1]
    BY Removed
  <2>2. j \in 1..Len(q) /\ j + 1 \in 1..Len(q)
    BY <1>1
  <2> QED  BY <2>1, <2>2
<1> QED  BY <1>1, <1>2, <1>3 DEF ToSet

LEMMA AppendedSet ==
  ASSUME NEW S, NEW q \in Seq(S), NEW e \in S
  PROVE  Append(q, e) \in Seq(S) /\ ToSet(Append(q, e)) = ToSet(q) \cup {e}
<1>1. /\ Append(q, e) \in Seq(S) /\ Len(Append(q, e)) = Len(q) + 1 /\ Len(q) \in Nat
      /\ \A i \in 1..Len(q) : Append(q, e)[i] = q[i]
      /\ Append(q, e)[Len(q) + 1] = e
      /\ DOMAIN q = 1..Len(q) /\ DOMAIN Append(q, e) = 1..(Len(q) + 1)
  BY AppendProperties, LenProperties
<1>2. 1..(Len(q) + 1) = (1..Len(q)) \cup {Len(q) + 1}
  BY <1>1
<1> QED  BY <1>1, <1>2 DEF ToSet

LEMMA Least ==
  ASSUME NEW T \in SUBSET Nat, T # {}
  PROVE  (CHOOSE d \in T : \A e \in T : d <= e) \in T
<1>1. PICK u \in T : \A y \in T : <<y, u>> \notin OpToRel(<, Nat)
  BY NatLessThanWellFounded, WFMin
<1>2. \A y \in T : ~(y < u)
  BY <1>1 DEF OpToRel
<1>3. \A y \in T : u <= y
  BY <1>2
<1> QED  BY <1>3

-----------------------------------------------------------------------------
(* Jobs.  A guard names the job of a session that the pages can still see   *)
(* unfinished, so that whoever asks for another finds it.                   *)
Jobs ==
  [kind : Kinds, sid : Sessions \cup {CHOOSE s \in Sessions : TRUE},
   pc : {"work", "last", "save", "compile", "spec", "engine", "finally", "off"},
   done : BOOLEAN, result : BOOLEAN, error : BOOLEAN, spec : BOOLEAN, chained : BOOLEAN,
   row : [SweepRows -> {"pending", "running", "done", "error"}]]
Guards == {GuardOf(k) : k \in Kinds}

JobTypes ==
  /\ job \in [JobIds -> Jobs] /\ started \in 0..Len(Plan)
  /\ progress \in [Kinds -> Seq(Nat)]
  /\ guarded \in [Guards -> [Sessions -> Nat]]

Admitted ==
  \A i \in JobIds : Unfinished(i) =>
    /\ job[i].sid \in Sessions /\ guarded[GuardOf(job[i].kind)][job[i].sid] = i
    /\ i <= started

GuardInv == JobTypes /\ Admitted

LEMMA PlanIds == JobIds = 1..Len(Plan) /\ Len(Plan) \in Nat
BY PlanAssumption, LenProperties DEF JobIds

LEMMA GuardInvInit == JobsInit => GuardInv
<1> SUFFICES ASSUME JobsInit PROVE GuardInv
  OBVIOUS
<1>1. NotStarted \in Jobs
  BY DEF NotStarted, NewJob, Jobs, Kinds
<1>2. JobTypes
  BY <1>1, EmptySeq DEF JobsInit, JobTypes, NoJob, Guards
<1>3. \A j : ~Held(j)
  BY EmptySeq DEF JobsInit, Held, ToSet
<1> QED  BY <1>2, <1>3 DEF GuardInv, Admitted, Unfinished

(* One job's thread or entry moves on.                                       *)
LEMMA JobMoves ==
  ASSUME GuardInv, NEW j \in JobIds, NEW b \in Jobs, job' = [job EXCEPT ![j] = b],
         b.kind = job[j].kind, b.sid = job[j].sid, job[j].done => b.done,
         UNCHANGED <<started, progress, guarded>>
  PROVE  GuardInv'
<1>1. job'[j] = b /\ \A i \in JobIds \ {j} : job'[i] = job[i]
  BY DEF GuardInv, JobTypes
<1>2. JobTypes'
  BY DEF GuardInv, JobTypes
<1>3. \A i \in JobIds : /\ Unfinished(i)' => Unfinished(i)
                        /\ job'[i].kind = job[i].kind /\ job'[i].sid = job[i].sid
  BY <1>1 DEF Unfinished, Held
<1> QED  BY <1>2, <1>3 DEF GuardInv, Admitted

(* Fewer entries are seen, and no other guard changes than what names no    *)
(* unfinished job.                                                          *)
LEMMA FewerSeen ==
  ASSUME GuardInv, JobTypes', UNCHANGED <<job, started>>,
         \A k \in Kinds : ToSet(progress'[k]) \subseteq ToSet(progress[k]),
         \A g \in Guards, s \in Sessions : guarded'[g][s] = guarded[g][s] \/ ~Busy(g, s)
  PROVE  GuardInv'
<1> SUFFICES ASSUME NEW i \in JobIds, Unfinished(i)'
             PROVE  /\ job[i].sid \in Sessions /\ guarded'[GuardOf(job[i].kind)][job[i].sid] = i
                    /\ i <= started
  BY DEF GuardInv, Admitted
<1>1. Unfinished(i)
  BY DEF Unfinished, Held
<1>2. /\ job[i].sid \in Sessions /\ guarded[GuardOf(job[i].kind)][job[i].sid] = i /\ i <= started
      /\ job[i].kind \in Kinds
  BY <1>1 DEF GuardInv, Admitted, JobTypes, Jobs
<1>3. GuardOf(job[i].kind) \in Guards /\ Busy(GuardOf(job[i].kind), job[i].sid)
  BY <1>1, <1>2 DEF Guards, Busy
<1> QED  BY <1>2, <1>3

LEMMA StepKeeps ==
  ASSUME GuardInv, NEW j \in JobIds, JobStep(j) \/ PollGen(j)
  PROVE  GuardInv'
<1>0. job[j] \in Jobs
  BY DEF GuardInv, JobTypes
<1>r. ASSUME NEW f \in Jobs, f.kind = job[j].kind, f.sid = job[j].sid, job[j].done => f.done,
             NEW pc \in {"work", "last", "save", "compile", "spec", "engine", "finally", "off"},
             Reach(j, f, pc), UNCHANGED <<started, progress, guarded>>
      PROVE  GuardInv'
  <2> DEFINE e == IF Held(j) THEN f ELSE job[j]
             b == [e EXCEPT !.pc = pc]
  <2>1. e \in Jobs /\ e.kind = job[j].kind /\ e.sid = job[j].sid /\ (job[j].done => e.done)
    BY <1>0, <1>r
  <2>2. job' = [job EXCEPT ![j] = b]
    BY <1>r DEF Reach
  <2> HIDE DEF e
  <2>3. b \in Jobs /\ b.kind = e.kind /\ b.sid = e.sid /\ b.done = e.done
    BY <2>1 DEF Jobs
  <2> HIDE DEF b
  <2> QED  BY <1>r, <2>1, <2>2, <2>3, JobMoves
<1>o. ASSUME NEW pc \in {"work", "last", "save", "compile", "spec", "engine", "finally", "off"},
             Onward(j, pc), UNCHANGED <<started, progress, guarded>>
      PROVE  GuardInv'
  <2> DEFINE b == [job[j] EXCEPT !.pc = pc]
  <2>1. b \in Jobs /\ b.kind = job[j].kind /\ b.sid = job[j].sid /\ b.done = job[j].done
    BY <1>0 DEF Jobs
  <2>2. job' = [job EXCEPT ![j] = b]
    BY <1>o DEF Onward
  <2> HIDE DEF b
  <2> QED  BY <1>o, <2>1, <2>2, JobMoves
<1>e. LET f == [job[j] EXCEPT !.error = TRUE]
      IN  f \in Jobs /\ f.kind = job[j].kind /\ f.sid = job[j].sid /\ f.done = job[j].done
  BY <1>0 DEF Jobs
<1>t. LET f == [job[j] EXCEPT !.result = TRUE]
      IN  f \in Jobs /\ f.kind = job[j].kind /\ f.sid = job[j].sid /\ f.done = job[j].done
  BY <1>0 DEF Jobs
<1>s. LET f == [job[j] EXCEPT !.spec = TRUE]
      IN  f \in Jobs /\ f.kind = job[j].kind /\ f.sid = job[j].sid /\ f.done = job[j].done
  BY <1>0 DEF Jobs
<1>d. LET f == [job[j] EXCEPT !.done = TRUE]
      IN  f \in Jobs /\ f.kind = job[j].kind /\ f.sid = job[j].sid /\ f.done
  BY <1>0 DEF Jobs
<1>1. CASE JobFails(j)
  BY <1>1, <1>e, <1>r DEF JobFails
<1>2. CASE RunBacktest(j) \/ RunSuite(j) \/ LabBacktest(j)
  BY <1>2, <1>t, <1>r DEF RunBacktest, RunSuite, LabBacktest
<1>3. CASE NameSpec(j)
  BY <1>3, <1>s, <1>r DEF NameSpec
<1>4. CASE JobDone(j)
  BY <1>4, <1>d, <1>r DEF JobDone
<1>5. CASE LastResultSet(j) \/ WriteBlocks(j) \/ SaveOne(j) \/ Compile(j) \/ SweepOver(j)
  BY <1>5, <1>o DEF LastResultSet, WriteBlocks, SaveOne, Compile, SweepOver
<1>6. ASSUME NEW r \in SweepRows, SweepRow(j, r)  PROVE GuardInv'
  <2>1. PICK status \in {"running", "done", "error"} : job' = [job EXCEPT ![j].row[r] = status]
    BY <1>6 DEF SweepRow
  <2> DEFINE b == [job[j] EXCEPT !.row = [job[j].row EXCEPT ![r] = status]]
  <2>2. job' = [job EXCEPT ![j] = b]
    BY <2>1
  <2>3. b \in Jobs /\ b.kind = job[j].kind /\ b.sid = job[j].sid /\ b.done = job[j].done
    BY <1>0 DEF Jobs
  <2> HIDE DEF b
  <2> QED  BY <1>6, <2>2, <2>3, JobMoves DEF SweepRow
<1>7. CASE PollGen(j)
  <2> DEFINE b == [job[j] EXCEPT !.chained = TRUE]
  <2>1. b \in Jobs /\ b.kind = job[j].kind /\ b.sid = job[j].sid /\ b.done = job[j].done
    BY <1>0 DEF Jobs
  <2>2. job' = [job EXCEPT ![j] = b] /\ UNCHANGED <<started, progress, guarded>>
    BY <1>7 DEF PollGen
  <2> HIDE DEF b
  <2> QED  BY <2>1, <2>2, JobMoves
<1> QED  BY <1>1, <1>2, <1>3, <1>4, <1>5, <1>6, <1>7 DEF JobStep

LEMMA PollKeeps ==
  ASSUME GuardInv, NEW j \in JobIds, PollJob(j)
  PROVE  GuardInv'
<1> DEFINE k == job[j].kind
<1>1. k \in Kinds /\ progress[k] \in Seq(Nat)
  BY DEF GuardInv, JobTypes, Jobs
<1>2. PICK i \in DOMAIN progress[k] : progress' = [progress EXCEPT ![k] = RemoveAt(progress[k], i)]
  BY DEF PollJob
<1>3. RemoveAt(progress[k], i) \in Seq(Nat) /\ ToSet(RemoveAt(progress[k], i)) \subseteq ToSet(progress[k])
  BY <1>1, <1>2, RemovedSet, LenProperties
<1>4. UNCHANGED <<job, started, guarded>>
  BY DEF PollJob
<1> HIDE DEF k
<1>5. JobTypes' /\ \A x \in Kinds : ToSet(progress'[x]) \subseteq ToSet(progress[x])
  BY <1>1, <1>2, <1>3, <1>4 DEF GuardInv, JobTypes
<1> QED  BY <1>4, <1>5, FewerSeen

LEMMA RefuseKeeps ==
  ASSUME GuardInv, NEW s \in Sessions, NEW g \in DOMAIN guarded, Refuse(s, g)
  PROVE  GuardInv'
<1>1. guarded' = [guarded EXCEPT ![g][s] = NoJob] /\ ~Busy(g, s) /\ UNCHANGED <<job, started, progress>>
  BY DEF Refuse
<1>2. guarded' \in [Guards -> [Sessions -> Nat]]
  BY <1>1 DEF GuardInv, JobTypes, NoJob
<1>3. \A h \in Guards, x \in Sessions : guarded'[h][x] = guarded[h][x] \/ ~Busy(h, x)
  BY <1>1 DEF GuardInv, JobTypes
<1> QED  BY <1>1, <1>2, <1>3, FewerSeen DEF GuardInv, JobTypes

LEMMA EvictedSet ==
  ASSUME GuardInv, NEW k \in Kinds
  PROVE  Evicted(k) \in Seq(Nat) /\ ToSet(Evicted(k)) \subseteq ToSet(progress[k])
<1> DEFINE q == progress[k]
           done == {i \in DOMAIN q : job[q[i]].done}
           i == IF done = {} THEN 1 ELSE CHOOSE d \in done : \A e \in done : d <= e
<1>1. q \in Seq(Nat) /\ Len(q) \in Nat /\ DOMAIN q = 1..Len(q)
  BY LenProperties DEF GuardInv, JobTypes
<1>2. Evicted(k) = IF Len(q) < RunsKept[k] THEN q ELSE RemoveAt(q, i)
  BY DEF Evicted
<1>3. RunsKept[k] \in Nat \ {0}
  BY JobBoundsAssumption
<1>4. done # {} => i \in done
  <2>1. done \in SUBSET Nat
    BY <1>1
  <2> HIDE DEF done
  <2> QED  BY <2>1, Least
<1>5. ~(Len(q) < RunsKept[k]) => i \in 1..Len(q)
  <2>1. done = {} => i = 1
    OBVIOUS
  <2>2. done \subseteq 1..Len(q)
    BY <1>1
  <2> HIDE DEF q, done, i
  <2>3. CASE done = {}
    BY <1>1, <1>3, <2>1, <2>3
  <2>4. CASE done # {}
    BY <1>4, <2>2, <2>4
  <2> QED  BY <2>3, <2>4
<1> HIDE DEF q, i
<1> QED  BY <1>1, <1>2, <1>5, RemovedSet DEF q

LEMMA AdmitKeeps ==
  ASSUME GuardInv, NEW s \in Sessions, NEW k \in Kinds, AdmitJob(s, k)
  PROVE  GuardInv'
<1> DEFINE n == started + 1
           g == GuardOf(k)
           new == NewJob(k, s)
           q == Append(Evicted(k), n)
<1>1. n \in JobIds /\ n \in Nat /\ n # NoJob /\ started' = n /\ \A i \in Nat : i <= started => i # n /\ i <= n
  BY PlanIds DEF AdmitJob, GuardInv, JobTypes, NoJob
<1>2. /\ job' = [job EXCEPT ![n] = new] /\ progress' = [progress EXCEPT ![k] = q] /\ ~Busy(g, s)
      /\ SetActive(g, s, n)
  BY DEF AdmitJob
<1>3. new \in Jobs /\ new.kind = k /\ new.sid = s
  BY DEF NewJob, Jobs
<1>4. g \in Guards
  BY DEF Guards
<1>5. q \in Seq(Nat) /\ ToSet(q) \subseteq ToSet(progress[k]) \cup {n}
  BY <1>1, EvictedSet, AppendedSet
<1>6. \E full : guarded' = [guarded EXCEPT ![g] = [x \in Sessions |->
        IF x = s THEN n ELSE IF full /\ ~Unfinished(guarded[g][x]) THEN NoJob ELSE guarded[g][x]]]
  BY <1>2 DEF SetActive
<1> HIDE DEF n, g, new, q
<1>7. /\ job'[n] = new /\ \A i \in JobIds \ {n} : job'[i] = job[i]
      /\ job' \in [JobIds -> Jobs] /\ progress' \in [Kinds -> Seq(Nat)]
      /\ \A x \in Kinds : ToSet(progress'[x]) \subseteq ToSet(progress[x]) \cup {n}
  BY <1>1, <1>2, <1>3, <1>5 DEF GuardInv, JobTypes
<1>8. /\ guarded' \in [Guards -> [Sessions -> Nat]] /\ guarded'[g][s] = n
      /\ \A h \in Guards \ {g} : guarded'[h] = guarded[h]
      /\ \A x \in Sessions \ {s} : Unfinished(guarded[g][x]) => guarded'[g][x] = guarded[g][x]
  BY <1>1, <1>4, <1>6 DEF GuardInv, JobTypes, NoJob
<1>9. JobTypes'
  <2>1. started' \in 0..Len(Plan)
    BY <1>1, PlanIds
  <2> QED  BY <2>1, <1>7, <1>8 DEF JobTypes
<1>10. ASSUME NEW i \in JobIds, Unfinished(i)'
       PROVE  /\ job'[i].sid \in Sessions /\ guarded'[GuardOf(job'[i].kind)][job'[i].sid] = i
              /\ i <= started'
  <2>1. CASE i = n
    BY <1>1, <1>3, <1>7, <1>8, <2>1 DEF g
  <2>2. CASE i # n
    <3>1. job'[i] = job[i] /\ Unfinished(i)
      <4>1. job'[i] = job[i]
        BY <1>7, <2>2
      <4>2. i # NoJob /\ ~job'[i].done /\ \E x \in Kinds : i \in ToSet(progress'[x])
        BY <1>10 DEF Unfinished, Held
      <4>3. \E x \in Kinds : i \in ToSet(progress[x])
        BY <1>7, <2>2, <4>2
      <4> QED  BY <4>1, <4>2, <4>3 DEF Unfinished, Held
    <3>2. /\ job[i].sid \in Sessions /\ guarded[GuardOf(job[i].kind)][job[i].sid] = i /\ i <= started
          /\ job[i].kind \in Kinds /\ GuardOf(job[i].kind) \in Guards /\ i \in Nat
      BY <3>1, PlanIds DEF GuardInv, Admitted, JobTypes, Jobs, Guards
    <3>3. GuardOf(job[i].kind) = g => job[i].sid # s
      BY <1>2, <3>1, <3>2 DEF Busy
    <3>4. guarded'[GuardOf(job[i].kind)][job[i].sid] = i
      BY <1>8, <3>1, <3>2, <3>3
    <3> QED  BY <1>1, <3>1, <3>2, <3>4
  <2> QED  BY <2>1, <2>2
<1> QED  BY <1>9, <1>10 DEF GuardInv, Admitted

LEMMA GuardInvariant == JobsSpec => []GuardInv
<1>1. GuardInv /\ [JobsNext]_jobVars => GuardInv'
  <2> SUFFICES ASSUME GuardInv, [JobsNext]_jobVars PROVE GuardInv'
    OBVIOUS
  <2>1. ASSUME UNCHANGED <<job, started, progress, guarded>> PROVE GuardInv'
    BY <2>1 DEF GuardInv, JobTypes, Admitted, Unfinished, Held
  <2>2. (\E s \in Sessions : ViewLast(s)) \/ UNCHANGED jobVars => UNCHANGED <<job, started, progress, guarded>>
    BY DEF ViewLast, jobVars
  <2> QED  BY <2>1, <2>2, AdmitKeeps, RefuseKeeps, StepKeeps, PollKeeps DEF JobsNext
<1> QED  BY <1>1, GuardInvInit, PTL DEF JobsSpec

(* A session has at most one unfinished job that the pages can see under    *)
(* each guard (SessionRunGuard of web/shared.py): for stores and guards of  *)
(* any size and any plan of jobs, whatever was evicted, polled, refused or  *)
(* pruned before.                                                           *)
THEOREM OneVisibleJobAlways == JobsSpec => []OneVisibleJob
<1>1. GuardInv => OneVisibleJob
  <2> SUFFICES ASSUME GuardInv, NEW i \in 1..started, NEW j \in 1..started,
                      Unfinished(i), Unfinished(j), i # j,
                      GuardOf(job[i].kind) = GuardOf(job[j].kind), job[i].sid = job[j].sid
               PROVE  FALSE
    BY DEF OneVisibleJob
  <2>1. i \in JobIds /\ j \in JobIds
    BY PlanIds DEF GuardInv, JobTypes
  <2> QED  BY <2>1 DEF GuardInv, Admitted
<1> QED  BY <1>1, GuardInvariant, PTL

-----------------------------------------------------------------------------
(* Conversations.  The store has one of a name, and none yet of the name a  *)
(* request is still opening one under.                                      *)
Convs == [id : Nat, turns : Seq(Nat), blocks : SUBSET Nat]
Asking ==
  [pc : {"none", "asking", "answered"}, user : Users \cup {CHOOSE u \in Users : TRUE}, chat : Nat,
   turns : Seq(Nat), blocks : SUBSET Nat]
DraftRecs == [user : Users, blocks : SUBSET Nat]
Distinct(q) == \A i, j \in DOMAIN q : q[i].id = q[j].id => i = j

ChatTypes ==
  /\ request \in [Requests -> Asking] /\ asked \in Nat
  /\ chats \in Seq(Convs)
  /\ drafts \in Seq(DraftRecs)

ChatInv ==
  /\ ChatTypes /\ Distinct(chats)
  /\ \A c \in ToSet(chats) : c.id \in 1..asked
  /\ \A r \in Requests : request[r].pc = "asking" =>
       r <= asked /\ (request[r].chat = r => \A c \in ToSet(chats) : c.id # r)

LEMMA KeptSuffix ==
  ASSUME NEW S, NEW q \in Seq(S), NEW p \in Kept(q)
  PROVE  /\ p \in Seq(S)
         /\ \E n \in Nat : /\ \A i \in DOMAIN p : n + i \in DOMAIN q /\ p[i] = q[n + i]
                           /\ DOMAIN p \subseteq Nat
<1>1. Len(q) \in Nat /\ DOMAIN q = 1..Len(q) /\ \A i \in 1..Len(q) : q[i] \in S
  BY LenProperties, ElementOfSeq
<1>2. PICK n \in 0..(Len(q) - 1) : p = SubSeq(q, n + 1, Len(q))
  BY DEF Kept
<1>3. p \in Seq(S) /\ Len(p) = (IF n + 1 <= Len(q) THEN Len(q) - (n + 1) + 1 ELSE 0)
      /\ \A i \in 1..(Len(q) - (n + 1) + 1) : p[i] = q[n + 1 + i - 1]
  BY <1>1, <1>2, SubSeqProperties
<1>4. DOMAIN p = 1..(Len(q) - n)
  BY <1>1, <1>2, <1>3, LenProperties
<1>5. \A i \in 1..(Len(q) - n) : n + i \in 1..Len(q) /\ p[i] = q[n + i]
  BY <1>1, <1>2, <1>3
<1>6. n \in Nat /\ DOMAIN p \subseteq Nat /\ \A i \in DOMAIN p : n + i \in DOMAIN q /\ p[i] = q[n + i]
  BY <1>1, <1>4, <1>5
<1> QED  BY <1>3, <1>6

LEMMA KeptDistinct ==
  ASSUME NEW S, NEW q \in Seq(S), NEW p \in Kept(q), Distinct(q)
  PROVE  p \in Seq(S) /\ Distinct(p) /\ ToSet(p) \subseteq ToSet(q)
<1>1. PICK n \in Nat : /\ \A i \in DOMAIN p : n + i \in DOMAIN q /\ p[i] = q[n + i]
                       /\ DOMAIN p \subseteq Nat
  BY KeptSuffix
<1>2. ASSUME NEW i \in DOMAIN p, NEW j \in DOMAIN p, p[i].id = p[j].id  PROVE i = j
  <2>1. n + i = n + j
    BY <1>1, <1>2 DEF Distinct
  <2>2. i \in Nat /\ j \in Nat
    BY <1>1
  <2> QED  BY <2>1, <2>2
<1>3. ToSet(p) \subseteq ToSet(q)
  BY <1>1 DEF ToSet
<1> QED  BY <1>2, <1>3, KeptSuffix DEF Distinct

(* A conversation is stamped anew: it is the freshest of its name.           *)
LEMMA Stamped ==
  ASSUME NEW q \in Seq(Convs), NEW e \in Convs, Distinct(q), \A c \in ToSet(q) : c.id # e.id,
         NEW p \in Kept(Append(q, e))
  PROVE  p \in Seq(Convs) /\ Distinct(p) /\ ToSet(p) \subseteq ToSet(q) \cup {e}
<1> DEFINE f == Append(q, e)
<1>1. /\ f \in Seq(Convs) /\ ToSet(f) = ToSet(q) \cup {e} /\ Len(q) \in Nat
      /\ DOMAIN f = 1..(Len(q) + 1) /\ DOMAIN q = 1..Len(q)
      /\ f[Len(q) + 1] = e /\ \A i \in 1..Len(q) : f[i] = q[i]
  BY AppendedSet, AppendProperties, LenProperties
<1> HIDE DEF f
<1>2. Distinct(f)
  <2> SUFFICES ASSUME NEW i \in DOMAIN f, NEW j \in DOMAIN f, f[i].id = f[j].id PROVE i = j
    BY DEF Distinct
  <2>1. \A m \in 1..Len(q) : q[m] \in ToSet(q)
    BY <1>1 DEF ToSet
  <2>2. (i \in 1..Len(q) \/ i = Len(q) + 1) /\ (j \in 1..Len(q) \/ j = Len(q) + 1)
    BY <1>1
  <2> QED  BY <1>1, <2>1, <2>2 DEF Distinct
<1> QED  BY <1>1, <1>2, KeptDistinct DEF f

LEMMA TakenOut ==
  ASSUME NEW q \in Seq(Convs), NEW i \in DOMAIN q, Distinct(q)
  PROVE  /\ RemoveAt(q, i) \in Seq(Convs) /\ Distinct(RemoveAt(q, i))
         /\ ToSet(RemoveAt(q, i)) \subseteq ToSet(q)
         /\ \A c \in ToSet(RemoveAt(q, i)) : c.id # q[i].id
<1> DEFINE p == RemoveAt(q, i)
<1>1. /\ Len(q) \in Nat /\ DOMAIN q = 1..Len(q) /\ p \in Seq(Convs) /\ Len(p) = Len(q) - 1
      /\ ToSet(p) \subseteq ToSet(q)
      /\ \A j \in 1..(Len(q) - 1) : p[j] = IF j < i THEN q[j] ELSE q[j + 1]
  BY LenProperties, Removed, RemovedSet
<1>2. DOMAIN p = 1..(Len(q) - 1)
  BY <1>1, LenProperties
<1> HIDE DEF p
<1>3. \A j \in DOMAIN p : \E m \in DOMAIN q : p[j] = q[m] /\ m # i /\ (m = j \/ m = j + 1)
  BY <1>1, <1>2
<1>4. ASSUME NEW j \in DOMAIN p, NEW l \in DOMAIN p, p[j].id = p[l].id  PROVE j = l
  <2> DEFINE Old(x) == IF x < i THEN x ELSE x + 1
  <2>1. p[j] = q[Old(j)] /\ p[l] = q[Old(l)] /\ Old(j) \in DOMAIN q /\ Old(l) \in DOMAIN q
    BY <1>1, <1>2
  <2>2. Old(j) = Old(l)
    <3> HIDE DEF Old
    <3> QED  BY <1>4, <2>1 DEF Distinct
  <2> QED  BY <1>1, <1>2, <2>2
<1>5. \A c \in ToSet(p) : c.id # q[i].id
  BY <1>3 DEF ToSet, Distinct
<1> QED  BY <1>1, <1>4, <1>5 DEF p, Distinct

LEMMA AssignedType ==
  ASSUME NEW q \in Seq(DraftRecs), NEW u \in Users, NEW b \in SUBSET Nat
  PROVE  Assigned(q, u, b) \in Seq(DraftRecs)
<1>1. Len(q) \in Nat /\ DOMAIN q = 1..Len(q) /\ \A i \in 1..Len(q) : q[i] \in DraftRecs
  BY LenProperties, ElementOfSeq
<1>2. \A i \in 1..Len(q) : [q[i] EXCEPT !.blocks = b] \in DraftRecs
  BY <1>1 DEF DraftRecs
<1>3. [i \in DOMAIN q |-> IF q[i].user = u THEN [q[i] EXCEPT !.blocks = b] ELSE q[i]]
        \in [1..Len(q) -> DraftRecs]
  BY <1>1, <1>2
<1>4. [user |-> u, blocks |-> b] \in DraftRecs
  BY DEF DraftRecs
<1>5. Append(q, [user |-> u, blocks |-> b]) \in Seq(DraftRecs)
  BY <1>4, AppendedSet
<1>6. [i \in DOMAIN q |-> IF q[i].user = u THEN [q[i] EXCEPT !.blocks = b] ELSE q[i]] \in Seq(DraftRecs)
  BY <1>1, <1>3
<1> QED  BY <1>5, <1>6 DEF Assigned

LEMMA TouchedType ==
  ASSUME ChatTypes, NEW u \in Users
  PROVE  Touched(u) \in Seq(DraftRecs) /\ TouchedBlocks(u) \in SUBSET Nat
<1>1. /\ drafts \in Seq(DraftRecs) /\ Len(drafts) \in Nat /\ DOMAIN drafts = 1..Len(drafts)
      /\ \A i \in 1..Len(drafts) : drafts[i] \in DraftRecs
  BY LenProperties, ElementOfSeq DEF ChatTypes
<1>2. Len(drafts) >= DraftCap => Tail(drafts) \in Seq(DraftRecs)
  <2>1. Len(drafts) >= DraftCap => drafts # <<>>
    BY <1>1, ChatBoundsAssumption, EmptySeq
  <2> QED  BY <1>1, <2>1, HeadTailProperties
<1>3. [user |-> u, blocks |-> {}] \in DraftRecs
  BY DEF DraftRecs
<1>4. \A d \in DraftsOf(u) : d.blocks \subseteq Nat
  BY <1>1 DEF DraftsOf, ToSet, DraftRecs
<1>5. \A q \in Seq(DraftRecs) : Append(q, [user |-> u, blocks |-> {}]) \in Seq(DraftRecs)
  BY <1>3, AppendedSet
<1> QED  BY <1>1, <1>2, <1>4, <1>5 DEF Touched, TouchedBlocks

LEMMA ChatInvInit == ChatInit => ChatInv
<1> SUFFICES ASSUME ChatInit PROVE ChatInv
  OBVIOUS
<1>1. Unasked \in Asking /\ Unasked.pc = "none"
  <2>1. <<>> \in Seq(Nat)
    BY EmptySeq
  <2> QED  BY <2>1 DEF Unasked, Asking
<1>2. DOMAIN chats = {} /\ chats \in Seq(Convs) /\ drafts \in Seq(DraftRecs)
  BY EmptySeq DEF ChatInit
<1> QED  BY <1>1, <1>2 DEF ChatInit, ChatInv, ChatTypes, Distinct, ToSet

(* What a step may do to the conversations.                                  *)
Said ==
  \A c \in ToSet(chats), d \in ToSet(chats') :
    c.id = d.id /\ c # d => \E r \in Requests : d.turns = Append(c.turns, r)
Gone ==
  \A d \in ToSet(chats') :
    Chat(d.id) = {} => request[d.id].pc = "asking" /\ d.turns = <<d.id>>

LEMMA ChatsAre ==
  ASSUME ChatInv
  PROVE  /\ \A c \in ToSet(chats) : c \in Convs
         /\ \A c, d \in ToSet(chats) : c.id = d.id => c = d
<1>1. DOMAIN chats = 1..Len(chats) /\ \A i \in 1..Len(chats) : chats[i] \in Convs
  BY LenProperties, ElementOfSeq DEF ChatInv, ChatTypes
<1> QED  BY <1>1 DEF ToSet, ChatInv, Distinct

(* A step that leaves the conversations alone.                               *)
LEMMA RequestMoves ==
  ASSUME ChatInv, UNCHANGED chats, drafts' \in Seq(DraftRecs),
         NEW r \in Requests, NEW b \in Asking, request' = [request EXCEPT ![r] = b],
         asked' \in Nat, asked <= asked',
         b.pc = "asking" => r <= asked' /\ (b.chat = r => \A c \in ToSet(chats) : c.id # r)
  PROVE  ChatInv' /\ Said /\ Gone
<1>1. request'[r] = b /\ \A x \in Requests \ {r} : request'[x] = request[x]
  BY DEF ChatInv, ChatTypes
<1>2. ChatTypes'
  BY DEF ChatInv, ChatTypes
<1>3. \A c \in ToSet(chats) : c.id \in 1..asked'
  BY DEF ChatInv, ChatTypes
<1>4. \A x \in Requests : x <= asked => x <= asked'
  BY DEF ChatInv, ChatTypes, Requests
<1>5. ChatInv'
  BY <1>1, <1>2, <1>3, <1>4 DEF ChatInv, Distinct
<1>6. Said
  BY ChatsAre DEF Said
<1>7. Gone
  BY DEF Gone, Chat
<1> QED  BY <1>5, <1>6, <1>7

(* An answer comes to the store: e is new, or in the place of the one at i.  *)
LEMMA StampKeeps ==
  ASSUME ChatInv, UNCHANGED <<asked, drafts>>, NEW r \in Requests, NEW b \in Asking, b.pc # "asking",
         request' = [request EXCEPT ![r] = b], request[r].pc = "asking",
         NEW q \in Seq(Convs), NEW e \in Convs, Distinct(q), ToSet(q) \subseteq ToSet(chats),
         \A c \in ToSet(q) : c.id # e.id, e.id \in 1..asked,
         chats' \in Kept(Append(q, e)),
         \/ e.id = r /\ e.turns = <<r>> /\ \A c \in ToSet(chats) : c.id # r
         \/ \E c \in ToSet(chats) : c.id = e.id /\ e.turns = Append(c.turns, r)
  PROVE  ChatInv' /\ Said /\ Gone
<1>1. chats' \in Seq(Convs) /\ Distinct(chats') /\ ToSet(chats') \subseteq ToSet(q) \cup {e}
  BY Stamped
<1>2. request'[r] = b /\ \A x \in Requests \ {r} : request'[x] = request[x]
  BY DEF ChatInv, ChatTypes
<1>3. ChatTypes'
  BY <1>1 DEF ChatInv, ChatTypes
<1>4. \A c \in ToSet(chats') : c.id \in 1..asked
  BY <1>1 DEF ChatInv
<1>5. ASSUME NEW x \in Requests, request'[x].pc = "asking"
      PROVE  x <= asked /\ (request'[x].chat = x => \A c \in ToSet(chats') : c.id # x)
  <2>1. x # r /\ request'[x] = request[x]
    BY <1>2, <1>5
  <2>2. x <= asked /\ (request[x].chat = x => \A c \in ToSet(chats) : c.id # x)
    BY <1>5, <2>1 DEF ChatInv
  <2>3. request[x].chat = x => e.id # x
    BY <2>1, <2>2
  <2> QED  BY <1>1, <2>1, <2>2, <2>3
<1>6. ChatInv'
  BY <1>1, <1>3, <1>4, <1>5 DEF ChatInv, Distinct
<1>7. Said
  BY <1>1, ChatsAre DEF Said
<1>8. Gone
  BY <1>1, ChatsAre DEF Gone, Chat
<1> QED  BY <1>6, <1>7, <1>8

LEMMA AskedKeeps ==
  ASSUME ChatInv, NEW r \in Requests, NEW u \in Users,
         \/ AddDraft(r, u) \/ DeleteDraft(r, u) \/ ReplaceDrafts(r, u) \/ SaveStrategy(r, u)
         \/ DraftsChatNew(r, u) \/ Turn(r, u) \/ ApplyChat(r, u)
  PROVE  ChatInv' /\ Said /\ Gone
<1>0. /\ ChatTypes /\ drafts \in Seq(DraftRecs) /\ Touched(u) \in Seq(DraftRecs)
      /\ TouchedBlocks(u) \in SUBSET Nat /\ r \in Nat /\ asked \in Nat
      /\ \A c \in ToSet(chats) : c \in Convs /\ c.id \in 1..asked
      /\ <<>> \in Seq(Nat)
  BY ChatsAre, TouchedType, EmptySeq DEF ChatInv, ChatTypes, Requests
<1>1. UNCHANGED chats /\ asked' = r /\ r = asked + 1 /\ asked' \in Nat /\ asked <= asked'
  BY <1>0 DEF AddDraft, DeleteDraft, ReplaceDrafts, SaveStrategy, DraftsChatNew, Turn, ApplyChat, Ask
<1>2. ASSUME Done(r, u), drafts' \in Seq(DraftRecs)  PROVE ChatInv' /\ Said /\ Gone
  <2> DEFINE b == [Unasked EXCEPT !.pc = "answered", !.user = u]
  <2>1. b \in Asking /\ b.pc = "answered" /\ request' = [request EXCEPT ![r] = b]
    BY <1>0, <1>2 DEF Done, Unasked, Asking
  <2> HIDE DEF b
  <2> QED  BY <1>1, <1>2, <2>1, RequestMoves
<1>3. ASSUME NEW id \in Nat, NEW turns \in Seq(Nat), NEW blocks \in SUBSET Nat,
             Waiting(r, u, id, turns, blocks), UNCHANGED drafts
      PROVE  ChatInv' /\ Said /\ Gone
  <2> DEFINE b == [pc |-> "asking", user |-> u, chat |-> id, turns |-> turns, blocks |-> blocks]
  <2>1. b \in Asking /\ request' = [request EXCEPT ![r] = b]
    BY <1>3 DEF Waiting, Asking
  <2>2. r <= asked' /\ \A c \in ToSet(chats) : c.id # r
    BY <1>0, <1>1
  <2>3. drafts' \in Seq(DraftRecs)
    BY <1>0, <1>3
  <2> HIDE DEF b
  <2> QED  BY <1>1, <2>1, <2>2, <2>3, RequestMoves
<1>4. CASE AddDraft(r, u)
  <2>1. TouchedBlocks(u) \cup {r} \in SUBSET Nat
    BY <1>0
  <2> QED  BY <1>0, <1>2, <1>4, <2>1, AssignedType DEF AddDraft
<1>5. CASE DeleteDraft(r, u)
  <2>1. \A b : TouchedBlocks(u) \ {b} \in SUBSET Nat
    BY <1>0
  <2> QED  BY <1>0, <1>2, <1>5, <2>1, AssignedType DEF DeleteDraft
<1>6. CASE ReplaceDrafts(r, u)
  <2>1. {r} \in SUBSET Nat
    BY <1>0
  <2> QED  BY <1>0, <1>2, <1>6, <2>1, AssignedType DEF ReplaceDrafts
<1>7. CASE SaveStrategy(r, u)
  <2>1. {} \in SUBSET Nat
    OBVIOUS
  <2> QED  BY <1>0, <1>2, <1>7, <2>1, AssignedType DEF SaveStrategy
<1>8. CASE DraftsChatNew(r, u)
  BY <1>0, <1>3, <1>8 DEF DraftsChatNew
<1>9. CASE Turn(r, u)
  <2>1. PICK c \in ToSet(chats) : Waiting(r, u, c.id, c.turns, c.blocks)
    BY <1>9 DEF Turn
  <2>2. c.id \in Nat /\ c.turns \in Seq(Nat) /\ c.blocks \in SUBSET Nat
    BY <1>0 DEF Convs
  <2> QED  BY <1>3, <1>9, <2>1, <2>2 DEF Turn
<1>10. CASE ApplyChat(r, u)
  <2>1. PICK c \in ToSet(chats) : drafts' = Assigned(drafts, u, c.blocks)
    BY <1>10 DEF ApplyChat
  <2>2. c.blocks \in SUBSET Nat
    BY <1>0 DEF Convs
  <2> QED  BY <1>0, <1>2, <1>10, <2>1, <2>2, AssignedType DEF ApplyChat
<1> QED  BY <1>4, <1>5, <1>6, <1>7, <1>8, <1>9, <1>10

LEMMA AnswersKeep ==
  ASSUME ChatInv, NEW r \in Requests, Answer(r)
  PROVE  ChatInv' /\ Said /\ Gone
<1> DEFINE b == [Unasked EXCEPT !.pc = "answered", !.user = request[r].user]
<1>0. /\ ChatTypes /\ request[r] \in Asking /\ r \in Nat /\ asked \in Nat /\ chats \in Seq(Convs)
      /\ Distinct(chats) /\ <<>> \in Seq(Nat) /\ <<r>> \in Seq(Nat)
  BY EmptySeq DEF ChatInv, ChatTypes, Requests
<1>1. b \in Asking /\ b.pc = "answered"
  BY <1>0 DEF Unasked, Asking
<1>2. request' = [request EXCEPT ![r] = b] /\ request[r].pc = "asking" /\ UNCHANGED <<asked, drafts>>
      /\ r <= asked
  BY DEF Answer, OpenChat, CommitTurn, TurnExpired, AskFails, Done, ChatInv
<1> HIDE DEF b
<1>3. CASE OpenChat(r)
  <2>1. PICK blocks \in Edits(r) :
          chats' \in Kept(Append(chats, [id |-> r, turns |-> <<r>>, blocks |-> blocks]))
    BY <1>3 DEF OpenChat
  <2> DEFINE e == [id |-> r, turns |-> <<r>>, blocks |-> blocks]
  <2>2. blocks \in SUBSET Nat
    BY <1>0 DEF Edits, Asking
  <2>3. e \in Convs /\ e.id = r /\ e.turns = <<r>>
    BY <1>0, <2>2 DEF Convs
  <2>4. \A c \in ToSet(chats) : c.id # r
    BY <1>2, <1>3 DEF OpenChat, ChatInv
  <2>5. r \in 1..asked
    BY <1>0, <1>2 DEF Requests
  <2> HIDE DEF e
  <2> QED  BY <1>0, <1>1, <1>2, <2>1, <2>3, <2>4, <2>5, StampKeeps DEF e
<1>4. CASE CommitTurn(r)
  <2>0. PICK i \in DOMAIN chats :
          \E blocks \in {chats[i].blocks, request[r].blocks \cup {r}} :
            chats' \in Kept(Append(RemoveAt(chats, i), Mutated(chats[i], r, blocks)))
    BY <1>4 DEF CommitTurn
  <2>1. PICK blocks \in {chats[i].blocks, request[r].blocks \cup {r}} :
          chats' \in Kept(Append(RemoveAt(chats, i), Mutated(chats[i], r, blocks)))
    BY <2>0
  <2> DEFINE e == Mutated(chats[i], r, blocks)
  <2>2. chats[i] \in ToSet(chats) /\ chats[i] \in Convs /\ chats[i].id \in 1..asked
    BY ChatsAre DEF ChatInv, ToSet
  <2>3. blocks \in SUBSET Nat
    BY <1>0, <2>2 DEF Asking, Convs
  <2>4. Append(chats[i].turns, r) \in Seq(Nat)
    BY <1>0, <2>2, AppendedSet DEF Convs
  <2>5. e \in Convs /\ e.id = chats[i].id /\ e.turns = Append(chats[i].turns, r)
    BY <2>2, <2>3, <2>4 DEF Mutated, Convs
  <2>6. /\ RemoveAt(chats, i) \in Seq(Convs) /\ Distinct(RemoveAt(chats, i))
        /\ ToSet(RemoveAt(chats, i)) \subseteq ToSet(chats)
        /\ \A c \in ToSet(RemoveAt(chats, i)) : c.id # e.id
    BY <1>0, <2>5, TakenOut
  <2> HIDE DEF e
  <2> QED  BY <1>0, <1>1, <1>2, <2>1, <2>2, <2>5, <2>6, StampKeeps DEF e
<1>5. CASE TurnExpired(r) \/ AskFails(r)
  <2>1. UNCHANGED chats /\ drafts' \in Seq(DraftRecs) /\ asked' \in Nat /\ asked <= asked'
    BY <1>0, <1>2, <1>5 DEF TurnExpired, AskFails, ChatTypes
  <2> QED  BY <1>1, <1>2, <2>1, RequestMoves
<1> QED  BY <1>3, <1>4, <1>5 DEF Answer

LEMMA ChatSteps == ChatInv /\ [ChatNext]_chatVars => ChatInv' /\ (UNCHANGED chatVars \/ (Said /\ Gone))
<1>1. ChatInv /\ UNCHANGED chatVars => ChatInv'
  BY DEF ChatInv, ChatTypes, chatVars, Distinct
<1> QED  BY <1>1, AskedKeeps, AnswersKeep DEF ChatNext

LEMMA ChatInvariant == ChatSpec => []ChatInv
BY ChatInvInit, ChatSteps, PTL DEF ChatSpec

(* Nothing said in a conversation is lost (ChatStore.commit of              *)
(* web/shared.py): for any number of turns under way at once and stores of  *)
(* any capacity, a conversation only ever grows by the turn that commits,   *)
(* because each commit appends to what it finds and not to what it read.    *)
THEOREM NothingSaidIsEverLost == ChatSpec => NothingSaidIsLost
<1>1. ChatInv /\ [ChatNext]_chatVars =>
        [\A c \in ToSet(chats), d \in ToSet(chats') :
           c.id = d.id /\ c # d => \E r \in Requests : d.turns = Append(c.turns, r)]_chatVars
  BY ChatSteps DEF Said
<1> QED  BY <1>1, ChatInvariant, PTL DEF ChatSpec, NothingSaidIsLost

(* A conversation that expired or was evicted stays gone (ChatStore.commit  *)
(* returns nothing for it): a name comes into the store only with the first *)
(* answer of the request that opens it.                                     *)
THEOREM ExpiredStaysGoneAlways == ChatSpec => ExpiredStaysGone
<1>1. ChatInv /\ [ChatNext]_chatVars =>
        [\A d \in ToSet(chats') :
           Chat(d.id) = {} => request[d.id].pc = "asking" /\ d.turns = <<d.id>>]_chatVars
  BY ChatSteps DEF Gone
<1> QED  BY <1>1, ChatInvariant, PTL DEF ChatSpec, ExpiredStaysGone

-----------------------------------------------------------------------------
(* The plan preview (PlanPreview).                                          *)
Seen == Metrics \cup {None}
Asks ==
  [pc : {"none", "refine", "join", "compute", "shown"}, key : Keys, metrics : Seen,
   owner : SUBSET Previews, plan : {None, "llm", "local", "error"}, refined : Seen]
Computing(k) == {p \in Previews : preview[p].pc = "compute" /\ preview[p].key = k}

PlanTypes ==
  /\ preview \in [Previews -> Asks] /\ inflight \in [Keys -> SUBSET Previews]
  /\ answer \in [Previews -> {<<>>} \cup ({"llm", "local", "error"} \X Seen)]
  /\ cached \in Seq(Keys) /\ Len(cached) <= PlanCap /\ IsInjective(cached)

(* OneComputation, without counting.                                        *)
SingleFlight ==
  \A k \in Keys :
    /\ inflight[k] = Computing(k) /\ (Computing(k) # {} => ~Hit(k))
    /\ \A p, q \in Computing(k) : p = q

PlanInv == PlanTypes /\ SingleFlight /\ WaitsForAnAnswer

LEMMA PlanInvInit == PlanInit => PlanInv
<1> SUFFICES ASSUME PlanInit  PROVE PlanInv
  OBVIOUS
<1>1. Fresh \in Asks
  <2>1. (CHOOSE k \in Keys : TRUE) \in Keys
    BY PreviewAssumption
  <2> QED  BY <2>1 DEF Fresh, Asks, Seen
<1>2. PlanTypes
  <2>1. <<>> \in Seq(Keys) /\ Len(<<>>) = 0 /\ IsInjective(<<>>)
    BY EmptySeq DEF IsInjective
  <2>2. Len(cached) <= PlanCap
    BY <2>1, PreviewAssumption DEF PlanInit
  <2> QED  BY <1>1, <2>1, <2>2 DEF PlanInit, PlanTypes
<1>3. \A k \in Keys : Computing(k) = {}
  BY DEF PlanInit, Fresh, Computing
<1>4. SingleFlight
  <2>1. \A k \in Keys : inflight[k] = {}
    BY DEF PlanInit
  <2> QED  BY <1>3, <2>1 DEF SingleFlight
<1>5. WaitsForAnAnswer
  BY DEF PlanInit, Fresh, WaitsForAnAnswer
<1> QED  BY <1>2, <1>4, <1>5 DEF PlanInv

(* The cache loses its oldest entry, or takes a new one.                    *)
LEMMA CacheLoses ==
  ASSUME NEW q \in Seq(Keys), IsInjective(q), q # <<>>
  PROVE  /\ Tail(q) \in Seq(Keys) /\ Len(Tail(q)) = Len(q) - 1 /\ IsInjective(Tail(q))
         /\ ToSet(Tail(q)) \subseteq ToSet(q)
<1>1. Len(q) \in Nat /\ DOMAIN q = 1..Len(q)
  BY LenProperties
<1>2. Tail(q) \in Seq(Keys) /\ Len(Tail(q)) = Len(q) - 1 /\ \A i \in 1..Len(Tail(q)) : Tail(q)[i] = q[i + 1]
  BY HeadTailProperties
<1>3. DOMAIN Tail(q) = 1..(Len(q) - 1)
  BY <1>2, LenProperties
<1>4. \A i \in 1..(Len(q) - 1) : i + 1 \in 1..Len(q) /\ Tail(q)[i] = q[i + 1]
  BY <1>1, <1>2
<1>5. IsInjective(Tail(q))
  <2> SUFFICES ASSUME NEW i \in 1..(Len(q) - 1), NEW j \in 1..(Len(q) - 1), Tail(q)[i] = Tail(q)[j]
               PROVE  i = j
    BY <1>3 DEF IsInjective
  <2>1. i + 1 = j + 1
    BY <1>1, <1>4 DEF IsInjective
  <2> QED  BY <1>1, <2>1
<1>6. ToSet(Tail(q)) \subseteq ToSet(q)
  BY <1>1, <1>3, <1>4 DEF ToSet
<1> QED  BY <1>2, <1>5, <1>6

LEMMA CacheTakes ==
  ASSUME PlanTypes, NEW k \in Keys, ~Hit(k), NEW plan
  PROVE  /\ Cached(k, plan) \in Seq(Keys) /\ Len(Cached(k, plan)) <= PlanCap
         /\ IsInjective(Cached(k, plan)) /\ ToSet(Cached(k, plan)) \subseteq ToSet(cached) \cup {k}
<1>1. cached \in Seq(Keys) /\ Len(cached) \in Nat /\ DOMAIN cached = 1..Len(cached)
      /\ Len(cached) <= PlanCap /\ IsInjective(cached) /\ PlanCap \in Nat
  BY LenProperties, PreviewAssumption DEF PlanTypes
<1>2. CASE plan # "llm"
  BY <1>1, <1>2 DEF Cached
<1>3. CASE plan = "llm"
  <2> DEFINE q == Append(cached, k)
  <2>1. RemoveFirst(cached, k) = cached
    BY <1>1 DEF RemoveFirst, Hit, ToSet
  <2>2. q \in Seq(Keys) /\ Len(q) = Len(cached) + 1 /\ q[Len(cached) + 1] = k
        /\ \A i \in 1..Len(cached) : q[i] = cached[i]
    BY <1>1, AppendProperties
  <2>3. DOMAIN q = 1..(Len(cached) + 1)
    BY <2>2, LenProperties
  <2>4. \A i \in 1..Len(cached) : cached[i] # k
    BY <1>1 DEF Hit, ToSet
  <2>5. Cached(k, plan) = IF Len(q) > PlanCap THEN Tail(q) ELSE q
    BY <1>3, <2>1 DEF Cached
  <2> HIDE DEF q
  <2>6. IsInjective(q)
    <3> SUFFICES ASSUME NEW i \in 1..(Len(cached) + 1), NEW j \in 1..(Len(cached) + 1), q[i] = q[j]
                 PROVE  i = j
      BY <2>3 DEF IsInjective
    <3>1. CASE i \in 1..Len(cached) /\ j \in 1..Len(cached)
      BY <1>1, <2>2, <3>1 DEF IsInjective
    <3>2. CASE i = Len(cached) + 1 \/ j = Len(cached) + 1
      BY <1>1, <2>2, <2>4, <3>2
    <3> QED  BY <1>1, <3>1, <3>2
  <2>7. ToSet(q) \subseteq ToSet(cached) \cup {k}
    <3>1. \A i \in 1..(Len(cached) + 1) : i \in 1..Len(cached) \/ i = Len(cached) + 1
      BY <1>1
    <3> QED  BY <1>1, <2>2, <2>3, <3>1 DEF ToSet
  <2>8. CASE Len(q) > PlanCap
    <3>1. q # <<>> /\ Len(q) - 1 <= PlanCap
      BY <1>1, <2>2, EmptySeq
    <3>2. /\ Tail(q) \in Seq(Keys) /\ Len(Tail(q)) = Len(q) - 1 /\ IsInjective(Tail(q))
          /\ ToSet(Tail(q)) \subseteq ToSet(q)
      BY <2>2, <2>6, <3>1, CacheLoses
    <3> QED  BY <2>5, <2>7, <2>8, <3>1, <3>2
  <2>9. CASE ~(Len(q) > PlanCap)
    BY <1>1, <2>2, <2>5, <2>6, <2>7, <2>9
  <2> QED  BY <2>8, <2>9
<1> QED  BY <1>2, <1>3

(* Steps that start and end no computation, and steps that leave those who  *)
(* wait an answer.                                                          *)
LEMMA SameComputing ==
  ASSUME SingleFlight, inflight' = inflight, ToSet(cached') \subseteq ToSet(cached),
         \A p \in Previews : /\ preview'[p].pc = "compute" <=> preview[p].pc = "compute"
                             /\ preview[p].pc = "compute" => preview'[p].key = preview[p].key
  PROVE  SingleFlight'
<1>1. \A k \in Keys : Computing(k)' = Computing(k)
  BY DEF Computing
<1>2. \A k : Hit(k)' => Hit(k)
  BY DEF Hit
<1> QED  BY <1>1, <1>2 DEF SingleFlight

LEMMA StillWaits ==
  ASSUME PlanTypes, WaitsForAnAnswer,
         \A q \in Previews :
           preview[q].pc = "compute" \/ (preview[q].pc = "shown" /\ answer[q] # <<>>) =>
             /\ preview'[q].key = preview[q].key
             /\ preview'[q].pc = "compute" \/ (preview'[q].pc = "shown" /\ answer'[q] # <<>>),
         \A p \in Previews :
           preview'[p].pc = "join" =>
             \/ preview'[p] = preview[p]
             \/ \E q \in preview'[p].owner \cap Previews :
                  preview[q].pc = "compute" /\ preview[q].key = preview'[p].key
  PROVE  WaitsForAnAnswer'
<1> SUFFICES ASSUME NEW p \in Previews, preview'[p].pc = "join"
             PROVE  \E q \in preview'[p].owner :
                      /\ preview'[q].key = preview'[p].key
                      /\ preview'[q].pc = "compute" \/ (preview'[q].pc = "shown" /\ answer'[q] # <<>>)
  BY DEF WaitsForAnAnswer
<1>1. PICK q \in preview'[p].owner \cap Previews :
        /\ preview[q].key = preview'[p].key
        /\ preview[q].pc = "compute" \/ (preview[q].pc = "shown" /\ answer[q] # <<>>)
  <2>1. CASE preview'[p] = preview[p]
    <3>1. preview[p].owner \subseteq Previews
      BY DEF PlanTypes, Asks
    <3> QED  BY <2>1, <3>1 DEF WaitsForAnAnswer
  <2>2. CASE preview'[p] # preview[p]
    BY <2>2
  <2> QED  BY <2>1, <2>2
<1> QED  BY <1>1

LEMMA PreviewKeeps ==
  ASSUME PlanInv, NEW p \in Previews, NEW k \in Keys, NEW m \in Metrics, Preview(p, k, m)
  PROVE  PlanInv'
<1> DEFINE pc == IF Hit(k) THEN "refine" ELSE IF Joins(k) THEN "join" ELSE "compute"
           ask == [Fresh EXCEPT !.pc = pc, !.key = k, !.metrics = m,
                     !.owner = IF pc = "join" THEN inflight[k] ELSE {},
                     !.plan = IF pc = "refine" THEN "llm" ELSE None]
<1>1. /\ preview[p].pc = "none" /\ preview' = [preview EXCEPT ![p] = ask]
      /\ inflight' = IF pc = "compute" THEN [inflight EXCEPT ![k] = {p}] ELSE inflight
      /\ cached' = cached /\ answer' = answer
  BY DEF Preview
<1>2. /\ PlanTypes /\ SingleFlight /\ WaitsForAnAnswer /\ preview \in [Previews -> Asks]
      /\ inflight \in [Keys -> SUBSET Previews]
  BY DEF PlanInv, PlanTypes
<1>3. /\ ask.pc = pc /\ ask.key = k /\ ask \in Asks
      /\ ask.owner = IF pc = "join" THEN inflight[k] ELSE {}
  BY <1>2 DEF Fresh, Asks, Seen
<1>4. pc \in {"refine", "join", "compute"} /\ (pc = "join" => inflight[k] # {})
      /\ (pc = "compute" => ~Hit(k) /\ inflight[k] = {})
  BY DEF Joins
<1> HIDE DEF ask, pc
<1>5. preview'[p] = ask /\ \A q \in Previews : q # p => preview'[q] = preview[q]
  BY <1>1, <1>2
<1>6. PlanTypes'
  BY <1>1, <1>2, <1>3 DEF PlanTypes
<1>7. SingleFlight'
  <2>1. CASE pc # "compute"
    <3>1. \A q \in Previews : /\ preview'[q].pc = "compute" <=> preview[q].pc = "compute"
                              /\ preview[q].pc = "compute" => preview'[q].key = preview[q].key
      BY <1>1, <1>3, <1>5, <2>1
    <3> QED  BY <1>1, <1>2, <2>1, <3>1, SameComputing
  <2>2. CASE pc = "compute"
    <3>1. inflight[k] = {} /\ ~Hit(k) /\ Computing(k) = {}
      BY <1>2, <1>4, <2>2 DEF SingleFlight
    <3>2. \A j \in Keys : Computing(j)' = IF j = k THEN {p} ELSE Computing(j)
      BY <1>1, <1>3, <1>5, <2>2, <3>1 DEF Computing
    <3>3. \A j \in Keys : inflight'[j] = IF j = k THEN {p} ELSE inflight[j]
      BY <1>1, <1>2, <2>2
    <3>4. \A j : Hit(j)' = Hit(j)
      BY <1>1 DEF Hit
    <3> QED  BY <1>2, <3>1, <3>2, <3>3, <3>4 DEF SingleFlight
  <2> QED  BY <2>1, <2>2
<1>8. WaitsForAnAnswer'
  <2>1. \A q \in Previews : preview'[q].pc = "join" =>
             \/ preview'[q] = preview[q]
             \/ \E r \in preview'[q].owner \cap Previews :
                  preview[r].pc = "compute" /\ preview[r].key = preview'[q].key
    <3> SUFFICES ASSUME pc = "join"
                 PROVE  \E r \in inflight[k] \cap Previews : preview[r].pc = "compute" /\ preview[r].key = k
      BY <1>3, <1>5
    <3> QED  BY <1>2, <1>4 DEF SingleFlight, Computing
  <2> QED  BY <1>1, <1>2, <1>5, <2>1, StillWaits
<1> QED  BY <1>6, <1>7, <1>8 DEF PlanInv

LEMMA PlanStepKeeps ==
  ASSUME PlanInv, NEW p \in Previews, PlanStep(p)
  PROVE  PlanInv'
<1>1. /\ PlanTypes /\ SingleFlight /\ WaitsForAnAnswer /\ preview \in [Previews -> Asks]
      /\ inflight \in [Keys -> SUBSET Previews] /\ preview[p] \in Asks
      /\ answer \in [Previews -> {<<>>} \cup ({"llm", "local", "error"} \X Seen)]
  BY DEF PlanInv, PlanTypes
<1>2. ASSUME NEW plan \in {"llm", "local", "error", None}, NEW refined \in Seen,
             preview[p].pc \in {"refine", "join"}, UNCHANGED <<cached, inflight, answer>>,
             preview' = [preview EXCEPT ![p].pc = "shown", ![p].plan = plan, ![p].refined = refined]
      PROVE  PlanInv'
  <2>1. /\ preview'[p].pc = "shown" /\ preview' \in [Previews -> Asks]
        /\ \A q \in Previews : q # p => preview'[q] = preview[q]
    BY <1>1, <1>2 DEF Asks
  <2>2. PlanTypes'
    BY <1>1, <1>2, <2>1 DEF PlanTypes
  <2>3. SingleFlight'
    <3>1. \A q \in Previews : /\ preview'[q].pc = "compute" <=> preview[q].pc = "compute"
                              /\ preview[q].pc = "compute" => preview'[q].key = preview[q].key
      BY <1>2, <2>1
    <3> QED  BY <1>1, <1>2, <3>1, SameComputing
  <2>4. WaitsForAnAnswer'
    BY <1>1, <1>2, <2>1, StillWaits
  <2> QED  BY <2>2, <2>3, <2>4 DEF PlanInv
<1>3. CASE Refine(p)
  <2>1. PICK refined \in {preview[p].metrics, None} :
          preview' = [preview EXCEPT ![p].pc = "shown", ![p].refined = refined]
    BY <1>3 DEF Refine
  <2>2. preview' = [preview EXCEPT ![p].pc = "shown", ![p].plan = preview[p].plan, ![p].refined = refined]
    BY <1>1, <2>1 DEF Asks
  <2>3. refined \in Seen /\ preview[p].plan \in {"llm", "local", "error", None}
    BY <1>1, <2>1 DEF Asks, Seen
  <2> QED  BY <1>2, <1>3, <2>2, <2>3 DEF Refine
<1>4. CASE Join(p)
  <2>1. PICK q \in preview[p].owner :
          /\ answer[q] # <<>>
          /\ preview' = [preview EXCEPT ![p].pc = "shown", ![p].plan = answer[q][1],
                                        ![p].refined = answer[q][2]]
    BY <1>4 DEF Join
  <2>2. answer[q] \in {"llm", "local", "error"} \X Seen
    BY <1>1, <2>1 DEF Asks
  <2>3. answer[q][1] \in {"llm", "local", "error", None} /\ answer[q][2] \in Seen
    BY <2>2
  <2> QED  BY <1>2, <1>4, <2>1, <2>3 DEF Join
<1>5. CASE Compute(p)
  <2> DEFINE k == preview[p].key
  <2>1. PICK o \in Endings(p) :
          /\ preview' = [preview EXCEPT ![p].pc = "shown", ![p].plan = o[1], ![p].refined = o[2]]
          /\ answer' = [answer EXCEPT ![p] = o] /\ cached' = Cached(k, o[1])
    BY <1>5 DEF Compute, Resolved
  <2>2. preview[p].pc = "compute" /\ inflight' = [inflight EXCEPT ![k] = {}] /\ k \in Keys
    BY <1>1, <1>5 DEF Compute, Asks
  <2>3. o \in {"llm", "local", "error"} \X Seen /\ o # <<>>
    <3>1. preview[p].metrics \in Seen /\ None \in Seen
      BY <1>1 DEF Asks, Seen
    <3>2. PICK a \in {"llm", "local", "error"}, b \in Seen : o = <<a, b>>
      BY <3>1 DEF Endings
    <3> QED  BY <3>2
  <2>4. p \in Computing(k)
    BY <2>2 DEF Computing
  <2>5. Computing(k) = {p} /\ ~Hit(k)
    BY <1>1, <2>2, <2>4 DEF SingleFlight
  <2>6. /\ cached' \in Seq(Keys) /\ Len(cached') <= PlanCap /\ IsInjective(cached')
        /\ ToSet(cached') \subseteq ToSet(cached) \cup {k}
    BY <1>1, <2>1, <2>2, <2>5, CacheTakes
  <2> HIDE DEF k
  <2>7. /\ preview'[p].pc = "shown" /\ preview'[p].key = preview[p].key /\ preview' \in [Previews -> Asks]
        /\ \A q \in Previews : q # p => preview'[q] = preview[q]
    BY <1>1, <2>1, <2>3 DEF Asks
  <2>8. answer'[p] # <<>> /\ answer' \in [Previews -> {<<>>} \cup ({"llm", "local", "error"} \X Seen)]
        /\ \A q \in Previews : q # p => answer'[q] = answer[q]
    BY <1>1, <2>1, <2>3
  <2>9. PlanTypes'
    BY <1>1, <2>2, <2>6, <2>7, <2>8 DEF PlanTypes
  <2>10. SingleFlight'
    <3>1. \A j \in Keys : Computing(j)' = IF j = k THEN {} ELSE Computing(j)
      BY <2>2, <2>5, <2>7 DEF Computing, k
    <3>2. \A j \in Keys : inflight'[j] = IF j = k THEN {} ELSE inflight[j]
      BY <1>1, <2>2
    <3>3. \A j : j # k /\ Hit(j)' => Hit(j)
      BY <2>6 DEF Hit
    <3>4. \A j \in Keys : /\ inflight'[j] = Computing(j)' /\ (Computing(j)' # {} => ~Hit(j)')
                          /\ \A q, r \in Computing(j)' : q = r
      <4> SUFFICES ASSUME NEW j \in Keys
                   PROVE  /\ inflight'[j] = Computing(j)' /\ (Computing(j)' # {} => ~Hit(j)')
                          /\ \A q, r \in Computing(j)' : q = r
        OBVIOUS
      <4>1. CASE j = k
        BY <3>1, <3>2, <4>1
      <4>2. CASE j # k
        <5>1. inflight[j] = Computing(j) /\ (Computing(j) # {} => ~Hit(j)) /\ \A q, r \in Computing(j) : q = r
          BY <1>1 DEF SingleFlight
        <5> QED  BY <3>1, <3>2, <3>3, <4>2, <5>1
      <4> QED  BY <4>1, <4>2
    <3> QED  BY <3>4 DEF SingleFlight
  <2>11. WaitsForAnAnswer'
    BY <1>1, <2>7, <2>8, StillWaits
  <2> QED  BY <2>9, <2>10, <2>11 DEF PlanInv
<1> QED  BY <1>3, <1>4, <1>5 DEF PlanStep

LEMMA PlanKeeps == PlanInv /\ [PlanNext]_planVars => PlanInv'
<1> SUFFICES ASSUME PlanInv, [PlanNext]_planVars  PROVE PlanInv'
  OBVIOUS
<1>1. CASE PlanExpires
  <2>1. /\ cached # <<>> /\ cached' = Tail(cached) /\ preview' = preview /\ inflight' = inflight
        /\ answer' = answer /\ PlanTypes /\ SingleFlight /\ WaitsForAnAnswer
        /\ Len(cached) \in Nat /\ PlanCap \in Nat
    BY <1>1, LenProperties, PreviewAssumption DEF PlanExpires, PlanInv, PlanTypes
  <2>2. /\ cached' \in Seq(Keys) /\ Len(cached') = Len(cached) - 1 /\ IsInjective(cached')
        /\ ToSet(cached') \subseteq ToSet(cached)
    BY <2>1, CacheLoses DEF PlanTypes
  <2>3. PlanTypes'
    BY <2>1, <2>2 DEF PlanTypes
  <2>4. SingleFlight'
    BY <2>1, <2>2, SameComputing
  <2>5. WaitsForAnAnswer'
    BY <2>1, StillWaits
  <2> QED  BY <2>3, <2>4, <2>5 DEF PlanInv
<1>2. CASE UNCHANGED planVars
  BY <1>2 DEF planVars, PlanInv, PlanTypes, SingleFlight, WaitsForAnAnswer, Hit, Computing
<1> QED  BY <1>1, <1>2, PreviewKeeps, PlanStepKeeps DEF PlanNext

(* The single flight of build_strategy_plan (_PLAN_INFLIGHT), for any       *)
(* requests, keys and capacity: no key is computed twice at once, or while  *)
(* its answer is cached; the cache keeps within its limit; and nobody waits *)
(* for a computation that is over without an answer.                        *)
THEOREM PlansAlwaysShared == PlanSpec => [](PlanTypeOK /\ OneComputation /\ WaitsForAnAnswer)
<1>1. PlanInv => PlanTypeOK /\ OneComputation /\ WaitsForAnAnswer
  <2> SUFFICES ASSUME PlanInv  PROVE PlanTypeOK /\ OneComputation
    BY DEF PlanInv
  <2>2. OneComputation
    <3> SUFFICES ASSUME NEW k \in Keys
                 PROVE  inflight[k] = Computing(k) /\ Cardinality(Computing(k)) <= 1
                        /\ (Computing(k) # {} => ~Hit(k))
      BY DEF OneComputation, Computing
    <3>1. inflight[k] = Computing(k) /\ (Computing(k) # {} => ~Hit(k))
          /\ \A p, q \in Computing(k) : p = q
      BY DEF PlanInv, SingleFlight
    <3>2. Computing(k) = {} \/ \E q : Computing(k) = {q}
      BY <3>1
    <3>3. Cardinality(Computing(k)) <= 1
      <4>1. Cardinality({}) = 0 /\ \A q : Cardinality({q}) = 1
        BY FS_EmptySet, FS_Singleton
      <4>2. Cardinality(Computing(k)) = 0 \/ Cardinality(Computing(k)) = 1
        BY Zenon, <3>2, <4>1
      <4> QED  BY <4>2
    <3> QED  BY <3>1, <3>3
  <2>1. ToSet(cached) \subseteq Keys
    <3>1. \A i \in DOMAIN cached : cached[i] \in Keys
      BY LenProperties, ElementOfSeq DEF PlanInv, PlanTypes
    <3> QED  BY <3>1 DEF ToSet
  <2> QED  BY <2>1, <2>2 DEF PlanInv, PlanTypes, PlanTypeOK, Asks
<1> QED  BY <1>1, PlanInvInit, PlanKeeps, PTL DEF PlanSpec
=============================================================================
