---------------------------- MODULE AutoRunProofs ----------------------------
(***************************************************************************)
(* Invariance proofs for module AutoRun.  IInv strengthens TypeOK and      *)
(* SlotsAccounted by FlowOf, what the program counter of a worker says of  *)
(* its round number and of the two circuit breakers' counters: without it  *)
(* a counter could pass its limit, and with it the bound of its type.      *)
(*                                                                         *)
(* On top of it, what is published: promotion is sound (one sealed window  *)
(* per published finalist), and the runs implement the pool of module      *)
(* RunPool.  Most steps of a worker are Quiet: they touch neither the      *)
(* catalog nor the windows used up.                                        *)
(*                                                                         *)
(* And how a run ends: generated blocks are cleaned up on every way out of *)
(* a round and never those a published strategy needs, a session_end is    *)
(* logged before a worker leaves, and it tells of a single run whether it  *)
(* published.  EInv says what of this is settled at each program counter.  *)
(***************************************************************************)
EXTENDS AutoRun, TLAPS, FiniteSetTheorems, SequenceTheorems

FlowOf(w) ==
  /\ w.pc \in {"idle", "start"} => w.round = 0
  /\ w.pc \in Inside \cup Closing => w.round >= 1
  /\ w.pc \in Inside \cup Closing \cup {"top"} => w.round <= MaxRounds
  /\ w.pc \in (Inside \ {"publish", "announce"}) \cup {"idle", "start", "top"}
       => w.winless < WinlessLimit /\ w.errs < ErrLimit
  /\ w.pc \in {"publish", "announce"}
       => w.errs < ErrLimit /\ (w.limit \/ w.winless < WinlessLimit)
  /\ w.pc \in Closing /\ w.next = "again"
       => w.winless < WinlessLimit /\ w.errs < ErrLimit
Flow == \A r \in Runs : FlowOf(wk[r])

IInv == TypeOK /\ SlotsAccounted /\ Flow

-----------------------------------------------------------------------------
LEMMA Limits ==
  /\ Slots \in Nat /\ Slots > 0
  /\ Iters \in Nat /\ Iters > 1
  /\ MaxPassers \in Nat /\ MaxPassers > 0
  /\ WinlessLimit \in Nat /\ WinlessLimit > 0
  /\ ErrLimit \in Nat /\ ErrLimit > 0
  /\ MaxRounds \in Nat /\ MaxRounds > 0
BY LimitsAssumption

(* What a helper that updates one variable keeps of its type. *)
Rest ==
  /\ store \in Seq(Runs)
  /\ prog \in [Runs -> States]
  /\ budget \in [Runs -> {"ok", "spent"}]
  /\ log \in [Runs -> Logs]
  /\ catalog \in SUBSET Entries
  /\ generated \in [Runs -> SUBSET (1 .. MaxRounds)]

LEMMA SetDoneType ==
  ASSUME prog \in [Runs -> States], NEW r \in Runs, SetDone(r)
  PROVE  prog' \in [Runs -> States]
BY DEF SetDone, States

LEMMA SetFinishedType ==
  ASSUME prog \in [Runs -> States], NEW r \in Runs, SetFinished(r)
  PROVE  prog' \in [Runs -> States]
BY DEF SetFinished, States

LEMMA NoteType ==
  ASSUME log \in [Runs -> Logs], NEW r \in Runs, NEW e \in Events, Note(r, e)
  PROVE  log' \in [Runs -> Logs]
BY DEF Note, Logs

LEMMA NoteEndType ==
  ASSUME log \in [Runs -> Logs], NEW r \in Runs, NEW o \in Outcomes,
         NoteEnd(r, o)
  PROVE  log' \in [Runs -> Logs]
<1>1. log[r].ends \in Seq(Outcomes)  BY DEF Logs
<1>2. Append(log[r].ends, o) \in Seq(Outcomes)  BY <1>1
<1>3. [last |-> "session_end", ends |-> Append(log[r].ends, o)] \in Logs
  BY <1>2 DEF Logs, Events
<1> QED  BY <1>3 DEF NoteEnd

LEMMA CleanupType ==
  ASSUME generated \in [Runs -> SUBSET (1 .. MaxRounds)], NEW r \in Runs,
         NEW keep, Cleanup(r, keep)
  PROVE  generated' \in [Runs -> SUBSET (1 .. MaxRounds)]
BY DEF Cleanup

(* A worker step: one record changes, and nothing of the others does. *)
LEMMA Becoming ==
  ASSUME TypeOK, NEW r \in Runs, NEW w \in Workers, Become(r, w)
  PROVE  /\ wk' \in [Runs -> Workers]
         /\ wk'[r] = w
         /\ \A q \in Runs \ {r} : wk'[q] = wk[q]
BY DEF TypeOK, Become

(* What a step of a worker that keeps its slot has to show. *)
Kept(r, w) ==
  /\ Become(r, w)
  /\ w \in Workers
  /\ FlowOf(w)
  /\ w.pc \in Alive
  /\ wk[r].pc \in Alive
  /\ UNCHANGED slots
  /\ Rest'

LEMMA KeptIsEnough ==
  ASSUME IInv, NEW r \in Runs, NEW w, Kept(r, w)
  PROVE  IInv'
<1>1. /\ wk' \in [Runs -> Workers]
      /\ wk'[r] = w
      /\ \A q \in Runs \ {r} : wk'[q] = wk[q]
  BY Becoming DEF IInv, Kept
<1>2. TypeOK'  BY <1>1 DEF IInv, TypeOK, Kept, Rest
<1>3. Flow'  BY <1>1 DEF IInv, Flow, Kept, FlowOf
<1>4. Holders' = Holders  BY <1>1 DEF Holders, Kept
<1>5. SlotsAccounted'  BY <1>4 DEF IInv, SlotsAccounted, Kept
<1> QED  BY <1>2, <1>3, <1>5 DEF IInv

LEMMA Here ==
  ASSUME IInv, NEW r \in Runs
  PROVE  wk[r] \in Workers /\ FlowOf(wk[r]) /\ Rest
BY DEF IInv, TypeOK, Flow, Rest

(* The common case: only the program counter moves. *)
LEMMA GotoKeeps ==
  ASSUME IInv, NEW r \in Runs, NEW pc \in Alive, Goto(r, pc),
         wk[r].pc \in Alive, UNCHANGED slots, Rest',
         FlowOf([wk[r] EXCEPT !.pc = pc])
  PROVE  IInv'
<1>1. [wk[r] EXCEPT !.pc = pc] \in Workers
  BY Here DEF Workers, PCs
<1>2. [wk[r] EXCEPT !.pc = pc].pc \in Alive
  BY Here DEF Workers
<1> QED  BY <1>1, <1>2, KeptIsEnough DEF Kept, Goto

-----------------------------------------------------------------------------
LEMMA WorkerStartKeeps ==
  ASSUME IInv, NEW r \in Runs, WorkerStart(r)
  PROVE  IInv'
<1>1. log' \in [Runs -> Logs]
  BY Here, NoteType DEF Rest, WorkerStart, Events
<1>2. Rest'  BY <1>1, Here DEF Rest, WorkerStart
<1>3. FlowOf([wk[r] EXCEPT !.pc = "top"])
  BY Here, Limits DEF WorkerStart, Workers, FlowOf, Inside, Closing, Goto
<1> QED
  BY <1>2, <1>3, GotoKeeps DEF WorkerStart, Alive, Inside, Closing, Outside

LEMMA IterationsOverKeeps ==
  ASSUME IInv, NEW r \in Runs, IterationsOver(r)
  PROVE  IInv'
<1>1. log' \in [Runs -> Logs]
  BY Here, NoteType DEF Rest, IterationsOver, Events
<1>2. Rest'  BY <1>1, Here DEF Rest, IterationsOver
<1>3. FlowOf([wk[r] EXCEPT !.pc = "judge"])
  BY Here, Limits DEF IterationsOver, Workers, FlowOf, Inside, Closing, Goto
<1> QED
  BY <1>2, <1>3, GotoKeeps DEF IterationsOver, Alive, Inside, Closing, Outside

LEMMA ScanOverKeeps ==
  ASSUME IInv, NEW r \in Runs, ScanOver(r)
  PROVE  IInv'
<1>1. log' \in [Runs -> Logs]
  BY Here, NoteType DEF Rest, ScanOver, Events
<1>2. Rest'  BY <1>1, Here DEF Rest, ScanOver
<1>3. FlowOf([wk[r] EXCEPT !.pc = "pick"])
  BY Here, Limits DEF ScanOver, Workers, FlowOf, Inside, Closing, Goto
<1> QED
  BY <1>2, <1>3, GotoKeeps DEF ScanOver, Alive, Inside, Closing, Outside

LEMMA PickWinnerKeeps ==
  ASSUME IInv, NEW r \in Runs, PickWinner(r)
  PROVE  IInv'
<1>1. log' \in [Runs -> Logs]
  BY Here, NoteType DEF Rest, PickWinner, Events
<1>2. Rest'  BY <1>1, Here DEF Rest, PickWinner
<1>3. FlowOf([wk[r] EXCEPT !.pc = "gate"])
  BY Here, Limits DEF PickWinner, Workers, FlowOf, Inside, Closing, Goto
<1> QED
  BY <1>2, <1>3, GotoKeeps DEF PickWinner, Alive, Inside, Closing, Outside

LEMMA PublishKeeps ==
  ASSUME IInv, NEW r \in Runs, Publish(r)
  PROVE  IInv'
<1>1. wk[r].round \in 0 .. MaxRounds
  BY Here, Limits DEF Publish, Workers, FlowOf, Inside
<1>2. prog' \in [Runs -> States]
  BY <1>1, Here DEF Rest, Publish, States
<1>3. Rest'  BY <1>2, Here DEF Rest, Publish
<1>4. FlowOf([wk[r] EXCEPT !.pc = "announce"])
  BY Here DEF Publish, Workers, FlowOf, Inside, Closing
<1> QED
  BY <1>3, <1>4, GotoKeeps DEF Publish, Alive, Inside

LEMMA FinalKeeps ==
  ASSUME IInv, NEW r \in Runs, Final(r)
  PROVE  IInv'
<1>1. log' \in [Runs -> Logs]
  BY Here, NoteType DEF Rest, Final, Events
<1>2. Rest'  BY <1>1, Here DEF Rest, Final
<1>3. FlowOf(wk[r]) /\ wk[r] \in Workers /\ wk[r].pc = "final"
  BY Here DEF Final
<1>4. CASE wk[r].next = "return"
  <2>1. Goto(r, "leave")  BY <1>4 DEF Final
  <2>2. FlowOf([wk[r] EXCEPT !.pc = "leave"])
    BY <1>3 DEF FlowOf, Workers, Inside, Closing
  <2> QED
    BY <1>2, <2>1, <2>2, GotoKeeps DEF Final, Alive, Closing, Outside
<1>5. CASE wk[r].next = "break"
  <2>1. Goto(r, "tail")  BY <1>5 DEF Final
  <2>2. FlowOf([wk[r] EXCEPT !.pc = "tail"])
    BY <1>3 DEF FlowOf, Workers, Inside, Closing
  <2> QED
    BY <1>2, <2>1, <2>2, GotoKeeps DEF Final, Alive, Closing, Outside
<1>6. CASE wk[r].next = "again"
  <2>1. Goto(r, "top")  BY <1>6 DEF Final
  <2>2. FlowOf([wk[r] EXCEPT !.pc = "top"])
    BY <1>3, <1>6 DEF FlowOf, Workers, Inside, Closing
  <2> QED
    BY <1>2, <2>1, <2>2, GotoKeeps DEF Final, Alive, Closing, Outside
<1> QED  BY <1>3, <1>4, <1>5, <1>6 DEF Workers, WayOut

LEMMA LoopEndKeeps ==
  ASSUME IInv, NEW r \in Runs, LoopEnd(r)
  PROVE  IInv'
<1>1. prog' \in [Runs -> States]
  BY Here, SetFinishedType DEF Rest, LoopEnd
<1>2. Rest'  BY <1>1, Here DEF Rest, LoopEnd
<1>3. FlowOf([wk[r] EXCEPT !.pc = "tailend"])
  BY Here DEF Workers, FlowOf, Inside, Closing
<1> QED
  BY <1>2, <1>3, GotoKeeps DEF LoopEnd, Alive, Outside

LEMMA LoopEndLogKeeps ==
  ASSUME IInv, NEW r \in Runs, LoopEndLog(r)
  PROVE  IInv'
<1>1. log' \in [Runs -> Logs]
  BY Here, NoteEndType DEF Rest, LoopEndLog, Outcomes
<1>2. generated' \in [Runs -> SUBSET (1 .. MaxRounds)]
  BY Here, CleanupType DEF Rest, LoopEndLog
<1>3. Rest'  BY <1>1, <1>2, Here DEF Rest, LoopEndLog
<1>4. FlowOf([wk[r] EXCEPT !.pc = "leave"])
  BY Here DEF Workers, FlowOf, Inside, Closing
<1> QED
  BY <1>3, <1>4, GotoKeeps DEF LoopEndLog, Alive, Outside

LEMMA LastLogKeeps ==
  ASSUME IInv, NEW r \in Runs, LastLog(r)
  PROVE  IInv'
<1>1. log' \in [Runs -> Logs]
  BY Here, NoteEndType DEF Rest, LastLog, Outcomes
<1>2. Rest'  BY <1>1, Here DEF Rest, LastLog
<1>3. FlowOf([wk[r] EXCEPT !.pc = "leave"])
  BY Here DEF Workers, FlowOf, Inside, Closing
<1> QED
  BY <1>2, <1>3, GotoKeeps DEF LastLog, Alive, Outside

LEMMA EndLogKeeps ==
  ASSUME IInv, NEW r \in Runs, EndLog(r)
  PROVE  IInv'
<1>1. log' \in [Runs -> Logs]
  BY Here, NoteEndType DEF Rest, EndLog, Workers
<1>2. generated' \in [Runs -> SUBSET (1 .. MaxRounds)]
  BY Here, CleanupType DEF Rest, EndLog
<1>3. prog' \in [Runs -> States]
  BY Here, SetDoneType DEF Rest, EndLog
<1>4. Rest'  BY <1>1, <1>2, <1>3, Here DEF Rest, EndLog
<1>5. FlowOf([wk[r] EXCEPT !.pc = "final"])
  BY Here DEF EndLog, Workers, FlowOf, Inside, Closing
<1> QED
  BY <1>4, <1>5, GotoKeeps DEF EndLog, Alive, Closing

LEMMA JudgeStoppedKeeps ==
  ASSUME IInv, NEW r \in Runs, JudgeStopped(r)
  PROVE  IInv'
<1> DEFINE w == [wk[r] EXCEPT !.pc = "final", !.next = "break"]
<1>1. w \in Workers
  BY Here DEF Workers, PCs, Alive, Closing, WayOut
<1>2. log' \in [Runs -> Logs]
  BY Here, NoteType DEF Rest, JudgeStopped, Events
<1>3. Rest'  BY <1>2, Here DEF Rest, JudgeStopped
<1>4. FlowOf(w)
  BY Here DEF JudgeStopped, Workers, FlowOf, Inside, Closing
<1>5. w.pc \in Alive  BY Here DEF Workers, Alive, Closing
<1>6. Kept(r, w)
  BY <1>1, <1>3, <1>4, <1>5 DEF Kept, JudgeStopped, Alive, Inside
<1> QED  BY <1>6, KeptIsEnough

LEMMA PauseKeeps ==
  ASSUME IInv, NEW r \in Runs, Pause(r)
  PROVE  IInv'
<1> DEFINE way == IF StopSeen(r) THEN "break" ELSE "again"
           w == [wk[r] EXCEPT !.pc = "final", !.next = way]
<1>1. way \in WayOut  BY DEF WayOut
<1>2. w \in Workers
  BY <1>1, Here DEF Workers, PCs, Alive, Closing
<1>3. Rest'  BY Here DEF Rest, Pause
<1>4. FlowOf(w)
  BY Here DEF Pause, Workers, FlowOf, Inside, Closing
<1>5. w.pc \in Alive  BY Here DEF Workers, Alive, Closing
<1>6. Kept(r, w)
  BY <1>2, <1>3, <1>4, <1>5 DEF Kept, Pause, Alive, Inside
<1> QED  BY <1>6, KeptIsEnough

LEMMA RoundOverBudgetKeeps ==
  ASSUME IInv, NEW r \in Runs, RoundOverBudget(r)
  PROVE  IInv'
<1> DEFINE w == [wk[r] EXCEPT !.pc = "lastlog", !.round = @ + 1,
                              !.outcome = "budget"]
<1>1. wk[r].round + 1 \in 0 .. MaxRounds + 1
  BY Here, Limits DEF RoundOverBudget, Workers, FlowOf
<1>a. "lastlog" \in PCs /\ "budget" \in Outcomes
  BY DEF PCs, Alive, Outside, Outcomes
<1>2. w \in Workers
  BY <1>1, <1>a, Here DEF Workers
<1>3. prog' \in [Runs -> States]
  BY Here, SetDoneType DEF Rest, RoundOverBudget
<1>4. Rest'  BY <1>3, Here DEF Rest, RoundOverBudget
<1>5. w.pc = "lastlog"  BY Here DEF Workers
<1>6. FlowOf(w)  BY <1>5 DEF FlowOf, Inside, Closing
<1>7. Kept(r, w)
  BY <1>2, <1>4, <1>5, <1>6 DEF Kept, RoundOverBudget, Alive, Outside
<1> QED  BY <1>7, KeptIsEnough

LEMMA RoundAbandonedKeeps ==
  ASSUME IInv, NEW r \in Runs, RoundAbandoned(r)
  PROVE  IInv'
<1> DEFINE w == [wk[r] EXCEPT !.pc = "tail", !.round = @ + 1]
<1>1. wk[r].round + 1 \in 0 .. MaxRounds + 1
  BY Here, Limits DEF RoundAbandoned, Workers, FlowOf
<1>2. w \in Workers
  BY <1>1, Here DEF Workers, PCs, Alive, Outside
<1>3. Rest'  BY Here DEF Rest, RoundAbandoned
<1>4. w.pc = "tail"  BY Here DEF Workers
<1>5. FlowOf(w)  BY <1>4 DEF FlowOf, Inside, Closing
<1>6. Kept(r, w)
  BY <1>2, <1>3, <1>4, <1>5 DEF Kept, RoundAbandoned, Alive, Outside
<1> QED  BY <1>6, KeptIsEnough

LEMMA RoundStartKeeps ==
  ASSUME IInv, NEW r \in Runs, RoundStart(r)
  PROVE  IInv'
<1> DEFINE w == [wk[r] EXCEPT !.pc = "work", !.round = @ + 1, !.iter = 0,
                              !.left = 0, !.pass = 0, !.promoted = FALSE,
                              !.limit = FALSE, !.outcome = "none",
                              !.next = "again"]
<1>1. wk[r].round + 1 \in 1 .. MaxRounds
  BY Here, Limits DEF RoundStart, Workers
<1>2. wk[r].round + 1 \in 0 .. MaxRounds + 1  BY <1>1, Limits
<1>3. "work" \in PCs /\ "none" \in Outcomes /\ "again" \in WayOut
  BY DEF PCs, Alive, Inside, Outcomes, WayOut
<1>4. 0 \in 0 .. Iters /\ 0 \in 0 .. MaxPassers  BY Limits
<1>5. w \in Workers  BY <1>2, <1>3, <1>4, Here DEF Workers
<1>6. prog' \in [Runs -> States]
  <2>1. [prog[r] EXCEPT !.done = FALSE, !.winner = 0] \in States
    <3>1. 0 \in 0 .. MaxRounds  BY Limits
    <3> QED  BY <3>1, Here DEF Rest, States
  <2>2. CASE Again(r)
    <3>1. prog' = [prog EXCEPT ![r] =
                     [prog[r] EXCEPT !.done = FALSE, !.winner = 0]]
      BY <2>2, Here DEF Rest, RoundStart, States
    <3> QED  BY <2>1, <3>1, Here DEF Rest
  <2>3. CASE ~Again(r)
    BY <2>3, Here DEF Rest, RoundStart
  <2> QED  BY <2>2, <2>3
<1>7. log' \in [Runs -> Logs]
  BY Here, NoteType DEF Rest, RoundStart, Events
<1>8. Rest'  BY <1>6, <1>7, Here DEF Rest, RoundStart
<1>9. w.pc = "work" /\ w.round \in 1 .. MaxRounds
      /\ w.winless = wk[r].winless /\ w.errs = wk[r].errs
  BY <1>1, Here DEF Workers
<1>10. FlowOf(w)
  BY <1>9, Here, Limits DEF RoundStart, FlowOf, Inside, Closing
<1>11. Kept(r, w)
  BY <1>5, <1>8, <1>9, <1>10 DEF Kept, RoundStart, Alive, Outside, Inside
<1> QED  BY <1>11, KeptIsEnough

LEMMA IterateKeeps ==
  ASSUME IInv, NEW r \in Runs, Iterate(r)
  PROVE  IInv'
<1> DEFINE w == [wk[r] EXCEPT !.iter = @ + 1]
<1>1. wk[r].iter + 1 \in 0 .. Iters
  BY Here, Limits DEF Iterate, Workers
<1>2. w \in Workers  BY <1>1, Here DEF Workers
<1>3. wk[r].round \in 1 .. MaxRounds
  BY Here, Limits DEF Iterate, Workers, FlowOf, Inside
<1>4. generated' \in [Runs -> SUBSET (1 .. MaxRounds)]
  BY <1>3, Here DEF Rest, Iterate, ProposeNextStrategy
<1>5. log' \in [Runs -> Logs]
  BY Here, NoteType DEF Rest, Iterate, Events
<1>6. Rest'  BY <1>4, <1>5, Here DEF Rest, Iterate
<1>7. FlowOf(w) /\ w.pc = "work"
  BY Here DEF Iterate, FlowOf, Workers
<1>8. Kept(r, w)
  BY <1>2, <1>6, <1>7 DEF Kept, Iterate, RunBacktestIteration, Alive, Inside
<1> QED  BY <1>8, KeptIsEnough

LEMMA RankSomeKeeps ==
  ASSUME IInv, NEW r \in Runs, RankSome(r)
  PROVE  IInv'
<1>1. PICK n \in 1 .. wk[r].iter :
        Become(r, [wk[r] EXCEPT !.pc = "scan", !.left = n])
  BY DEF RankSome
<1> DEFINE w == [wk[r] EXCEPT !.pc = "scan", !.left = n]
<1>2. n \in 0 .. Iters  BY Here, Limits DEF Workers
<1>3. w \in Workers
  BY <1>2, Here DEF Workers, PCs, Alive, Inside
<1>4. log' \in [Runs -> Logs]
  BY Here, NoteType DEF Rest, RankSome, Events
<1>5. Rest'  BY <1>4, Here DEF Rest, RankSome
<1>6. FlowOf(w) /\ w.pc = "scan"
  BY Here DEF RankSome, FlowOf, Workers, Inside, Closing
<1>7. Kept(r, w)
  BY <1>1, <1>3, <1>5, <1>6 DEF Kept, RankSome, Alive, Inside
<1> QED  BY <1>7, KeptIsEnough

LEMMA ScanOneKeeps ==
  ASSUME IInv, NEW r \in Runs, ScanOne(r)
  PROVE  IInv'
<1>1. PICK passed \in {0, 1} :
        Become(r, [wk[r] EXCEPT !.left = @ - 1, !.pass = @ + passed])
  BY DEF ScanOne
<1> DEFINE w == [wk[r] EXCEPT !.left = @ - 1, !.pass = @ + passed]
<1>2. wk[r].left - 1 \in 0 .. Iters /\ wk[r].pass + passed \in 0 .. MaxPassers
  BY Here, Limits DEF ScanOne, Workers
<1>3. w \in Workers  BY <1>2, Here DEF Workers
<1>4. log' \in [Runs -> Logs]
  BY Here, NoteType DEF Rest, ScanOne, Events
<1>5. Rest'  BY <1>4, Here DEF Rest, ScanOne
<1>6. FlowOf(w) /\ w.pc = "scan"
  BY Here DEF ScanOne, FlowOf, Workers
<1>7. Kept(r, w)
  BY <1>1, <1>3, <1>5, <1>6 DEF Kept, ScanOne, Alive, Inside
<1> QED  BY <1>7, KeptIsEnough

LEMMA GateKeeps ==
  ASSUME IInv, NEW r \in Runs, Gate(r)
  PROVE  IInv'
<1>1. PICK tf \in TFs, sealed \in BOOLEAN, verdict \in BOOLEAN :
        LET runs == sealed /\ WindowUsable(r, tf)
        IN  Become(r, [wk[r] EXCEPT !.pc = "save",
                  !.consumed = IF runs THEN @ \cup {tf} ELSE @,
                  !.promoted = Publishable(r, verdict)])
  BY DEF Gate
<1> DEFINE runs == sealed /\ WindowUsable(r, tf)
           used == IF runs THEN wk[r].consumed \cup {tf} ELSE wk[r].consumed
           w == [wk[r] EXCEPT !.pc = "save", !.consumed = used,
                              !.promoted = Publishable(r, verdict)]
<1>2. used \in SUBSET TFs  BY Here DEF Workers
<1>3. Publishable(r, verdict) \in BOOLEAN  BY DEF Publishable
<1>4. "save" \in PCs  BY DEF PCs, Alive, Inside
<1>5. w \in Workers  BY <1>2, <1>3, <1>4, Here DEF Workers
<1>6. log' \in [Runs -> Logs]
  BY Here, NoteType DEF Rest, Gate, Events
<1>7. Rest'  BY <1>6, Here DEF Rest, Gate
<1>8. FlowOf(w) /\ w.pc = "save"
  BY Here DEF Gate, FlowOf, Workers, Inside, Closing
<1>9. Become(r, w)  BY <1>1
<1>10. Kept(r, w)
  BY <1>5, <1>7, <1>8, <1>9 DEF Kept, Gate, Alive, Inside
<1> QED  BY <1>10, KeptIsEnough

LEMMA GateOverBudgetKeeps ==
  ASSUME IInv, NEW r \in Runs, GateOverBudget(r)
  PROVE  IInv'
<1>1. PICK tf \in TFs \ wk[r].consumed :
        Become(r, [EndRound(r, "budget", "return")
                     EXCEPT !.consumed = @ \cup {tf}])
  BY DEF GateOverBudget
<1> DEFINE w == [wk[r] EXCEPT !.pc = "end", !.outcome = "budget",
                              !.next = "return",
                              !.consumed = wk[r].consumed \cup {tf}]
<1>2. wk[r].consumed \cup {tf} \in SUBSET TFs  BY Here DEF Workers
<1>3. "end" \in PCs /\ "budget" \in Outcomes /\ "return" \in WayOut
  BY DEF PCs, Alive, Closing, Outcomes, WayOut
<1>4. w \in Workers  BY <1>2, <1>3, Here DEF Workers
<1>5. Become(r, w)  BY <1>1, Here DEF EndRound, Workers
<1>6. prog' \in [Runs -> States]
  BY Here, SetFinishedType DEF Rest, GateOverBudget
<1>7. log' \in [Runs -> Logs]
  BY Here, NoteType DEF Rest, GateOverBudget, Events
<1>8. Rest'  BY <1>6, <1>7, Here DEF Rest, GateOverBudget
<1>9. FlowOf(w) /\ w.pc = "end"
  BY Here DEF GateOverBudget, FlowOf, Workers, Inside, Closing
<1>10. Kept(r, w)
  BY <1>4, <1>5, <1>8, <1>9 DEF Kept, GateOverBudget, Alive, Inside, Closing
<1> QED  BY <1>10, KeptIsEnough

LEMMA SaveKeeps ==
  ASSUME IInv, NEW r \in Runs, Save(r)
  PROVE  IInv'
<1>1. wk[r].round \in 1 .. MaxRounds /\ Bump(r) \in 0 .. WinlessLimit
      /\ wk[r].winless \in Nat
  BY Here, Limits DEF Save, Bump, Workers, FlowOf, Inside
<1>2. log' \in [Runs -> Logs]
  BY Here, NoteType DEF Rest, Save, Events
<1>3. "publish" \in PCs /\ 0 \in 0 .. WinlessLimit
  BY Limits DEF PCs, Alive, Inside
<1>4. CASE wk[r].promoted
  <2> DEFINE w == [wk[r] EXCEPT !.pc = "publish", !.winless = 0]
  <2>1. w \in Workers  BY <1>3, Here DEF Workers
  <2>2. [run |-> r, round |-> wk[r].round,
         generated |-> wk[r].round \in generated[r]] \in Entries
    BY <1>1 DEF Entries
  <2>3. catalog' \in SUBSET Entries  BY <1>4, <2>2, Here DEF Rest, Save
  <2>4. Rest'  BY <1>2, <2>3, Here DEF Rest, Save
  <2>5. FlowOf(w) /\ w.pc = "publish"
    BY Here, Limits DEF Save, FlowOf, Workers, Inside, Closing
  <2>6. Kept(r, w)
    BY <1>4, <2>1, <2>4, <2>5 DEF Kept, Save, Alive, Inside
  <2> QED  BY <2>6, KeptIsEnough
<1>5. CASE ~wk[r].promoted
  <2> DEFINE w == [wk[r] EXCEPT !.pc = "publish", !.winless = Bump(r),
                                !.limit = AtLimit(r)]
  <2>1. AtLimit(r) \in BOOLEAN  BY DEF AtLimit
  <2>2. w \in Workers  BY <1>1, <1>3, <2>1, Here DEF Workers
  <2>3. Rest'  BY <1>2, <1>5, Here DEF Rest, Save
  <2>4. w.pc = "publish" /\ w.winless = Bump(r) /\ w.limit = AtLimit(r)
        /\ w.round = wk[r].round /\ w.errs = wk[r].errs
    BY Here DEF Workers
  <2>a. AtLimit(r) \/ Bump(r) < WinlessLimit
    BY <1>1, Limits DEF AtLimit
  <2>b. w.limit \/ w.winless < WinlessLimit  BY <2>4, <2>a
  <2>c. w.errs < ErrLimit  BY <2>4, Here DEF Save, FlowOf, Inside
  <2>5. FlowOf(w)
    BY <1>1, <2>4, <2>b, <2>c DEF FlowOf, Inside, Closing
  <2>6. Kept(r, w)
    BY <1>5, <2>2, <2>3, <2>4, <2>5 DEF Kept, Save, Alive, Inside
  <2> QED  BY <2>6, KeptIsEnough
<1> QED  BY <1>4, <1>5

LEMMA AnnounceKeeps ==
  ASSUME IInv, NEW r \in Runs, Announce(r)
  PROVE  IInv'
<1> DEFINE keep == IF wk[r].promoted THEN {wk[r].round} ELSE {}
           kept == wk[r].kept \cup keep
           base == [wk[r] EXCEPT !.kept = kept, !.errs = 0,
                                 !.lastErr = NoErr]
           ended == [base EXCEPT !.pc = "end", !.next = "return",
                                 !.outcome = SavedOutcome(r)]
           limit == [base EXCEPT !.pc = "end", !.next = "return",
                                 !.outcome = "winless_limit"]
           going == [base EXCEPT !.pc = "pause"]
<1>1. wk[r].round \in 1 .. MaxRounds
  BY Here, Limits DEF Announce, Workers, FlowOf, Inside
<1>2. kept \in SUBSET (1 .. MaxRounds)  BY <1>1, Here DEF Workers
<1>3. 0 \in 0 .. ErrLimit /\ NoErr \in Errors \cup {NoErr}  BY Limits
<1>4. base \in Workers  BY <1>2, <1>3, Here DEF Workers
<1>5. /\ {"end", "pause"} \subseteq PCs /\ "return" \in WayOut
      /\ SavedOutcome(r) \in Outcomes /\ "winless_limit" \in Outcomes
  BY DEF PCs, Alive, Inside, Closing, WayOut, SavedOutcome, Outcomes
<1>6. ended \in Workers /\ limit \in Workers /\ going \in Workers
  BY <1>4, <1>5 DEF Workers
<1>7. log' \in [Runs -> Logs]
  BY Here, NoteType DEF Rest, Announce, Events
<1>8. generated' \in [Runs -> SUBSET (1 .. MaxRounds)]
  BY Here, CleanupType DEF Rest, Announce
<1>9. prog' \in [Runs -> States]
  BY Here, SetFinishedType DEF Rest, Announce
<1>10. Rest'  BY <1>7, <1>8, <1>9, Here DEF Rest, Announce
<1>11. \/ Become(r, ended)
       \/ Become(r, limit)
       \/ Become(r, going) /\ ~wk[r].limit
  BY DEF Announce
<1>12. wk[r].pc = "announce" /\ UNCHANGED slots  BY DEF Announce
<1>13. ended.pc = "end" /\ ended.next = "return" /\ ended.round = wk[r].round
  BY Here DEF Workers
<1>14. limit.pc = "end" /\ limit.next = "return" /\ limit.round = wk[r].round
  BY Here DEF Workers
<1>15. /\ going.pc = "pause" /\ going.round = wk[r].round
       /\ going.errs = 0 /\ going.winless = wk[r].winless
  BY Here DEF Workers
<1>16. CASE Become(r, ended)
  <2>1. FlowOf(ended)  BY <1>1, <1>13 DEF FlowOf, Inside, Closing
  <2>2. Kept(r, ended)
    BY <1>6, <1>10, <1>12, <1>13, <1>16, <2>1
    DEF Kept, Alive, Inside, Closing
  <2> QED  BY <2>2, KeptIsEnough
<1>17. CASE Become(r, limit)
  <2>1. FlowOf(limit)  BY <1>1, <1>14 DEF FlowOf, Inside, Closing
  <2>2. Kept(r, limit)
    BY <1>6, <1>10, <1>12, <1>14, <1>17, <2>1
    DEF Kept, Alive, Inside, Closing
  <2> QED  BY <2>2, KeptIsEnough
<1>18. CASE Become(r, going) /\ ~wk[r].limit
  <2>1. wk[r].winless < WinlessLimit
    BY <1>12, <1>18, Here DEF FlowOf
  <2>2. FlowOf(going)
    BY <1>1, <1>15, <2>1, Limits DEF FlowOf, Inside, Closing
  <2>3. Kept(r, going)
    BY <1>6, <1>10, <1>12, <1>15, <1>18, <2>2 DEF Kept, Alive, Inside
  <2> QED  BY <2>3, KeptIsEnough
<1> QED  BY <1>11, <1>16, <1>17, <1>18

LEMMA FruitlessKeeps ==
  ASSUME IInv, NEW r \in Runs, NEW o \in Outcomes, NEW checked \in BOOLEAN,
         wk[r].pc \in {"judge", "pick"}, Fruitless(r, o, checked),
         Note(r, "step"), UNCHANGED <<slots, store, budget, catalog>>
  PROVE  IInv'
<1> DEFINE once == [wk[r] EXCEPT !.pc = "end", !.outcome = o,
                                 !.next = "return"]
           limit == [wk[r] EXCEPT !.pc = "end", !.outcome = "winless_limit",
                                  !.next = "return", !.errs = 0,
                                  !.lastErr = NoErr, !.winless = Bump(r)]
           way == IF checked /\ StopSeen(r) THEN "break" ELSE "again"
           going == [wk[r] EXCEPT !.pc = "final", !.next = way, !.errs = 0,
                                  !.lastErr = NoErr, !.winless = Bump(r)]
<1>1. wk[r].round \in 1 .. MaxRounds /\ Bump(r) \in 0 .. WinlessLimit
      /\ wk[r].winless < WinlessLimit /\ wk[r].errs < ErrLimit
  BY Here, Limits DEF Bump, Workers, FlowOf, Inside
<1>2. 0 \in 0 .. ErrLimit /\ NoErr \in Errors \cup {NoErr}  BY Limits
<1>3. /\ {"end", "final"} \subseteq PCs /\ "return" \in WayOut
      /\ way \in WayOut /\ "winless_limit" \in Outcomes
  BY DEF PCs, Alive, Closing, WayOut, Outcomes
<1>4. once \in Workers  BY <1>3, Here DEF Workers
<1>5. limit \in Workers  BY <1>1, <1>2, <1>3, Here DEF Workers
<1>6. going \in Workers  BY <1>1, <1>2, <1>3, Here DEF Workers
<1>7. log' \in [Runs -> Logs]
  BY Here, NoteType DEF Rest, Events
<1>8. generated' \in [Runs -> SUBSET (1 .. MaxRounds)]
  BY Here, CleanupType DEF Rest, Fruitless
<1>9. prog' \in [Runs -> States]
  BY Here, SetDoneType, SetFinishedType DEF Rest, Fruitless
<1>10. Rest'  BY <1>7, <1>8, <1>9, Here DEF Rest
<1>11. \/ Become(r, once)
       \/ Become(r, limit)
       \/ Become(r, going) /\ ~AtLimit(r)
  BY DEF Fruitless, EndRound
<1>12. wk[r].pc \in Alive /\ UNCHANGED slots  BY DEF Alive, Inside
<1>13. once.pc = "end" /\ once.next = "return" /\ once.round = wk[r].round
  BY Here DEF Workers
<1>14. limit.pc = "end" /\ limit.next = "return"
       /\ limit.round = wk[r].round
  BY Here DEF Workers
<1>15. /\ going.pc = "final" /\ going.round = wk[r].round
       /\ going.errs = 0 /\ going.winless = Bump(r)
  BY Here DEF Workers
<1>16. CASE Become(r, once)
  <2>1. FlowOf(once)  BY <1>1, <1>13 DEF FlowOf, Inside, Closing
  <2>2. Kept(r, once)
    BY <1>4, <1>10, <1>12, <1>13, <1>16, <2>1 DEF Kept, Alive, Closing
  <2> QED  BY <2>2, KeptIsEnough
<1>17. CASE Become(r, limit)
  <2>1. FlowOf(limit)  BY <1>1, <1>14 DEF FlowOf, Inside, Closing
  <2>2. Kept(r, limit)
    BY <1>5, <1>10, <1>12, <1>14, <1>17, <2>1 DEF Kept, Alive, Closing
  <2> QED  BY <2>2, KeptIsEnough
<1>18. CASE Become(r, going) /\ ~AtLimit(r)
  <2>1. Bump(r) < WinlessLimit  BY <1>1, <1>18, Limits DEF AtLimit
  <2>2. FlowOf(going)
    BY <1>1, <1>15, <2>1, Limits DEF FlowOf, Inside, Closing
  <2>3. Kept(r, going)
    BY <1>6, <1>10, <1>12, <1>15, <1>18, <2>2 DEF Kept, Alive, Closing
  <2> QED  BY <2>3, KeptIsEnough
<1> QED  BY <1>11, <1>16, <1>17, <1>18

LEMMA RankNothingKeeps ==
  ASSUME IInv, NEW r \in Runs, RankNothing(r)
  PROVE  IInv'
BY FruitlessKeeps DEF RankNothing, Outcomes

LEMMA NoWinnerKeeps ==
  ASSUME IInv, NEW r \in Runs, NoWinner(r)
  PROVE  IInv'
BY FruitlessKeeps DEF NoWinner, Outcomes

LEMMA AbortKeeps ==
  ASSUME IInv, NEW r \in Runs, NEW o \in Outcomes, Abort(r, o),
         wk[r].pc \in {"work", "scan"}
  PROVE  IInv'
<1> DEFINE w == [wk[r] EXCEPT !.pc = "end", !.outcome = o, !.next = "return"]
<1>1. "end" \in PCs /\ "return" \in WayOut
  BY DEF PCs, Alive, Closing, WayOut
<1>2. w \in Workers  BY <1>1, Here DEF Workers
<1>3. log' \in [Runs -> Logs]
  BY Here, NoteType DEF Rest, Abort, Events
<1>4. prog' \in [Runs -> States]
  BY Here, SetFinishedType DEF Rest, Abort
<1>5. Rest'  BY <1>3, <1>4, Here DEF Rest, Abort
<1>6. FlowOf(w) /\ w.pc = "end"
  BY Here DEF FlowOf, Workers, Inside, Closing
<1>7. Kept(r, w)
  BY <1>2, <1>5, <1>6 DEF Kept, Abort, EndRound, Alive, Inside, Closing
<1> QED  BY <1>7, KeptIsEnough

LEMMA RaiseKeeps ==
  ASSUME IInv, NEW r \in Runs,
         \/ LLMCallCancelled(r) \/ AgentBudgetReached(r)
         \/ TerminalLLMError(r)
  PROVE  IInv'
BY AbortKeeps
   DEF LLMCallCancelled, AgentBudgetReached, TerminalLLMError, Outcomes

LEMMA RoundErrorKeeps ==
  ASSUME IInv, NEW r \in Runs, RoundError(r)
  PROVE  IInv'
<1>1. PICK e \in Errors :
        LET streak == IF e = wk[r].lastErr THEN wk[r].errs + 1 ELSE 1
        IN  IF r \in Continuous
            THEN Become(r, [EndRound(r, "error",
                              IF streak >= ErrLimit THEN "break" ELSE "again")
                              EXCEPT !.errs = streak, !.lastErr = e])
            ELSE Become(r, EndRound(r, "error", "break"))
  BY DEF RoundError
<1> DEFINE streak == IF e = wk[r].lastErr THEN wk[r].errs + 1 ELSE 1
           way == IF streak >= ErrLimit THEN "break" ELSE "again"
           going == [wk[r] EXCEPT !.pc = "end", !.outcome = "error",
                                  !.next = way, !.errs = streak,
                                  !.lastErr = e]
           over == [wk[r] EXCEPT !.pc = "end", !.outcome = "error",
                                 !.next = "break"]
<1>2. wk[r].pc \in {"work", "judge", "scan", "pick", "gate", "save"}
  BY DEF RoundError
<1>3. /\ wk[r].round \in 1 .. MaxRounds /\ streak \in 0 .. ErrLimit
      /\ wk[r].winless < WinlessLimit /\ wk[r].pc \in Alive
  BY <1>2, Here, Limits DEF Workers, FlowOf, Inside, Alive
<1>4. /\ "end" \in PCs /\ way \in WayOut /\ "break" \in WayOut
      /\ "error" \in Outcomes
  BY DEF PCs, Alive, Closing, WayOut, Outcomes
<1>5. going \in Workers  BY <1>3, <1>4, Here DEF Workers
<1>6. over \in Workers  BY <1>4, Here DEF Workers
<1>7. prog' \in [Runs -> States]
  BY Here, SetDoneType DEF Rest, RoundError
<1>8. Rest' /\ UNCHANGED slots  BY <1>7, Here DEF Rest, RoundError
<1>9. CASE r \in Continuous
  <2>1. Become(r, going)  BY <1>1, <1>9, Here DEF EndRound, Workers
  <2>2. /\ going.pc = "end" /\ going.next = way /\ going.errs = streak
        /\ going.round = wk[r].round /\ going.winless = wk[r].winless
    BY Here DEF Workers
  <2>3. way = "again" => streak < ErrLimit  BY <1>3, Limits
  <2>4. FlowOf(going)
    BY <1>3, <2>2, <2>3 DEF FlowOf, Inside, Closing
  <2>5. Kept(r, going)
    BY <1>3, <1>5, <1>8, <2>1, <2>2, <2>4 DEF Kept, Alive, Closing
  <2> QED  BY <2>5, KeptIsEnough
<1>10. CASE r \notin Continuous
  <2>1. Become(r, over)  BY <1>1, <1>10 DEF EndRound
  <2>2. over.pc = "end" /\ over.next = "break" /\ over.round = wk[r].round
    BY Here DEF Workers
  <2>3. FlowOf(over)  BY <1>3, <2>2 DEF FlowOf, Inside, Closing
  <2>4. Kept(r, over)
    BY <1>3, <1>6, <1>8, <2>1, <2>2, <2>3 DEF Kept, Alive, Closing
  <2> QED  BY <2>4, KeptIsEnough
<1> QED  BY <1>9, <1>10

LEMMA RemoveAtType ==
  ASSUME NEW S, NEW s \in Seq(S), NEW i \in DOMAIN s
  PROVE  /\ RemoveAt(s, i) \in Seq(S)
         /\ Len(RemoveAt(s, i)) = Len(s) - 1
         /\ \A j \in 1 .. Len(s) - 1 :
              RemoveAt(s, i)[j] = IF j < i THEN s[j] ELSE s[j + 1]
<1>1. i \in 1 .. Len(s) /\ Len(s) \in Nat /\ \A j \in 1 .. Len(s) : s[j] \in S
  BY LenProperties, ElementOfSeq
<1> DEFINE a == SubSeq(s, 1, i - 1)
           b == SubSeq(s, i + 1, Len(s))
<1>2. /\ a \in Seq(S) /\ Len(a) = i - 1
      /\ \A j \in 1 .. i - 1 : a[j] = s[j]
  <2>1. 1 \in Int /\ i - 1 \in Int /\ \A j \in 1 .. i - 1 : s[j] \in S
    BY <1>1
  <2>2. /\ a \in Seq(S)
        /\ Len(a) = IF 1 <= i - 1 THEN (i - 1) - 1 + 1 ELSE 0
        /\ \A j \in 1 .. (i - 1) - 1 + 1 : a[j] = s[1 + j - 1]
    BY <2>1, SubSeqProperties
  <2> QED  BY <1>1, <2>2
<1>3. /\ b \in Seq(S) /\ Len(b) = Len(s) - i
      /\ \A j \in 1 .. Len(s) - i : b[j] = s[i + j]
  <2>1. i + 1 \in Int /\ Len(s) \in Int
        /\ \A j \in i + 1 .. Len(s) : s[j] \in S
    BY <1>1
  <2>2. /\ b \in Seq(S)
        /\ Len(b) = IF i + 1 <= Len(s) THEN Len(s) - (i + 1) + 1 ELSE 0
        /\ \A j \in 1 .. Len(s) - (i + 1) + 1 : b[j] = s[(i + 1) + j - 1]
    BY <2>1, SubSeqProperties
  <2> QED  BY <1>1, <2>2
<1>4. /\ a \o b \in Seq(S) /\ Len(a \o b) = Len(a) + Len(b)
      /\ \A j \in 1 .. Len(a) + Len(b) :
           (a \o b)[j] = IF j <= Len(a) THEN a[j] ELSE b[j - Len(a)]
  BY <1>2, <1>3, ConcatProperties
<1>5. RemoveAt(s, i) = a \o b  BY DEF RemoveAt
<1> HIDE DEF a, b
<1>6. Len(a) + Len(b) = Len(s) - 1  BY <1>1, <1>2, <1>3
<1>7. ASSUME NEW j \in 1 .. Len(s) - 1
      PROVE  (a \o b)[j] = IF j < i THEN s[j] ELSE s[j + 1]
  <2>1. CASE j < i
    BY <1>1, <1>2, <1>4, <1>6, <2>1
  <2>2. CASE ~(j < i)
    <3>1. (a \o b)[j] = b[j - (i - 1)]
      BY <1>1, <1>2, <1>4, <1>6, <2>2
    <3>2. j - (i - 1) \in 1 .. Len(s) - i /\ i + (j - (i - 1)) = j + 1
      BY <1>1, <2>2
    <3>3. b[j - (i - 1)] = s[i + (j - (i - 1))]  BY <1>3, <3>2
    <3> QED  BY <2>2, <3>1, <3>2, <3>3
  <2> QED  BY <2>1, <2>2
<1> QED  BY <1>4, <1>5, <1>6, <1>7

LEMMA HoldersFinite ==
  IsFiniteSet(Holders) /\ Cardinality(Holders) \in Nat
BY RunsAssumption, FS_Subset, FS_CardinalityType DEF Holders

LEMMA StartRunKeeps ==
  ASSUME IInv, NEW r \in Runs, StartRun(r)
  PROVE  IInv'
<1> DEFINE w == [wk[r] EXCEPT !.pc = "start"]
<1>1. w \in Workers  BY Here DEF Workers, PCs, Alive, Outside
<1>2. w.pc = "start" /\ wk[r].pc = "idle"  BY Here DEF Workers, StartRun
<1>3. FlowOf(w)
  BY <1>2, Here DEF Workers, FlowOf, Inside, Closing
<1>4. /\ wk' \in [Runs -> Workers] /\ wk'[r] = w
      /\ \A q \in Runs \ {r} : wk'[q] = wk[q]
  BY <1>1, Becoming DEF IInv, StartRun, Goto
<1>5. Flow'  BY <1>3, <1>4 DEF IInv, Flow, FlowOf
<1>6. store \in Seq(Runs)  BY Here DEF Rest
<1>7. store' \in Seq(Runs)
  <2>1. CASE store' = Append(store, r)
    BY <1>6, <2>1, AppendProperties
  <2>2. ASSUME NEW i \in DOMAIN store,
               store' = Append(RemoveAt(store, i), r)
        PROVE  store' \in Seq(Runs)
    <3>1. RemoveAt(store, i) \in Seq(Runs)  BY <1>6, RemoveAtType
    <3> QED  BY <2>2, <3>1, AppendProperties
  <2> QED  BY <2>1, <2>2 DEF StartRun
<1>8. Holders' = Holders \cup {r} /\ r \notin Holders
  BY <1>2, <1>4 DEF Holders, Alive, Inside, Closing, Outside
<1>9. Cardinality(Holders') = Cardinality(Holders) + 1
  BY <1>8, HoldersFinite, FS_AddElement
<1>10. slots \in 1 .. Slots /\ slots' = slots - 1
  BY Limits DEF IInv, TypeOK, StartRun, SlotFree
<1>11. slots' \in 0 .. Slots  BY <1>10, Limits
<1>12. SlotsAccounted'
  BY <1>9, <1>10, HoldersFinite, Limits DEF IInv, SlotsAccounted
<1>13. TypeOK'
  BY <1>4, <1>7, <1>11 DEF IInv, TypeOK, StartRun
<1> QED  BY <1>5, <1>12, <1>13 DEF IInv

LEMMA LeaveKeeps ==
  ASSUME IInv, NEW r \in Runs, Leave(r)
  PROVE  IInv'
<1> DEFINE w == [wk[r] EXCEPT !.pc = "exited"]
<1>1. w \in Workers  BY Here DEF Workers, PCs
<1>2. w.pc = "exited" /\ wk[r].pc = "leave"  BY Here DEF Workers, Leave
<1>3. FlowOf(w)  BY <1>2 DEF FlowOf, Inside, Closing
<1>4. /\ wk' \in [Runs -> Workers] /\ wk'[r] = w
      /\ \A q \in Runs \ {r} : wk'[q] = wk[q]
  BY <1>1, Becoming DEF IInv, Leave, Goto
<1>5. Flow'  BY <1>3, <1>4 DEF IInv, Flow, FlowOf
<1>6. Holders' = Holders \ {r} /\ r \in Holders
  BY <1>2, <1>4 DEF Holders, Alive, Inside, Closing, Outside
<1>7. Cardinality(Holders') = Cardinality(Holders) - 1
  BY <1>6, HoldersFinite, FS_RemoveElement
<1>8. Cardinality(Holders') \in Nat
  <2>1. IsFiniteSet(Holders')
    BY <1>6, HoldersFinite, FS_RemoveElement
  <2> QED  BY <2>1, FS_CardinalityType
<1>9. slots \in 0 .. Slots /\ slots' = slots + 1
  BY DEF IInv, TypeOK, Leave
<1>10. SlotsAccounted'
  BY <1>7, <1>9, HoldersFinite, Limits DEF IInv, SlotsAccounted
<1>11. slots' \in 0 .. Slots
  BY <1>8, <1>9, <1>10, Limits DEF SlotsAccounted
<1>12. TypeOK'  BY <1>4, <1>11 DEF IInv, TypeOK, Leave
<1> QED  BY <1>5, <1>10, <1>12 DEF IInv

LEMMA StopKeeps ==
  ASSUME IInv, NEW r \in Runs, Stop(r)
  PROVE  IInv'
<1>1. prog' \in [Runs -> States]  BY DEF IInv, TypeOK, Stop, States
<1>2. TypeOK'  BY <1>1 DEF IInv, TypeOK, Stop
<1>3. SlotsAccounted' /\ Flow'
  BY DEF IInv, Stop, SlotsAccounted, Holders, Flow, FlowOf
<1> QED  BY <1>2, <1>3 DEF IInv

LEMMA BudgetSpentKeeps ==
  ASSUME IInv, NEW r \in Runs, BudgetSpent(r)
  PROVE  IInv'
<1>1. TypeOK'  BY DEF IInv, TypeOK, BudgetSpent
<1>2. SlotsAccounted' /\ Flow'
  BY DEF IInv, BudgetSpent, SlotsAccounted, Holders, Flow, FlowOf
<1> QED  BY <1>1, <1>2 DEF IInv

-----------------------------------------------------------------------------
LEMMA IInvInit == Init => IInv
<1> SUFFICES ASSUME Init PROVE IInv
  OBVIOUS
<1>1. NewWorker \in Workers
  <2>1. 0 \in 0 .. MaxRounds + 1 /\ 0 \in 0 .. Iters /\ 0 \in 0 .. MaxPassers
        /\ 0 \in 0 .. WinlessLimit /\ 0 \in 0 .. ErrLimit
    BY Limits
  <2> QED
    BY <2>1 DEF NewWorker, Workers, PCs, Outcomes, WayOut
<1>2. NewState \in States  BY Limits DEF NewState, States
<1>3. NewLog \in Logs  BY DEF NewLog, Logs, Events
<1>4. TypeOK  BY <1>1, <1>2, <1>3, Limits DEF Init, TypeOK
<1>5. Holders = {}
  BY DEF Init, Holders, NewWorker, Alive, Inside, Closing, Outside
<1>6. SlotsAccounted
  BY <1>5, FS_EmptySet, Limits DEF Init, SlotsAccounted
<1>7. FlowOf(NewWorker)
  BY Limits DEF NewWorker, FlowOf, Inside, Closing
<1>8. Flow  BY <1>7 DEF Init, Flow
<1> QED  BY <1>4, <1>6, <1>8 DEF IInv

LEMMA WorkerKeeps ==
  ASSUME IInv, NEW r \in Runs, Worker(r)
  PROVE  IInv'
<1>1. CASE WorkerStart(r)  BY <1>1, WorkerStartKeeps
<1>2. CASE Round(r)
  BY <1>2, RoundOverBudgetKeeps, RoundAbandonedKeeps, RoundStartKeeps,
     IterateKeeps, IterationsOverKeeps, JudgeStoppedKeeps, RankNothingKeeps,
     RankSomeKeeps, ScanOneKeeps, ScanOverKeeps, NoWinnerKeeps,
     PickWinnerKeeps, GateKeeps, GateOverBudgetKeeps, SaveKeeps,
     PublishKeeps, AnnounceKeeps, PauseKeeps
  DEF Round
<1>3. CASE Raise(r)  BY <1>3, RaiseKeeps, RoundErrorKeeps DEF Raise
<1>4. CASE Wrap(r)
  BY <1>4, EndLogKeeps, FinalKeeps, LoopEndKeeps, LoopEndLogKeeps,
     LastLogKeeps
  DEF Wrap
<1>5. CASE Leave(r)  BY <1>5, LeaveKeeps
<1> QED  BY <1>1, <1>2, <1>3, <1>4, <1>5 DEF Worker

LEMMA IInvNext == IInv /\ [Next]_vars => IInv'
<1> SUFFICES ASSUME IInv, [Next]_vars PROVE IInv'
  OBVIOUS
<1>1. CASE UNCHANGED vars
  BY <1>1 DEF IInv, TypeOK, SlotsAccounted, Holders, Flow, FlowOf, vars
<1>2. ASSUME NEW r \in Runs,
             StartRun(r) \/ Stop(r) \/ BudgetSpent(r) \/ Worker(r)
      PROVE  IInv'
  BY <1>2, StartRunKeeps, StopKeeps, BudgetSpentKeeps, WorkerKeeps
<1> QED  BY <1>1, <1>2 DEF Next

THEOREM Invariance == Spec => []IInv
BY IInvInit, IInvNext, PTL DEF Spec

(* The types, for any runs and limits: in particular the counters of the    *)
(* two circuit breakers stay within their limits.                           *)
THEOREM TypeCorrect == Spec => []TypeOK
<1>1. IInv => TypeOK  BY DEF IInv
<1> QED  BY Invariance, <1>1, PTL

(* No path of a worker, and no refused request, loses or doubles a slot.    *)
THEOREM SlotsNeverLeak == Spec => []SlotsAccounted
<1>1. IInv => SlotsAccounted  BY DEF IInv
<1> QED  BY Invariance, <1>1, PTL

(* No round begins once a circuit breaker's counter is at its limit.        *)
THEOREM BreakersAreKept == Spec => BreakersHold
<1>1. IInv => \A r \in Runs :
                RoundBegins(r) =>
                  wk[r].winless < WinlessLimit /\ wk[r].errs < ErrLimit
  BY DEF IInv, Flow, FlowOf, RoundBegins
<1> QED  BY Invariance, <1>1, PTL DEF BreakersHold

-----------------------------------------------------------------------------
(* Publishing.                                                              *)
(* Where the round's finalist is still to be judged and saved. *)
Before == {"work", "judge", "scan", "pick", "gate", "save"}

(* One window more was used up than finalists published, when a promotion  *)
(* is still to be saved; the windows are finite, for they are added one by *)
(* one.                                                                    *)
Windows(r) ==
  /\ IsFiniteSet(wk[r].consumed)
  /\ IsFiniteSet(Published(r))
  /\ Cardinality(Published(r)) <= Cardinality(wk[r].consumed)
  /\ wk[r].pc = "save" /\ wk[r].promoted
       => Cardinality(Published(r)) < Cardinality(wk[r].consumed)
Research(r) ==
  r \in ResearchOnly =>
    Published(r) = {} /\ ~(wk[r].pc = "save" /\ wk[r].promoted)
Order(r) ==
  \A e \in Published(r) :
    /\ e.round <= wk[r].round
    /\ wk[r].pc \in Before => e.round < wk[r].round

History(r) == Windows(r) /\ Research(r) /\ Order(r)
PInv == \A r \in Runs : History(r)

-----------------------------------------------------------------------------
Quiet(r) ==
  /\ UNCHANGED catalog
  /\ \A q \in Runs \ {r} : wk'[q] = wk[q]
  /\ wk'[r].consumed = wk[r].consumed
  /\ wk'[r].round = wk[r].round
  /\ wk'[r].pc # "save"
  /\ wk'[r].pc \in Before => wk[r].pc \in Before
  /\ wk[r].pc \in Alive /\ wk'[r].pc \in Alive

LEMMA Others ==
  ASSUME NEW r \in Runs, History(r), wk'[r] = wk[r],
         Published(r)' = Published(r)
  PROVE  History(r)'
BY DEF History, Windows, Research, Order

LEMMA QuietKeeps ==
  ASSUME PInv, NEW r \in Runs, Quiet(r)
  PROVE  PInv'
<1>1. ASSUME NEW q \in Runs PROVE History(q)'
  <2>1. Published(q)' = Published(q)  BY DEF Quiet, Published
  <2>2. CASE q # r  BY <2>1, <2>2, Others DEF PInv, Quiet
  <2>3. CASE q = r
    <3>1. History(r)  BY DEF PInv
    <3>2. Windows(r)'  BY <2>1, <2>3, <3>1 DEF History, Windows, Quiet
    <3>3. Research(r)'  BY <2>1, <2>3, <3>1 DEF History, Research, Quiet
    <3>4. Order(r)'  BY <2>1, <2>3, <3>1 DEF History, Order, Quiet
    <3> QED  BY <2>3, <3>2, <3>3, <3>4 DEF History
  <2> QED  BY <2>2, <2>3
<1> QED  BY <1>1 DEF PInv

(* A step that only replaces the worker's record by w. *)
LEMMA QuietStep ==
  ASSUME IInv, NEW r \in Runs, NEW w, Become(r, w), UNCHANGED catalog,
         w.consumed = wk[r].consumed, w.round = wk[r].round,
         w.pc \in Alive \ {"save"}, wk[r].pc \in Alive,
         w.pc \in Before => wk[r].pc \in Before
  PROVE  Quiet(r)
BY DEF Become, Quiet, IInv, TypeOK

LEMMA QuietGoto ==
  ASSUME IInv, NEW r \in Runs, NEW pc \in Alive \ {"save"}, Goto(r, pc),
         UNCHANGED catalog, wk[r].pc \in Alive,
         pc \in Before => wk[r].pc \in Before
  PROVE  Quiet(r)
<1> DEFINE w == [wk[r] EXCEPT !.pc = pc]
<1>1. Become(r, w)  BY DEF Goto
<1>2. w.pc = pc /\ w.consumed = wk[r].consumed /\ w.round = wk[r].round
  BY Here DEF Workers
<1> QED  BY <1>1, <1>2, QuietStep

LEMMA QuietMoves ==
  ASSUME IInv, NEW r \in Runs,
         \/ WorkerStart(r) \/ IterationsOver(r) \/ ScanOver(r)
         \/ PickWinner(r) \/ Publish(r) \/ EndLog(r) \/ Final(r)
         \/ LoopEnd(r) \/ LoopEndLog(r) \/ LastLog(r)
  PROVE  Quiet(r)
<1>1. CASE WorkerStart(r)
  BY <1>1, QuietGoto DEF WorkerStart, Alive, Outside, Before
<1>2. CASE IterationsOver(r)
  BY <1>2, QuietGoto DEF IterationsOver, Alive, Inside, Before
<1>3. CASE ScanOver(r)
  BY <1>3, QuietGoto DEF ScanOver, Alive, Inside, Before
<1>4. CASE PickWinner(r)
  BY <1>4, QuietGoto DEF PickWinner, Alive, Inside, Before
<1>5. CASE Publish(r)
  BY <1>5, QuietGoto DEF Publish, Alive, Inside, Before
<1>6. CASE EndLog(r)
  BY <1>6, QuietGoto DEF EndLog, Alive, Closing, Before
<1>7. CASE Final(r)
  <2>1. wk[r].next \in WayOut  BY Here DEF Workers
  <2>2. PICK pc \in {"leave", "tail", "top"} : Goto(r, pc)
    BY <1>7, <2>1 DEF Final, WayOut
  <2>3. wk[r].pc = "final" /\ UNCHANGED catalog  BY <1>7 DEF Final
  <2> QED  BY <2>2, <2>3, QuietGoto DEF Alive, Closing, Outside, Before
<1>8. CASE LoopEnd(r)
  BY <1>8, QuietGoto DEF LoopEnd, Alive, Outside, Before
<1>9. CASE LoopEndLog(r)
  BY <1>9, QuietGoto DEF LoopEndLog, Alive, Outside, Before
<1>10. CASE LastLog(r)
  BY <1>10, QuietGoto DEF LastLog, Alive, Outside, Before
<1> QED  BY <1>1, <1>2, <1>3, <1>4, <1>5, <1>6, <1>7, <1>8, <1>9, <1>10

LEMMA QuietFruitless ==
  ASSUME IInv, NEW r \in Runs, NEW o, NEW c, Fruitless(r, o, c),
         UNCHANGED catalog, wk[r].pc \in {"judge", "pick"}
  PROVE  Quiet(r)
<1> DEFINE done == [wk[r] EXCEPT !.pc = "end", !.outcome = o,
                                 !.next = "return"]
           limit == [wk[r] EXCEPT !.pc = "end", !.outcome = "winless_limit",
                                  !.next = "return", !.errs = 0,
                                  !.lastErr = NoErr, !.winless = Bump(r)]
           go(n) == [wk[r] EXCEPT !.pc = "final", !.next = n, !.errs = 0,
                                  !.lastErr = NoErr, !.winless = Bump(r)]
<1>1. /\ done.pc = "end" /\ done.consumed = wk[r].consumed
      /\ done.round = wk[r].round
      /\ limit.pc = "end" /\ limit.consumed = wk[r].consumed
      /\ limit.round = wk[r].round
  BY Here DEF Workers
<1>2. \A n : /\ go(n).pc = "final" /\ go(n).consumed = wk[r].consumed
             /\ go(n).round = wk[r].round
  BY Here DEF Workers
<1>3. CASE Become(r, EndRound(r, o, "return"))
  <2>1. Become(r, done)  BY <1>3 DEF EndRound
  <2> QED  BY <1>1, <2>1, QuietStep DEF Alive, Inside, Closing, Before
<1>4. CASE Become(r, [EndRound(r, "winless_limit", "return")
                        EXCEPT !.errs = 0, !.lastErr = NoErr,
                               !.winless = Bump(r)])
  <2>1. Become(r, limit)  BY <1>4, Here DEF EndRound, Workers
  <2> QED  BY <1>1, <2>1, QuietStep DEF Alive, Inside, Closing, Before
<1>5. ASSUME NEW n, Become(r, go(n)) PROVE Quiet(r)
  BY <1>2, <1>5, QuietStep DEF Alive, Inside, Closing, Before
<1> QED  BY <1>3, <1>4, <1>5 DEF Fruitless

LEMMA QuietAnnounce ==
  ASSUME IInv, NEW r \in Runs, Announce(r)
  PROVE  Quiet(r)
<1> DEFINE keep == IF wk[r].promoted THEN {wk[r].round} ELSE {}
           base == [wk[r] EXCEPT !.kept = @ \cup keep, !.errs = 0,
                                 !.lastErr = NoErr]
           ended(o) == [base EXCEPT !.pc = "end", !.next = "return",
                                    !.outcome = o]
           paused == [base EXCEPT !.pc = "pause"]
<1>1. /\ \A o : /\ ended(o).pc = "end" /\ ended(o).round = wk[r].round
                /\ ended(o).consumed = wk[r].consumed
      /\ paused.pc = "pause" /\ paused.round = wk[r].round
      /\ paused.consumed = wk[r].consumed
  BY Here DEF Workers
<1>2. /\ wk[r].pc = "announce" /\ UNCHANGED catalog
      /\ (\E o : Become(r, ended(o))) \/ Become(r, paused)
  BY DEF Announce
<1> HIDE DEF ended, paused
<1> QED  BY <1>1, <1>2, QuietStep DEF Alive, Inside, Closing, Before

LEMMA QuietAbort ==
  ASSUME IInv, NEW r \in Runs, NEW o, Abort(r, o),
         wk[r].pc \in {"work", "scan"}
  PROVE  Quiet(r)
<1> DEFINE w == [wk[r] EXCEPT !.pc = "end", !.outcome = o, !.next = "return"]
<1>1. Become(r, w) /\ UNCHANGED catalog  BY DEF Abort, EndRound
<1>2. w.pc = "end" /\ w.consumed = wk[r].consumed /\ w.round = wk[r].round
  BY Here DEF Workers
<1> QED  BY <1>1, <1>2, QuietStep DEF Alive, Inside, Closing, Before

LEMMA QuietRoundError ==
  ASSUME IInv, NEW r \in Runs, RoundError(r)
  PROVE  Quiet(r)
<1> DEFINE going(e, n, k) == [wk[r] EXCEPT !.pc = "end", !.outcome = "error",
                                !.next = n, !.errs = k, !.lastErr = e]
           over == [wk[r] EXCEPT !.pc = "end", !.outcome = "error",
                                 !.next = "break"]
<1>1. /\ \A e, n, k : /\ going(e, n, k).pc = "end"
                      /\ going(e, n, k).consumed = wk[r].consumed
                      /\ going(e, n, k).round = wk[r].round
      /\ over.pc = "end" /\ over.consumed = wk[r].consumed
      /\ over.round = wk[r].round
  BY Here DEF Workers
<1>2. /\ (\E e, n, k : Become(r, going(e, n, k))) \/ Become(r, over)
      /\ UNCHANGED catalog
      /\ wk[r].pc \in Before
  BY Here DEF RoundError, EndRound, Workers, Before
<1>3. wk[r].pc \in Alive  BY <1>2 DEF Before, Alive, Inside
<1> HIDE DEF going, over
<1> QED  BY <1>1, <1>2, <1>3, QuietStep DEF Alive, Closing, Before

LEMMA QuietAlters ==
  ASSUME IInv, NEW r \in Runs,
         \/ Iterate(r) \/ JudgeStopped(r) \/ RankSome(r) \/ ScanOne(r)
         \/ Pause(r)
  PROVE  Quiet(r)
<1> DEFINE it == [wk[r] EXCEPT !.iter = @ + 1]
           final(n) == [wk[r] EXCEPT !.pc = "final", !.next = n]
           rank(n) == [wk[r] EXCEPT !.pc = "scan", !.left = n]
           scan(n) == [wk[r] EXCEPT !.left = @ - 1, !.pass = @ + n]
<1>1. /\ it.pc = wk[r].pc /\ it.consumed = wk[r].consumed
      /\ it.round = wk[r].round
      /\ \A n : /\ final(n).pc = "final"
                /\ final(n).consumed = wk[r].consumed
                /\ final(n).round = wk[r].round
      /\ \A n : /\ rank(n).pc = "scan"
                /\ rank(n).consumed = wk[r].consumed
                /\ rank(n).round = wk[r].round
      /\ \A n : /\ scan(n).pc = wk[r].pc
                /\ scan(n).consumed = wk[r].consumed
                /\ scan(n).round = wk[r].round
  BY Here DEF Workers
<1>2. \/ Become(r, it) /\ wk[r].pc = "work"
      \/ \E n : Become(r, final(n)) /\ wk[r].pc \in {"judge", "pause"}
      \/ \E n : Become(r, rank(n)) /\ wk[r].pc = "judge"
      \/ \E n : Become(r, scan(n)) /\ wk[r].pc = "scan"
  BY DEF Iterate, RunBacktestIteration, JudgeStopped, RankSome, ScanOne, Pause
<1>3. UNCHANGED catalog
  BY DEF Iterate, JudgeStopped, RankSome, ScanOne, Pause
<1> HIDE DEF it, final, rank, scan
<1> QED  BY <1>1, <1>2, <1>3, QuietStep DEF Alive, Inside, Closing, Before

LEMMA QuietRaise ==
  ASSUME IInv, NEW r \in Runs, Raise(r)
  PROVE  Quiet(r)
BY QuietAbort, QuietRoundError
   DEF Raise, LLMCallCancelled, AgentBudgetReached, TerminalLLMError

-----------------------------------------------------------------------------
(* The head of the loop numbers a new round. *)
LEMMA NextRoundKeeps ==
  ASSUME IInv, PInv, NEW r \in Runs,
         \/ RoundOverBudget(r) \/ RoundAbandoned(r) \/ RoundStart(r)
  PROVE  /\ PInv'
         /\ UNCHANGED catalog
         /\ \A q \in Runs \ {r} : wk'[q] = wk[q]
         /\ wk[r].pc \in Alive /\ wk'[r].pc \in Alive
<1> DEFINE over == [wk[r] EXCEPT !.pc = "lastlog", !.round = @ + 1,
                                 !.outcome = "budget"]
           left == [wk[r] EXCEPT !.pc = "tail", !.round = @ + 1]
           new == [wk[r] EXCEPT !.pc = "work", !.round = @ + 1, !.iter = 0,
                                !.left = 0, !.pass = 0, !.promoted = FALSE,
                                !.limit = FALSE, !.outcome = "none",
                                !.next = "again"]
<1>1. \A w \in {over, left, new} :
         /\ w.pc \in {"lastlog", "tail", "work"}
         /\ w.consumed = wk[r].consumed
         /\ w.round = wk[r].round + 1
  BY Here DEF Workers
<1>2. /\ \E w \in {over, left, new} : Become(r, w)
      /\ UNCHANGED catalog
      /\ wk[r].pc = "top"
  BY DEF RoundOverBudget, RoundAbandoned, RoundStart
<1> HIDE DEF over, left, new
<1>3. /\ wk'[r].pc \in {"lastlog", "tail", "work"}
      /\ wk'[r].consumed = wk[r].consumed
      /\ wk'[r].round = wk[r].round + 1
      /\ \A q \in Runs \ {r} : wk'[q] = wk[q]
  BY <1>1, <1>2 DEF Become, IInv, TypeOK
<1>4. ASSUME NEW q \in Runs PROVE History(q)'
  <2>1. Published(q)' = Published(q)  BY <1>2 DEF Published
  <2>2. CASE q # r  BY <1>3, <2>1, <2>2, Others DEF PInv
  <2>3. CASE q = r
    <3>1. History(r)  BY DEF PInv
    <3>2. Windows(r)'  BY <1>3, <2>1, <2>3, <3>1 DEF History, Windows
    <3>3. Research(r)'  BY <1>3, <2>1, <2>3, <3>1 DEF History, Research
    <3>4. wk[r].round \in Nat /\ \A e \in Published(r) : e.round \in Nat
      BY Here DEF Workers, Rest, Entries, Published
    <3>5. \A e \in Published(r) : e.round < wk[r].round + 1
      BY <3>1, <3>4 DEF History, Order
    <3>6. \A e \in Published(r) : e.round <= wk[r].round + 1
      BY <3>4, <3>5
    <3>7. Order(r)'  BY <1>3, <2>1, <2>3, <3>5, <3>6 DEF Order
    <3> QED  BY <2>3, <3>2, <3>3, <3>7 DEF History
  <2> QED  BY <2>2, <2>3
<1> QED
  BY <1>2, <1>3, <1>4 DEF PInv, Alive, Inside, Outside

(* The gate uses up a window before it may say that the finalist passed.   *)
LEMMA GateHistory ==
  ASSUME IInv, PInv, NEW r \in Runs, Gate(r)
  PROVE  /\ PInv'
         /\ UNCHANGED catalog
         /\ \A q \in Runs \ {r} : wk'[q] = wk[q]
         /\ wk[r].pc \in Alive /\ wk'[r].pc \in Alive
<1>1. PICK tf \in TFs, sealed \in BOOLEAN, verdict \in BOOLEAN :
        LET runs == sealed /\ WindowUsable(r, tf)
        IN  /\ verdict => runs
            /\ Become(r, [wk[r] EXCEPT !.pc = "save",
                  !.consumed = IF runs THEN @ \cup {tf} ELSE @,
                  !.promoted = Publishable(r, verdict)])
  BY DEF Gate
<1> DEFINE runs == sealed /\ WindowUsable(r, tf)
           spent == IF runs THEN wk[r].consumed \cup {tf}
                    ELSE wk[r].consumed
           w == [wk[r] EXCEPT !.pc = "save", !.consumed = spent,
                              !.promoted = Publishable(r, verdict)]
<1>2. /\ w.pc = "save" /\ w.consumed = spent /\ w.round = wk[r].round
      /\ w.promoted = Publishable(r, verdict)
  BY Here DEF Workers
<1>3. Become(r, w) /\ (verdict => runs) /\ UNCHANGED catalog
      /\ wk[r].pc = "gate"
  BY <1>1 DEF Gate
<1> HIDE DEF w
<1>4. /\ wk'[r].pc = "save" /\ wk'[r].consumed = spent
      /\ wk'[r].round = wk[r].round
      /\ wk'[r].promoted = Publishable(r, verdict)
      /\ \A q \in Runs \ {r} : wk'[q] = wk[q]
  BY <1>2, <1>3 DEF Become, IInv, TypeOK
<1>5. History(r)  BY DEF PInv
<1>6. IsFiniteSet(wk[r].consumed)  BY <1>5 DEF History, Windows
<1>7. /\ IsFiniteSet(spent)
      /\ runs => Cardinality(spent) = Cardinality(wk[r].consumed) + 1
      /\ ~runs => spent = wk[r].consumed
  BY <1>6, FS_AddElement DEF WindowUsable
<1>8. Cardinality(wk[r].consumed) \in Nat /\ Cardinality(Published(r)) \in Nat
  BY <1>5, FS_CardinalityType DEF History, Windows
<1>9. ASSUME NEW q \in Runs PROVE History(q)'
  <2>1. Published(q)' = Published(q)  BY <1>3 DEF Published
  <2>2. CASE q # r  BY <1>4, <2>1, <2>2, Others DEF PInv
  <2>3. CASE q = r
    <3>1. Cardinality(Published(r)) <= Cardinality(spent)
      BY <1>5, <1>7, <1>8 DEF History, Windows
    <3>2. runs => Cardinality(Published(r)) < Cardinality(spent)
      BY <1>5, <1>7, <1>8 DEF History, Windows
    <3>3. wk'[r].promoted => runs  BY <1>3, <1>4 DEF Publishable
    <3>4. Windows(r)'
      BY <1>4, <1>5, <1>7, <2>1, <2>3, <3>1, <3>2, <3>3
      DEF History, Windows
    <3>5. Research(r)'
      BY <1>4, <1>5, <2>1, <2>3 DEF History, Research, Publishable
    <3>6. Order(r)'
      BY <1>3, <1>4, <1>5, <2>1, <2>3 DEF History, Order, Before
    <3> QED  BY <2>3, <3>4, <3>5, <3>6 DEF History
  <2> QED  BY <2>2, <2>3
<1> QED
  BY <1>3, <1>4, <1>9 DEF PInv, Alive, Inside

(* A window used up by a backtest that ran out of time publishes nothing.  *)
LEMMA GateOverBudgetHistory ==
  ASSUME IInv, PInv, NEW r \in Runs, GateOverBudget(r)
  PROVE  /\ PInv'
         /\ UNCHANGED catalog
         /\ \A q \in Runs \ {r} : wk'[q] = wk[q]
         /\ wk[r].pc \in Alive /\ wk'[r].pc \in Alive
<1>1. PICK tf \in TFs \ wk[r].consumed :
        Become(r, [EndRound(r, "budget", "return")
                     EXCEPT !.consumed = @ \cup {tf}])
  BY DEF GateOverBudget
<1> DEFINE w == [wk[r] EXCEPT !.pc = "end", !.outcome = "budget",
                              !.next = "return",
                              !.consumed = wk[r].consumed \cup {tf}]
<1>2. /\ w.pc = "end" /\ w.consumed = wk[r].consumed \cup {tf}
      /\ w.round = wk[r].round
  BY Here DEF Workers
<1>3. Become(r, w) /\ UNCHANGED catalog /\ wk[r].pc = "gate"
  BY <1>1, Here DEF GateOverBudget, EndRound, Workers
<1> HIDE DEF w
<1>4. /\ wk'[r].pc = "end" /\ wk'[r].consumed = wk[r].consumed \cup {tf}
      /\ wk'[r].round = wk[r].round
      /\ \A q \in Runs \ {r} : wk'[q] = wk[q]
  BY <1>2, <1>3 DEF Become, IInv, TypeOK
<1>5. History(r)  BY DEF PInv
<1>6. IsFiniteSet(wk[r].consumed)  BY <1>5 DEF History, Windows
<1>7. /\ IsFiniteSet(wk[r].consumed \cup {tf})
      /\ Cardinality(wk[r].consumed \cup {tf})
           = Cardinality(wk[r].consumed) + 1
  BY <1>1, <1>6, FS_AddElement
<1>8. Cardinality(wk[r].consumed) \in Nat /\ Cardinality(Published(r)) \in Nat
  BY <1>5, FS_CardinalityType DEF History, Windows
<1>9. ASSUME NEW q \in Runs PROVE History(q)'
  <2>1. Published(q)' = Published(q)  BY <1>3 DEF Published
  <2>2. CASE q # r  BY <1>4, <2>1, <2>2, Others DEF PInv
  <2>3. CASE q = r
    <3>1. Cardinality(Published(r)) <= Cardinality(wk[r].consumed \cup {tf})
      BY <1>5, <1>7, <1>8 DEF History, Windows
    <3>2. Windows(r)'
      BY <1>4, <1>5, <1>7, <2>1, <2>3, <3>1 DEF History, Windows
    <3>3. Research(r)'  BY <1>4, <1>5, <2>1, <2>3 DEF History, Research
    <3>4. Order(r)'
      BY <1>3, <1>4, <1>5, <2>1, <2>3 DEF History, Order, Before
    <3> QED  BY <2>3, <3>2, <3>3, <3>4 DEF History
  <2> QED  BY <2>2, <2>3
<1> QED
  BY <1>3, <1>4, <1>9 DEF PInv, Alive, Inside, Closing

(* Saving is the one step that publishes: a finalist of the current round, *)
(* and later than those the run published before.                          *)
Adds(r) ==
  /\ \E n \in 1 .. MaxRounds, g \in BOOLEAN :
       /\ \A e \in Published(r) : e.round < n
       /\ catalog' = catalog \cup {[run |-> r, round |-> n, generated |-> g]}

LEMMA SaveHistory ==
  ASSUME IInv, PInv, NEW r \in Runs, Save(r)
  PROVE  /\ PInv'
         /\ UNCHANGED catalog \/ Adds(r)
         /\ \A q \in Runs \ {r} : wk'[q] = wk[q]
         /\ wk[r].pc \in Alive /\ wk'[r].pc \in Alive
<1> DEFINE n == wk[r].round
           g == n \in generated[r]
           entry == [run |-> r, round |-> n, generated |-> g]
           good == [wk[r] EXCEPT !.pc = "publish", !.winless = 0]
           bad == [wk[r] EXCEPT !.pc = "publish", !.winless = Bump(r),
                                !.limit = AtLimit(r)]
<1>1. \A w \in {good, bad} : /\ w.pc = "publish" /\ w.round = n
                             /\ w.consumed = wk[r].consumed
  BY Here DEF Workers
<1>2. /\ \E w \in {good, bad} : Become(r, w)
      /\ wk[r].pc = "save"
      /\ IF wk[r].promoted THEN catalog' = catalog \cup {entry}
                           ELSE catalog' = catalog
  BY DEF Save
<1> HIDE DEF good, bad
<1>3. /\ wk'[r].pc = "publish" /\ wk'[r].round = n
      /\ wk'[r].consumed = wk[r].consumed
      /\ \A q \in Runs \ {r} : wk'[q] = wk[q]
  BY <1>1, <1>2 DEF Become, IInv, TypeOK
<1>4. History(r)  BY DEF PInv
<1>5. wk[r].pc \in Before  BY <1>2 DEF Before
<1>6. \A e \in Published(r) : e.round < n  BY <1>4, <1>5 DEF History, Order
<1>7. n \in 1 .. MaxRounds /\ \A e \in Published(r) : e.round \in 1 .. MaxRounds
  <2>1. wk[r] \in Workers /\ FlowOf(wk[r])  BY Here
  <2>2. n >= 1 /\ n <= MaxRounds /\ n \in Nat
    BY <1>2, <2>1, Limits DEF Workers, FlowOf, Inside
  <2>3. n \in 1 .. MaxRounds  BY <2>2, Limits
  <2>4. catalog \in SUBSET Entries  BY Here DEF Rest
  <2> QED  BY <2>3, <2>4 DEF Entries, Published
<1>8. entry.run = r /\ entry.round = n /\ g \in BOOLEAN  OBVIOUS
<1>9. entry \notin Published(r)  BY <1>6, <1>7, <1>8
<1>10. ASSUME NEW q \in Runs, q # r PROVE Published(q)' = Published(q)
  BY <1>2, <1>8, <1>10 DEF Published
<1>11. /\ wk[r].promoted => Published(r)' = Published(r) \cup {entry}
       /\ ~wk[r].promoted => Published(r)' = Published(r)
  BY <1>2, <1>8 DEF Published
<1> HIDE DEF n, g, entry
<1>12. ASSUME NEW q \in Runs PROVE History(q)'
  <2>1. CASE q # r  BY <1>3, <1>10, <2>1, Others DEF PInv
  <2>2. CASE q = r /\ ~wk[r].promoted
    <3>1. Windows(r)'  BY <1>3, <1>4, <1>11, <2>2 DEF History, Windows
    <3>2. Research(r)'  BY <1>3, <1>4, <1>11, <2>2 DEF History, Research
    <3>3. Order(r)'
      BY <1>3, <1>4, <1>11, <2>2 DEF History, Order, Before, n
    <3> QED  BY <2>2, <3>1, <3>2, <3>3 DEF History
  <2>3. CASE q = r /\ wk[r].promoted
    <3>1. /\ IsFiniteSet(Published(r)) /\ IsFiniteSet(wk[r].consumed)
          /\ Cardinality(Published(r)) < Cardinality(wk[r].consumed)
      BY <1>2, <1>4, <2>3 DEF History, Windows
    <3>2. /\ IsFiniteSet(Published(r)')
          /\ Cardinality(Published(r)') = Cardinality(Published(r)) + 1
      BY <1>9, <1>11, <2>3, <3>1, FS_AddElement
    <3>3. /\ Cardinality(Published(r)) \in Nat
          /\ Cardinality(wk[r].consumed) \in Nat
      BY <3>1, FS_CardinalityType
    <3>4. Cardinality(Published(r)') <= Cardinality(wk[r].consumed)
      BY <3>1, <3>2, <3>3
    <3>5. Windows(r)'  BY <1>3, <3>1, <3>2, <3>4 DEF Windows
    <3>6. Research(r)'
      BY <1>2, <1>4, <2>3 DEF History, Research
    <3>7. \A e \in Published(r)' : e.round <= n
      <4>1. ASSUME NEW e \in Published(r) PROVE e.round <= n
        BY <1>6, <1>7
      <4> QED  BY <1>7, <1>8, <1>11, <2>3, <4>1
    <3>8. Order(r)'  BY <1>3, <3>7 DEF Order, Before
    <3> QED  BY <2>3, <3>5, <3>6, <3>8 DEF History
  <2> QED  BY <2>1, <2>2, <2>3
<1>13. UNCHANGED catalog \/ Adds(r)
  BY <1>2, <1>6, <1>7, <1>8 DEF Adds, entry
<1> QED
  BY <1>2, <1>3, <1>12, <1>13 DEF PInv, Alive, Inside

-----------------------------------------------------------------------------
(* What one step of a worker that stays does to the pool's view. *)
Works(r) ==
  /\ UNCHANGED catalog \/ Adds(r)
  /\ \A q \in Runs \ {r} : wk'[q] = wk[q]
  /\ wk[r].pc \in Alive /\ wk'[r].pc \in Alive

LEMMA WorkerHistory ==
  ASSUME IInv, PInv, NEW r \in Runs, Worker(r), ~Leave(r)
  PROVE  PInv' /\ Works(r)
<1>1. ASSUME Quiet(r) PROVE PInv' /\ Works(r)
  BY <1>1, QuietKeeps DEF Quiet, Works
<1>2. CASE WorkerStart(r) \/ Wrap(r)
  BY <1>1, <1>2, QuietMoves DEF Wrap
<1>3. CASE Raise(r)  BY <1>1, <1>3, QuietRaise
<1>4. CASE Round(r)
  <2>1. CASE RoundOverBudget(r) \/ RoundAbandoned(r) \/ RoundStart(r)
    BY <2>1, NextRoundKeeps DEF Works
  <2>2. CASE Gate(r)  BY <2>2, GateHistory DEF Works
  <2>3. CASE GateOverBudget(r)  BY <2>3, GateOverBudgetHistory DEF Works
  <2>4. CASE Save(r)  BY <2>4, SaveHistory DEF Works
  <2>5. CASE RankNothing(r) \/ NoWinner(r)
    BY <1>1, <2>5, QuietFruitless DEF RankNothing, NoWinner
  <2>6. CASE Announce(r)  BY <1>1, <2>6, QuietAnnounce
  <2>7. CASE \/ IterationsOver(r) \/ ScanOver(r) \/ PickWinner(r)
             \/ Publish(r)
    BY <1>1, <2>7, QuietMoves
  <2>8. CASE \/ Iterate(r) \/ JudgeStopped(r) \/ RankSome(r)
             \/ ScanOne(r) \/ Pause(r)
    BY <1>1, <2>8, QuietAlters
  <2> QED
    BY <1>4, <2>1, <2>2, <2>3, <2>4, <2>5, <2>6, <2>7, <2>8 DEF Round
<1> QED  BY <1>2, <1>3, <1>4 DEF Worker

(* The steps that begin or end a run, and those that leave workers alone.  *)
LEMMA EdgeHistory ==
  ASSUME IInv, PInv, NEW r \in Runs,
         StartRun(r) \/ Leave(r)
  PROVE  /\ PInv'
         /\ UNCHANGED catalog
         /\ \A q \in Runs \ {r} : wk'[q] = wk[q]
         /\ StartRun(r) => wk[r].pc = "idle" /\ wk'[r].pc = "start"
         /\ Leave(r) => wk[r].pc = "leave" /\ wk'[r].pc = "exited"
<1> DEFINE w(pc) == [wk[r] EXCEPT !.pc = pc]
<1>1. \A pc : /\ w(pc).pc = pc /\ w(pc).consumed = wk[r].consumed
              /\ w(pc).round = wk[r].round
  BY Here DEF Workers
<1>2. /\ StartRun(r) => wk[r].pc = "idle" /\ Become(r, w("start"))
      /\ Leave(r) => wk[r].pc = "leave" /\ Become(r, w("exited"))
      /\ UNCHANGED catalog
  BY DEF StartRun, Leave, Goto
<1> HIDE DEF w
<1>3. /\ wk'[r].pc \in {"start", "exited"}
      /\ wk'[r].consumed = wk[r].consumed /\ wk'[r].round = wk[r].round
      /\ StartRun(r) => wk'[r].pc = "start"
      /\ Leave(r) => wk'[r].pc = "exited"
      /\ \A q \in Runs \ {r} : wk'[q] = wk[q]
  BY <1>1, <1>2 DEF Become, IInv, TypeOK
<1>4. ASSUME NEW q \in Runs PROVE History(q)'
  <2>1. Published(q)' = Published(q)  BY <1>2 DEF Published
  <2>2. CASE q # r  BY <1>3, <2>1, <2>2, Others DEF PInv
  <2>3. CASE q = r
    <3>1. History(r)  BY DEF PInv
    <3>2. Windows(r)'  BY <1>3, <2>1, <2>3, <3>1 DEF History, Windows
    <3>3. Research(r)'  BY <1>3, <2>1, <2>3, <3>1 DEF History, Research
    <3>4. Order(r)'  BY <1>3, <2>1, <2>3, <3>1 DEF History, Order, Before
    <3> QED  BY <2>3, <3>2, <3>3, <3>4 DEF History
  <2> QED  BY <2>2, <2>3
<1> QED  BY <1>2, <1>3, <1>4 DEF PInv

LEMMA PInvInit == Init => PInv
<1> SUFFICES ASSUME Init, NEW r \in Runs PROVE History(r)
  BY DEF PInv
<1>1. wk[r] = NewWorker /\ catalog = {}  BY DEF Init
<1>2. Published(r) = {}  BY <1>1 DEF Published
<1>3. wk[r].consumed = {} /\ wk[r].pc = "idle"  BY <1>1 DEF NewWorker
<1>4. IsFiniteSet({}) /\ Cardinality({}) = 0  BY FS_EmptySet
<1> QED  BY <1>2, <1>3, <1>4 DEF History, Windows, Research, Order

LEMMA PInvNext == IInv /\ PInv /\ [Next]_vars => PInv'
<1> SUFFICES ASSUME IInv, PInv, [Next]_vars PROVE PInv'
  OBVIOUS
<1>1. ASSUME UNCHANGED <<wk, catalog>> PROVE PInv'
  <2>1. ASSUME NEW r \in Runs PROVE History(r)'
    BY <1>1, Others DEF PInv, Published
  <2> QED  BY <2>1 DEF PInv
<1>2. CASE UNCHANGED vars  BY <1>1, <1>2 DEF vars
<1>3. ASSUME NEW r \in Runs,
             StartRun(r) \/ Stop(r) \/ BudgetSpent(r) \/ Worker(r)
      PROVE  PInv'
  <2>1. CASE StartRun(r) \/ Leave(r)  BY <2>1, EdgeHistory
  <2>2. CASE Stop(r) \/ BudgetSpent(r)
    BY <1>1, <2>2 DEF Stop, BudgetSpent
  <2>3. CASE Worker(r) /\ ~Leave(r)  BY <2>3, WorkerHistory
  <2> QED  BY <1>3, <2>1, <2>2, <2>3
<1> QED  BY <1>2, <1>3 DEF Next

(* A run publishes at most one finalist per sealed window it used up, and  *)
(* a research-only run none.                                               *)
THEOREM PromotionIsSound == Spec => []PromotionSound
<1>1. PInv => PromotionSound
  BY DEF PInv, History, Windows, Research, PromotionSound
<1>2. Spec => [](IInv /\ PInv)
  BY Invariance, IInvInit, IInvNext, PInvInit, PInvNext, PTL DEF Spec
<1> QED  BY <1>1, <1>2, PTL

-----------------------------------------------------------------------------
(* The pool's variables, as the worker and the catalog show them. *)
Phase == [r \in Runs |-> PhaseOf(r)]
Seen  == {<<e.run, e.round>> : e \in catalog}

LEMMA PhaseStays ==
  ASSUME NEW r \in Runs,
         \A q \in Runs \ {r} : wk'[q] = wk[q],
         wk[r].pc \in Alive, wk'[r].pc \in Alive
  PROVE  Phase' = Phase
BY DEF Phase, PhaseOf, Alive, Inside, Closing, Outside

LEMMA PhaseMoves ==
  ASSUME NEW r \in Runs,
         \A q \in Runs \ {r} : wk'[q] = wk[q]
  PROVE  Phase' = [Phase EXCEPT ![r] = PhaseOf(r)']
BY DEF Phase, PhaseOf

LEMMA PoolRunning ==
  {r \in Runs : Phase[r] = "running"} = Holders
BY DEF Phase, PhaseOf, Holders, Alive, Inside, Closing, Outside

LEMMA PoolInit == Init => Pool!Init
<1> SUFFICES ASSUME Init PROVE Pool!Init
  OBVIOUS
<1>1. \A r \in Runs : PhaseOf(r) = "new"
  BY DEF Init, NewWorker, PhaseOf
<1>2. Seen = {}  BY DEF Init, Seen
<1> QED  BY <1>1, <1>2 DEF Pool!Init, Seen

LEMMA PoolBegin ==
  ASSUME IInv, PInv, NEW r \in Runs, StartRun(r)
  PROVE  Pool!Begin(r)
<1>1. /\ UNCHANGED catalog /\ \A q \in Runs \ {r} : wk'[q] = wk[q]
      /\ wk[r].pc = "idle" /\ wk'[r].pc = "start"
  BY EdgeHistory
<1>2. PhaseOf(r) = "new" /\ PhaseOf(r)' = "running"
  BY <1>1 DEF PhaseOf, Alive, Outside
<1>3. Phase[r] = "new" /\ Phase' = [Phase EXCEPT ![r] = "running"]
  BY <1>1, <1>2, PhaseMoves DEF Phase
<1>4. Cardinality(Holders) < Slots
  BY HoldersFinite, Limits DEF IInv, TypeOK, SlotsAccounted, StartRun, SlotFree
<1>5. Seen' = Seen  BY <1>1 DEF Seen
<1>6. Pool!Running = Holders  BY PoolRunning DEF Pool!Running, Phase
<1>7. Cardinality(Pool!Running) < Slots  BY <1>4, <1>6
<1>8. Pool!Cardinality(Pool!Running) < Slots
  BY <1>7 DEF Pool!Cardinality, Cardinality
<1> QED  BY <1>3, <1>5, <1>8 DEF Pool!Begin, Phase, Seen

LEMMA PoolEnd ==
  ASSUME IInv, PInv, NEW r \in Runs, Leave(r)
  PROVE  Pool!End(r)
<1>1. /\ UNCHANGED catalog /\ \A q \in Runs \ {r} : wk'[q] = wk[q]
      /\ wk[r].pc = "leave" /\ wk'[r].pc = "exited"
  BY EdgeHistory
<1>2. PhaseOf(r) = "running" /\ PhaseOf(r)' = "over"
  BY <1>1 DEF PhaseOf, Alive, Inside, Closing, Outside
<1>3. Phase[r] = "running" /\ Phase' = [Phase EXCEPT ![r] = "over"]
  BY <1>1, <1>2, PhaseMoves DEF Phase
<1>4. Seen' = Seen  BY <1>1 DEF Seen
<1> QED  BY <1>3, <1>4 DEF Pool!End, Phase, Seen

LEMMA PoolWorks ==
  ASSUME IInv, NEW r \in Runs, Works(r)
  PROVE  Pool!Publish(r) \/ UNCHANGED <<Phase, Seen>>
<1>1. Phase' = Phase  BY PhaseStays DEF Works
<1>2. CASE UNCHANGED catalog  BY <1>1, <1>2 DEF Seen
<1>3. CASE Adds(r)
  <2>1. PICK n \in 1 .. MaxRounds, g \in BOOLEAN :
          /\ \A e \in Published(r) : e.round < n
          /\ catalog' = catalog \cup {[run |-> r, round |-> n, generated |-> g]}
    BY <1>3 DEF Adds
  <2> DEFINE x == [run |-> r, round |-> n, generated |-> g]
  <2>2. Seen' = Seen \cup {<<r, n>>}
    <3>1. x.run = r /\ x.round = n /\ catalog' = catalog \cup {x}  BY <2>1
    <3> HIDE DEF x
    <3>2. Seen' = Seen \cup {<<x.run, x.round>>}  BY <3>1 DEF Seen
    <3> QED  BY <3>1, <3>2
  <2>3. \A p \in Seen : p[1] = r => p[2] < n  BY <2>1 DEF Seen, Published
  <2>4. PhaseOf(r) = "running"
    BY DEF Works, PhaseOf, Alive, Inside, Closing, Outside
  <2>5. Phase[r] = "running"  BY <2>4 DEF Phase
  <2> QED  BY <1>1, <2>2, <2>3, <2>5 DEF Pool!Publish, Phase, Seen
<1> QED  BY <1>2, <1>3 DEF Works

LEMMA PoolNext == IInv /\ PInv /\ [Next]_vars => [Pool!Next]_(Pool!pool)
<1> SUFFICES ASSUME IInv, PInv, [Next]_vars
             PROVE  Pool!Next \/ UNCHANGED <<Phase, Seen>>
  BY DEF Pool!pool, Phase, Seen
<1>1. CASE UNCHANGED <<wk, catalog>>
  BY <1>1 DEF Phase, PhaseOf, Seen
<1>2. CASE UNCHANGED vars  BY <1>1, <1>2 DEF vars
<1>3. ASSUME NEW r \in Runs,
             StartRun(r) \/ Stop(r) \/ BudgetSpent(r) \/ Worker(r)
      PROVE  Pool!Next \/ UNCHANGED <<Phase, Seen>>
  <2>1. CASE StartRun(r)  BY <2>1, PoolBegin DEF Pool!Next
  <2>2. CASE Leave(r)  BY <2>2, PoolEnd DEF Pool!Next
  <2>3. CASE Stop(r) \/ BudgetSpent(r)
    BY <1>1, <2>3 DEF Stop, BudgetSpent
  <2>4. CASE Worker(r) /\ ~Leave(r)
    BY <2>4, WorkerHistory, PoolWorks DEF Pool!Next
  <2> QED  BY <1>3, <2>1, <2>2, <2>3, <2>4
<1> QED  BY <1>2, <1>3 DEF Next

(* The runs implement the pool of RunPool: never more than Slots under way, *)
(* publications by runs under way only, in rounds of increasing number.     *)
THEOREM RunsImplementPool == Spec => ImplementsPool
<1>1. Spec => [](IInv /\ PInv)
  BY Invariance, IInvInit, IInvNext, PInvInit, PInvNext, PTL DEF Spec
<1> QED
  BY <1>1, PoolInit, PoolNext, PTL DEF Spec, ImplementsPool, Pool!Spec

-----------------------------------------------------------------------------
(* Endings.                                                                 *)
(* Outcomes whose handler cleans up only after logging session_end. *)
Untidy == {"stopped", "budget", "terminal_llm_error", "error"}

(* A published strategy's blocks are on disk, and retained: by the names   *)
(* already kept, or by the announcement that is still to come.             *)
Safe(r) ==
  \A e \in Published(r) : e.generated =>
    /\ e.round \in generated[r]
    /\ \/ e.round \in wk[r].kept
       \/ /\ wk[r].pc \in {"publish", "announce"}
          /\ wk[r].promoted
          /\ e.round = wk[r].round

(* Where the cleanup of the round has been done. *)
Tidied(r) ==
  \/ wk[r].pc \in {"idle", "start", "top", "pause", "lastlog", "leave",
                   "exited"}
  \/ wk[r].pc = "final" /\ wk[r].next # "break"
  \/ wk[r].pc = "end" /\ wk[r].outcome \notin Untidy
Tidy(r) == Tidied(r) => generated[r] \subseteq wk[r].kept

Ended(r) ==
  \/ wk[r].pc \in {"leave", "exited"}
  \/ wk[r].pc = "final" /\ wk[r].next = "return"
Logged(r) == Ended(r) => log[r].ends # <<>>

(* A single run has one round; its outcome is decided when the round ends. *)
Won(r) == \E i \in DOMAIN log[r].ends : log[r].ends[i] = "winner"
Story(r) ==
  r \notin Continuous =>
    /\ wk[r].pc \in Closing => wk[r].next # "again"
    /\ wk[r].pc # "pause"
    /\ wk[r].pc \in Before \cup {"idle", "start", "top"}
         => ~Won(r) /\ Published(r) = {}
    /\ wk[r].pc \in {"publish", "announce"}
         => ~Won(r) /\ (Published(r) # {} <=> wk[r].promoted)
    /\ wk[r].pc = "end"
         => ~Won(r) /\ (Published(r) # {} <=> wk[r].outcome = "winner")
    /\ wk[r].pc \in {"final", "tail", "tailend", "lastlog", "leave", "exited"}
         => (Won(r) <=> Published(r) # {})

Good(r) == Safe(r) /\ Tidy(r) /\ Logged(r) /\ Story(r)
EInv == \A r \in Runs : Good(r)

-----------------------------------------------------------------------------
(* A step of r leaves what concerns other runs alone. *)
Alone(r) ==
  \A q \in Runs \ {r} :
    /\ wk'[q] = wk[q]
    /\ generated'[q] = generated[q]
    /\ log'[q].ends = log[q].ends
    /\ Published(q)' = Published(q)

LEMMA AloneKeeps ==
  ASSUME EInv, NEW r \in Runs, Alone(r), Good(r)'
  PROVE  EInv'
<1>1. ASSUME NEW q \in Runs, q # r PROVE Good(q)'
  <2>1. /\ Good(q)
        /\ wk'[q] = wk[q] /\ generated'[q] = generated[q]
        /\ log'[q].ends = log[q].ends /\ Published(q)' = Published(q)
    BY <1>1 DEF EInv, Alone
  <2>2. Safe(q)'  BY <2>1 DEF Good, Safe
  <2>3. Tidy(q)'  BY <2>1 DEF Good, Tidy, Tidied
  <2>4. Logged(q)'  BY <2>1 DEF Good, Logged, Ended
  <2>5. Story(q)'  BY <2>1 DEF Good, Story, Won
  <2> QED  BY <2>2, <2>3, <2>4, <2>5 DEF Good
<1> QED  BY <1>1 DEF EInv

(* What the helpers do to the two variables they update. *)
LEMMA NoteEffect ==
  ASSUME IInv, NEW r \in Runs, NEW e, Note(r, e)
  PROVE  \A q \in Runs : log'[q].ends = log[q].ends
BY DEF Note, IInv, TypeOK, Logs

LEMMA NoteEndEffect ==
  ASSUME IInv, NEW r \in Runs, NEW o \in Outcomes, NoteEnd(r, o)
  PROVE  /\ \A q \in Runs \ {r} : log'[q].ends = log[q].ends
         /\ log'[r].ends # <<>>
         /\ Won(r)' <=> Won(r) \/ o = "winner"
<1> DEFINE old == log[r].ends
           new == Append(old, o)
<1>1. old \in Seq(Outcomes)  BY DEF IInv, TypeOK, Logs
<1>2. log'[r].ends = new /\ \A q \in Runs \ {r} : log'[q].ends = log[q].ends
  BY DEF NoteEnd, IInv, TypeOK
<1>3. /\ Len(old) \in Nat /\ DOMAIN old = 1 .. Len(old)
      /\ Len(new) = Len(old) + 1 /\ DOMAIN new = 1 .. Len(old) + 1
      /\ \A i \in 1 .. Len(old) : new[i] = old[i]
      /\ new[Len(old) + 1] = o
  BY <1>1
<1> HIDE DEF new
<1>4. new # <<>>  BY <1>3
<1>5. (\E i \in DOMAIN new : new[i] = "winner")
         <=> (\E i \in DOMAIN old : old[i] = "winner") \/ o = "winner"
  BY <1>3
<1> QED  BY <1>2, <1>4, <1>5 DEF Won

LEMMA CleanupEffect ==
  ASSUME IInv, NEW r \in Runs, NEW keep, Cleanup(r, keep)
  PROVE  /\ generated'[r] = generated[r] \cap (wk[r].kept \cup keep)
         /\ \A q \in Runs \ {r} : generated'[q] = generated[q]
BY DEF Cleanup, IInv, TypeOK

LEMMA BecomeEffect ==
  ASSUME IInv, NEW r \in Runs, NEW w, Become(r, w)
  PROVE  wk'[r] = w /\ \A q \in Runs \ {r} : wk'[q] = wk[q]
BY DEF Become, IInv, TypeOK

LEMMA GotoEffect ==
  ASSUME IInv, NEW r \in Runs, NEW pc, Goto(r, pc)
  PROVE  /\ wk'[r].pc = pc /\ wk'[r].next = wk[r].next
         /\ wk'[r].outcome = wk[r].outcome /\ wk'[r].kept = wk[r].kept
         /\ wk'[r].promoted = wk[r].promoted /\ wk'[r].round = wk[r].round
         /\ \A q \in Runs \ {r} : wk'[q] = wk[q]
BY DEF Goto, Become, IInv, TypeOK, Workers

-----------------------------------------------------------------------------
(* Steps that write no session_end, clean up nothing and publish nothing.  *)
Plain(r) ==
  /\ UNCHANGED <<catalog, generated>>
  /\ \A q \in Runs : log'[q].ends = log[q].ends
  /\ \A q \in Runs \ {r} : wk'[q] = wk[q]
  /\ wk'[r].kept = wk[r].kept
  /\ wk[r].pc \in {"publish", "announce"}
       => /\ wk'[r].pc \in {"publish", "announce"}
          /\ wk'[r].promoted = wk[r].promoted
          /\ wk'[r].round = wk[r].round
  /\ Tidied(r)' => Tidied(r)
  /\ Ended(r)' => Ended(r)

LEMMA PlainKeeps ==
  ASSUME EInv, NEW r \in Runs, Plain(r), Story(r)'
  PROVE  EInv'
<1>1. \A q \in Runs : Published(q)' = Published(q)
  BY DEF Plain, Published
<1>2. Good(r)  BY DEF EInv
<1>3. Safe(r)'  BY <1>1, <1>2 DEF Good, Safe, Plain
<1>4. Tidy(r)'  BY <1>2 DEF Good, Tidy, Plain
<1>5. Logged(r)'  BY <1>2 DEF Good, Logged, Plain
<1>6. Alone(r)  BY <1>1 DEF Alone, Plain
<1> QED  BY <1>3, <1>4, <1>5, <1>6, AloneKeeps DEF Good

(* The steps that move the program counter only. *)
Follows(r, pc) ==
  \/ wk[r].pc = "idle" /\ pc = "start"
  \/ wk[r].pc = "start" /\ pc = "top"
  \/ wk[r].pc = "work" /\ pc = "judge"
  \/ wk[r].pc = "scan" /\ pc = "pick"
  \/ wk[r].pc = "pick" /\ pc = "gate"
  \/ wk[r].pc = "publish" /\ pc = "announce"
  \/ wk[r].pc = "final" /\ wk[r].next = "return" /\ pc = "leave"
  \/ wk[r].pc = "final" /\ wk[r].next = "break" /\ pc = "tail"
  \/ wk[r].pc = "final" /\ wk[r].next = "again" /\ pc = "top"
  \/ wk[r].pc = "tail" /\ pc = "tailend"
  \/ wk[r].pc = "leave" /\ pc = "exited"

LEMMA FollowsKeeps ==
  ASSUME IInv, EInv, NEW r \in Runs, NEW pc, Goto(r, pc), Follows(r, pc),
         UNCHANGED <<catalog, generated>>,
         \A q \in Runs : log'[q].ends = log[q].ends
  PROVE  EInv'
<1>1. /\ wk'[r].pc = pc /\ wk'[r].next = wk[r].next
      /\ wk'[r].outcome = wk[r].outcome /\ wk'[r].kept = wk[r].kept
      /\ wk'[r].promoted = wk[r].promoted /\ wk'[r].round = wk[r].round
      /\ \A q \in Runs \ {r} : wk'[q] = wk[q]
  BY GotoEffect
<1>2. Plain(r)  BY <1>1 DEF Plain, Follows, Tidied, Ended
<1>3. Published(r)' = Published(r) /\ (Won(r)' <=> Won(r))
  BY DEF Published, Won
<1>4. Story(r)  BY DEF EInv, Good
<1>5. Story(r)'
  BY <1>1, <1>3, <1>4 DEF Story, Follows, Before, Closing
<1> QED  BY <1>2, <1>5, PlainKeeps

LEMMA MovesKeep ==
  ASSUME IInv, EInv, NEW r \in Runs,
         \/ StartRun(r) \/ WorkerStart(r) \/ IterationsOver(r)
         \/ ScanOver(r) \/ PickWinner(r) \/ Publish(r) \/ Final(r)
         \/ LoopEnd(r) \/ Leave(r)
  PROVE  EInv'
<1>1. UNCHANGED <<catalog, generated>>
  BY DEF StartRun, WorkerStart, IterationsOver, ScanOver, PickWinner,
         Publish, Final, LoopEnd, Leave
<1>2. \A q \in Runs : log'[q].ends = log[q].ends
  <2>1. UNCHANGED log \/ \E e : Note(r, e)
    BY DEF StartRun, WorkerStart, IterationsOver, ScanOver, PickWinner,
           Publish, Final, LoopEnd, Leave
  <2> QED  BY <2>1, NoteEffect
<1>3. \E pc : Goto(r, pc) /\ Follows(r, pc)
  <2>1. CASE Final(r)
    <3>1. wk[r].next \in WayOut  BY Here DEF Workers
    <3>2. \/ wk[r].next = "return" /\ Goto(r, "leave")
          \/ wk[r].next = "break" /\ Goto(r, "tail")
          \/ wk[r].next = "again" /\ Goto(r, "top")
      BY <2>1, <3>1 DEF Final, WayOut
    <3> QED  BY <2>1, <3>2 DEF Final, Follows
  <2>2. CASE ~Final(r)
    BY <2>2 DEF StartRun, WorkerStart, IterationsOver, ScanOver, PickWinner,
                Publish, LoopEnd, Leave, Follows
  <2> QED  BY <2>1, <2>2
<1> QED  BY <1>1, <1>2, <1>3, FollowsKeeps

(* Steps of the round's body that change more than the program counter.    *)
LEMMA BodyKeeps ==
  ASSUME IInv, EInv, NEW r \in Runs, NEW w, Become(r, w),
         UNCHANGED <<catalog, generated>>,
         \A q \in Runs : log'[q].ends = log[q].ends,
         wk[r].pc \in Before \cup {"top"}, w.kept = wk[r].kept,
         \/ w.pc \in Before
         \/ w.pc = "end" /\ w.outcome \in {"stopped", "budget", "error",
              "terminal_llm_error"} /\ w.next \in WayOut
            /\ (r \notin Continuous => w.next # "again")
         \/ w.pc = "final" /\ w.next = "break"
         \/ w.pc = "tail" \/ (w.pc = "lastlog" /\ wk[r].pc = "top")
  PROVE  EInv'
<1>1. wk'[r] = w /\ \A q \in Runs \ {r} : wk'[q] = wk[q]  BY BecomeEffect
<1>2. Plain(r)  BY <1>1 DEF Plain, Tidied, Ended, Before, Untidy
<1>3. Published(r)' = Published(r) /\ (Won(r)' <=> Won(r))
  BY DEF Published, Won
<1>4. Story(r)  BY DEF EInv, Good
<1>5. Story(r)'  BY <1>1, <1>3, <1>4 DEF Story, Before, Closing
<1> QED  BY <1>2, <1>5, PlainKeeps

LEMMA RoundBodyKeeps ==
  ASSUME IInv, EInv, NEW r \in Runs,
         \/ RoundOverBudget(r) \/ RoundAbandoned(r) \/ RoundStart(r)
         \/ JudgeStopped(r) \/ RankSome(r) \/ ScanOne(r) \/ Gate(r)
  PROVE  EInv'
<1> DEFINE over == [wk[r] EXCEPT !.pc = "lastlog", !.round = @ + 1,
                                 !.outcome = "budget"]
           left == [wk[r] EXCEPT !.pc = "tail", !.round = @ + 1]
           new == [wk[r] EXCEPT !.pc = "work", !.round = @ + 1, !.iter = 0,
                                !.left = 0, !.pass = 0, !.promoted = FALSE,
                                !.limit = FALSE, !.outcome = "none",
                                !.next = "again"]
           stop == [wk[r] EXCEPT !.pc = "final", !.next = "break"]
           rank(n) == [wk[r] EXCEPT !.pc = "scan", !.left = n]
           scan(n) == [wk[r] EXCEPT !.left = @ - 1, !.pass = @ + n]
           save(c, p) == [wk[r] EXCEPT !.pc = "save", !.consumed = c,
                                       !.promoted = p]
<1>1. /\ over.pc = "lastlog" /\ over.kept = wk[r].kept
      /\ left.pc = "tail" /\ left.kept = wk[r].kept
      /\ new.pc = "work" /\ new.kept = wk[r].kept
      /\ stop.pc = "final" /\ stop.next = "break" /\ stop.kept = wk[r].kept
  BY Here DEF Workers
<1>2. /\ \A n : rank(n).pc = "scan" /\ rank(n).kept = wk[r].kept
      /\ \A n : scan(n).pc = wk[r].pc /\ scan(n).kept = wk[r].kept
      /\ \A c, p : save(c, p).pc = "save" /\ save(c, p).kept = wk[r].kept
  BY Here DEF Workers
<1>3. UNCHANGED <<catalog, generated>>
  BY DEF RoundOverBudget, RoundAbandoned, RoundStart, JudgeStopped, RankSome,
         ScanOne, Gate
<1>4. \A q \in Runs : log'[q].ends = log[q].ends
  <2>1. UNCHANGED log \/ \E e : Note(r, e)
    BY DEF RoundOverBudget, RoundAbandoned, RoundStart, JudgeStopped,
           RankSome, ScanOne, Gate
  <2> QED  BY <2>1, NoteEffect
<1>5. CASE Gate(r)
  <2>1. wk[r].pc = "gate" /\ \E c, p : Become(r, save(c, p))
    BY <1>5 DEF Gate
  <2> HIDE DEF save
  <2> QED  BY <1>2, <1>3, <1>4, <2>1, BodyKeeps DEF Before
<1>6. CASE ~Gate(r)
  <2>1. \/ wk[r].pc = "top" /\ (\E w \in {over, left, new} : Become(r, w))
        \/ wk[r].pc = "judge" /\ Become(r, stop)
        \/ wk[r].pc = "judge" /\ \E n : Become(r, rank(n))
        \/ wk[r].pc = "scan" /\ \E n : Become(r, scan(n))
    BY <1>6 DEF RoundOverBudget, RoundAbandoned, RoundStart, JudgeStopped,
                RankSome, ScanOne
  <2> HIDE DEF over, left, new, stop, rank, scan
  <2>2. ASSUME NEW w \in {over, left, new}, Become(r, w), wk[r].pc = "top"
        PROVE  EInv'
    BY <1>1, <1>3, <1>4, <2>2, BodyKeeps DEF Before
  <2>3. ASSUME Become(r, stop), wk[r].pc = "judge" PROVE EInv'
    BY <1>1, <1>3, <1>4, <2>3, BodyKeeps DEF Before
  <2>4. ASSUME NEW n, wk[r].pc \in {"judge", "scan"},
               Become(r, rank(n)) \/ Become(r, scan(n))
        PROVE  EInv'
    BY <1>2, <1>3, <1>4, <2>4, BodyKeeps DEF Before
  <2> QED  BY <2>1, <2>2, <2>3, <2>4
<1> QED  BY <1>5, <1>6

(* The exceptions clean up only after session_end. *)
LEMMA RaiseEnds ==
  ASSUME IInv, EInv, NEW r \in Runs, Raise(r) \/ GateOverBudget(r)
  PROVE  EInv'
<1> DEFINE quit(o, n) == [wk[r] EXCEPT !.pc = "end", !.outcome = o, !.next = n]
           going(e, n, k) == [wk[r] EXCEPT !.pc = "end", !.outcome = "error",
                                !.next = n, !.errs = k, !.lastErr = e]
           spent(c) == [wk[r] EXCEPT !.pc = "end", !.outcome = "budget",
                                     !.next = "return", !.consumed = c]
<1>1. /\ \A o, n : /\ quit(o, n).pc = "end" /\ quit(o, n).outcome = o
                   /\ quit(o, n).next = n /\ quit(o, n).kept = wk[r].kept
      /\ \A e, n, k : /\ going(e, n, k).pc = "end"
                      /\ going(e, n, k).outcome = "error"
                      /\ going(e, n, k).next = n
                      /\ going(e, n, k).kept = wk[r].kept
      /\ \A c : /\ spent(c).pc = "end" /\ spent(c).outcome = "budget"
                /\ spent(c).next = "return" /\ spent(c).kept = wk[r].kept
  BY Here DEF Workers
<1>2. UNCHANGED <<catalog, generated>>
  BY DEF Raise, LLMCallCancelled, AgentBudgetReached, TerminalLLMError,
         RoundError, GateOverBudget, Abort
<1>3. \A q \in Runs : log'[q].ends = log[q].ends
  <2>1. UNCHANGED log \/ \E e : Note(r, e)
    BY DEF Raise, LLMCallCancelled, AgentBudgetReached, TerminalLLMError,
           RoundError, GateOverBudget, Abort
  <2> QED  BY <2>1, NoteEffect
<1>4. wk[r].pc \in Before
  BY DEF Raise, LLMCallCancelled, AgentBudgetReached, TerminalLLMError,
         RoundError, GateOverBudget, Before
<1>5. CASE RoundError(r)
  <2>1. \/ /\ r \in Continuous
           /\ \E e, n, k : n \in {"break", "again"} /\ Become(r, going(e, n, k))
        \/ Become(r, quit("error", "break"))
    <3>1. PICK e \in Errors :
            LET streak == IF e = wk[r].lastErr THEN wk[r].errs + 1 ELSE 1
            IN  IF r \in Continuous
                THEN Become(r, [EndRound(r, "error",
                       IF streak >= ErrLimit THEN "break" ELSE "again")
                       EXCEPT !.errs = streak, !.lastErr = e])
                ELSE Become(r, EndRound(r, "error", "break"))
      BY <1>5 DEF RoundError
    <3> DEFINE k == IF e = wk[r].lastErr THEN wk[r].errs + 1 ELSE 1
               n == IF k >= ErrLimit THEN "break" ELSE "again"
    <3>2. CASE r \in Continuous
      <4>1. Become(r, going(e, n, k))
        BY <3>1, <3>2, Here DEF EndRound, Workers
      <4>2. n \in {"break", "again"}  OBVIOUS
      <4> HIDE DEF going, n, k
      <4> QED  BY <3>2, <4>1, <4>2
    <3>3. CASE r \notin Continuous
      BY <3>1, <3>3 DEF EndRound
    <3> QED  BY <3>2, <3>3
  <2> HIDE DEF going, quit
  <2> QED  BY <1>1, <1>2, <1>3, <1>4, <2>1, BodyKeeps DEF WayOut
<1>6. CASE GateOverBudget(r)
  <2>1. \E c : Become(r, spent(c))
    BY <1>6, Here DEF GateOverBudget, EndRound, Workers
  <2> HIDE DEF spent
  <2> QED  BY <1>1, <1>2, <1>3, <1>4, <2>1, BodyKeeps DEF WayOut
<1>7. CASE LLMCallCancelled(r) \/ AgentBudgetReached(r) \/ TerminalLLMError(r)
  <2>1. \E o \in {"stopped", "budget", "terminal_llm_error"} :
          Become(r, quit(o, "return"))
    BY <1>7 DEF LLMCallCancelled, AgentBudgetReached, TerminalLLMError, Abort,
                EndRound
  <2> HIDE DEF quit
  <2> QED  BY <1>1, <1>2, <1>3, <1>4, <2>1, BodyKeeps DEF WayOut
<1> QED  BY <1>5, <1>6, <1>7 DEF Raise

-----------------------------------------------------------------------------
(* A cleanup that spares the names kept from now on, wherever it is made.  *)
LEMMA CleansKeep ==
  ASSUME IInv, EInv, NEW r \in Runs, NEW keep, Cleanup(r, keep),
         UNCHANGED catalog,
         \A q \in Runs \ {r} :
           wk'[q] = wk[q] /\ log'[q].ends = log[q].ends,
         wk'[r].kept = wk[r].kept \cup keep,
         wk[r].pc \in {"publish", "announce"} /\ wk[r].promoted
           => wk[r].round \in keep,
         Logged(r)', Story(r)'
  PROVE  EInv'
<1>1. /\ generated'[r] = generated[r] \cap (wk[r].kept \cup keep)
      /\ \A q \in Runs \ {r} : generated'[q] = generated[q]
  BY CleanupEffect
<1>2. \A q \in Runs : Published(q)' = Published(q)  BY DEF Published
<1>3. Safe(r)  BY DEF EInv, Good
<1>4. Safe(r)'
  <2>1. ASSUME NEW e \in Published(r), e.generated
        PROVE  e.round \in generated[r] \cap (wk[r].kept \cup keep)
    BY <1>3, <2>1 DEF Safe
  <2> QED  BY <1>1, <1>2, <2>1 DEF Safe
<1>5. Tidy(r)'  BY <1>1 DEF Tidy
<1>6. Alone(r)  BY <1>1, <1>2 DEF Alone
<1> QED  BY <1>4, <1>5, <1>6, AloneKeeps DEF Good

LEMMA FruitlessEnds ==
  ASSUME IInv, EInv, NEW r \in Runs, RankNothing(r) \/ NoWinner(r)
  PROVE  EInv'
<1> DEFINE quit(o) == [wk[r] EXCEPT !.pc = "end", !.outcome = o,
                                    !.next = "return"]
           limit == [wk[r] EXCEPT !.pc = "end", !.outcome = "winless_limit",
                       !.next = "return", !.errs = 0, !.lastErr = NoErr,
                       !.winless = Bump(r)]
           on(n) == [wk[r] EXCEPT !.pc = "final", !.next = n, !.errs = 0,
                       !.lastErr = NoErr, !.winless = Bump(r)]
<1>1. /\ \A o : /\ quit(o).pc = "end" /\ quit(o).outcome = o
                /\ quit(o).next = "return" /\ quit(o).kept = wk[r].kept
      /\ limit.pc = "end" /\ limit.outcome = "winless_limit"
      /\ limit.next = "return" /\ limit.kept = wk[r].kept
      /\ \A n : /\ on(n).pc = "final" /\ on(n).next = n
                /\ on(n).kept = wk[r].kept
  BY Here DEF Workers
<1>2. PICK o \in {"no_eligible_candidate", "no_winner"}, b \in BOOLEAN :
        Fruitless(r, o, b)
  BY DEF RankNothing, NoWinner
<1>3. /\ Cleanup(r, {}) /\ UNCHANGED catalog /\ wk[r].pc \in {"judge", "pick"}
  BY <1>2 DEF Fruitless, RankNothing, NoWinner
<1>4. \A q \in Runs : log'[q].ends = log[q].ends
  BY NoteEffect DEF RankNothing, NoWinner
<1>5. \/ r \notin Continuous /\ Become(r, quit(o))
      \/ r \in Continuous /\ Become(r, limit)
      \/ r \in Continuous /\ \E n \in {"break", "again"} : Become(r, on(n))
  <2>1. CASE r \notin Continuous
    BY <1>2, <2>1 DEF Fruitless, EndRound
  <2>2. CASE r \in Continuous /\ AtLimit(r)
    BY <1>2, <2>2, Here DEF Fruitless, EndRound, Workers
  <2>3. CASE r \in Continuous /\ ~AtLimit(r)
    BY <1>2, <2>3 DEF Fruitless
  <2> QED  BY <2>1, <2>2, <2>3
<1> HIDE DEF quit, limit, on
<1>6. \E w : /\ Become(r, w) /\ w.kept = wk[r].kept
             /\ \/ w.pc = "end" /\ w.next = "return" /\ w.outcome # "winner"
                \/ w.pc = "final" /\ r \in Continuous
                     /\ w.next \in {"break", "again"}
  BY <1>1, <1>5
<1>7. /\ wk'[r].kept = wk[r].kept /\ \A q \in Runs \ {r} : wk'[q] = wk[q]
      /\ \/ /\ wk'[r].pc = "end" /\ wk'[r].next = "return"
            /\ wk'[r].outcome # "winner"
         \/ /\ wk'[r].pc = "final" /\ r \in Continuous
            /\ wk'[r].next \in {"break", "again"}
  BY <1>6, BecomeEffect
<1>8. Logged(r)'  BY <1>7 DEF Logged, Ended
<1>9. Story(r)'
  <2>1. Story(r)  BY DEF EInv, Good
  <2>2. Published(r)' = Published(r) /\ (Won(r)' <=> Won(r))
    BY <1>3, <1>4 DEF Published, Won
  <2> QED  BY <1>3, <1>7, <2>1, <2>2 DEF Story, Before, Closing
<1> QED  BY <1>3, <1>4, <1>7, <1>8, <1>9, CleansKeep

LEMMA AnnounceEnds ==
  ASSUME IInv, EInv, NEW r \in Runs, Announce(r)
  PROVE  EInv'
<1> DEFINE keep == IF wk[r].promoted THEN {wk[r].round} ELSE {}
           base == [wk[r] EXCEPT !.kept = @ \cup keep, !.errs = 0,
                                 !.lastErr = NoErr]
           quit(o) == [base EXCEPT !.pc = "end", !.next = "return",
                                   !.outcome = o]
           wait == [base EXCEPT !.pc = "pause"]
<1>1. /\ \A o : /\ quit(o).pc = "end" /\ quit(o).outcome = o
                /\ quit(o).next = "return"
                /\ quit(o).kept = wk[r].kept \cup keep
      /\ wait.pc = "pause" /\ wait.kept = wk[r].kept \cup keep
  BY Here DEF Workers
<1>2. /\ Cleanup(r, keep) /\ UNCHANGED catalog /\ wk[r].pc = "announce"
      /\ \A q \in Runs : log'[q].ends = log[q].ends
      /\ wk[r].promoted => wk[r].round \in keep
  BY NoteEffect DEF Announce
<1>3. \/ r \notin Continuous /\ Become(r, quit(SavedOutcome(r)))
      \/ r \in Continuous /\ Become(r, quit("winless_limit"))
      \/ r \in Continuous /\ Become(r, wait)
  BY DEF Announce
<1> HIDE DEF quit, wait, keep
<1>4. /\ wk'[r].kept = wk[r].kept \cup keep
      /\ \A q \in Runs \ {r} : wk'[q] = wk[q]
      /\ \/ r \notin Continuous /\ wk'[r].outcome = SavedOutcome(r)
              /\ wk'[r].pc = "end" /\ wk'[r].next = "return"
         \/ r \in Continuous /\ wk'[r].pc \in {"end", "pause"}
  BY <1>1, <1>3, BecomeEffect
<1>5. Logged(r)'  BY <1>4 DEF Logged, Ended
<1>6. Story(r)'
  <2>1. Story(r)  BY DEF EInv, Good
  <2>2. Published(r)' = Published(r) /\ (Won(r)' <=> Won(r))
    BY <1>2 DEF Published, Won
  <2>3. SavedOutcome(r) = "winner" <=> wk[r].promoted  BY DEF SavedOutcome
  <2> QED  BY <1>2, <1>4, <2>1, <2>2, <2>3 DEF Story, Before, Closing
<1> QED  BY <1>2, <1>4, <1>5, <1>6, CleansKeep

-----------------------------------------------------------------------------
(* The other steps of a round that change a block, an entry or the way on. *)
LEMMA IterateEnds ==
  ASSUME IInv, EInv, NEW r \in Runs, Iterate(r)
  PROVE  EInv'
<1> DEFINE w == [wk[r] EXCEPT !.iter = @ + 1]
<1>1. /\ w.pc = "work" /\ w.kept = wk[r].kept /\ w.next = wk[r].next
      /\ wk[r].pc = "work" /\ Become(r, w)
  BY Here DEF Iterate, RunBacktestIteration, Workers
<1> HIDE DEF w
<1>2. /\ wk'[r].pc = "work" /\ wk'[r].kept = wk[r].kept
      /\ \A q \in Runs \ {r} : wk'[q] = wk[q]
  BY <1>1, BecomeEffect
<1>3. \A q \in Runs : /\ log'[q].ends = log[q].ends
                      /\ Published(q)' = Published(q)
  BY NoteEffect DEF Iterate, Published
<1>4. /\ generated[r] \subseteq generated'[r]
      /\ \A q \in Runs \ {r} : generated'[q] = generated[q]
  BY DEF Iterate, ProposeNextStrategy, IInv, TypeOK
<1>5. Safe(r) /\ Story(r)  BY DEF EInv, Good
<1>6. Safe(r)'  BY <1>1, <1>2, <1>3, <1>4, <1>5 DEF Safe
<1>7. Tidy(r)' /\ Logged(r)'  BY <1>2 DEF Tidy, Tidied, Logged, Ended
<1>8. Story(r)'  BY <1>1, <1>2, <1>3, <1>5 DEF Story, Won, Before, Closing
<1>9. Alone(r)  BY <1>2, <1>3, <1>4 DEF Alone
<1> QED  BY <1>6, <1>7, <1>8, <1>9, AloneKeeps DEF Good

LEMMA PauseEnds ==
  ASSUME IInv, EInv, NEW r \in Runs, Pause(r)
  PROVE  EInv'
<1> DEFINE go(n) == [wk[r] EXCEPT !.pc = "final", !.next = n]
<1>1. \A n : /\ go(n).pc = "final" /\ go(n).next = n
             /\ go(n).kept = wk[r].kept
  BY Here DEF Workers
<1>2. /\ wk[r].pc = "pause" /\ UNCHANGED <<catalog, generated>>
      /\ \A q \in Runs : log'[q].ends = log[q].ends
      /\ \E n \in {"break", "again"} : Become(r, go(n))
  BY DEF Pause
<1> HIDE DEF go
<1>3. /\ wk'[r].pc = "final" /\ wk'[r].next \in {"break", "again"}
      /\ wk'[r].kept = wk[r].kept /\ \A q \in Runs \ {r} : wk'[q] = wk[q]
  BY <1>1, <1>2, BecomeEffect
<1>4. Plain(r)  BY <1>2, <1>3 DEF Plain, Tidied, Ended
<1>5. Story(r)'
  <2>1. Story(r)  BY DEF EInv, Good
  <2> QED  BY <1>2, <2>1 DEF Story
<1> QED  BY <1>4, <1>5, PlainKeeps

LEMMA SaveEnds ==
  ASSUME IInv, EInv, NEW r \in Runs, Save(r)
  PROVE  EInv'
<1> DEFINE won == [wk[r] EXCEPT !.pc = "publish", !.winless = 0]
           lost == [wk[r] EXCEPT !.pc = "publish", !.winless = Bump(r),
                                 !.limit = AtLimit(r)]
           x == [run |-> r, round |-> wk[r].round,
                 generated |-> wk[r].round \in generated[r]]
<1>1. /\ won.pc = "publish" /\ won.kept = wk[r].kept
      /\ won.promoted = wk[r].promoted /\ won.round = wk[r].round
      /\ lost.pc = "publish" /\ lost.kept = wk[r].kept
      /\ lost.promoted = wk[r].promoted /\ lost.round = wk[r].round
  BY Here DEF Workers
<1>2. /\ wk[r].pc = "save" /\ UNCHANGED generated
      /\ \A q \in Runs : log'[q].ends = log[q].ends
      /\ \/ wk[r].promoted /\ catalog' = catalog \cup {x} /\ Become(r, won)
         \/ ~wk[r].promoted /\ catalog' = catalog /\ Become(r, lost)
  BY NoteEffect DEF Save
<1>3. /\ x.run = r /\ x.round = wk[r].round
      /\ x.generated <=> wk[r].round \in generated[r]
  OBVIOUS
<1> HIDE DEF won, lost, x
<1>4. /\ wk'[r].pc = "publish" /\ wk'[r].kept = wk[r].kept
      /\ wk'[r].promoted = wk[r].promoted /\ wk'[r].round = wk[r].round
      /\ \A q \in Runs \ {r} : wk'[q] = wk[q]
  BY <1>1, <1>2, BecomeEffect
<1>5. /\ wk[r].promoted => Published(r)' = Published(r) \cup {x}
      /\ ~wk[r].promoted => Published(r)' = Published(r)
      /\ \A q \in Runs \ {r} : Published(q)' = Published(q)
  BY <1>2, <1>3 DEF Published
<1>6. Safe(r) /\ Story(r)  BY DEF EInv, Good
<1>7. Safe(r)'
  <2>1. ASSUME NEW e \in Published(r), e.generated
        PROVE  e.round \in generated'[r] /\ e.round \in wk'[r].kept
    BY <1>2, <1>4, <1>6, <2>1 DEF Safe
  <2>2. ASSUME wk[r].promoted, x.generated
        PROVE  /\ x.round \in generated'[r]
               /\ x.round = wk'[r].round /\ wk'[r].promoted
    BY <1>2, <1>3, <1>4, <2>2
  <2> QED  BY <1>4, <1>5, <2>1, <2>2 DEF Safe
<1>8. Tidy(r)' /\ Logged(r)'  BY <1>4 DEF Tidy, Tidied, Logged, Ended
<1>9. Story(r)'
  <2>1. Won(r)' <=> Won(r)  BY <1>2 DEF Won
  <2> QED  BY <1>2, <1>4, <1>5, <1>6, <2>1 DEF Story, Before, Closing
<1>10. Alone(r)  BY <1>2, <1>4, <1>5 DEF Alone
<1> QED  BY <1>7, <1>8, <1>9, <1>10, AloneKeeps DEF Good

-----------------------------------------------------------------------------
(* The three places that log session_end. *)
LEMMA EndLogEnds ==
  ASSUME IInv, EInv, NEW r \in Runs, EndLog(r)
  PROVE  EInv'
<1>1. /\ wk[r].pc = "end" /\ UNCHANGED catalog
      /\ NoteEnd(r, wk[r].outcome) /\ Goto(r, "final")
      /\ \/ wk[r].outcome \in Untidy /\ Cleanup(r, {})
         \/ wk[r].outcome \notin Untidy /\ UNCHANGED generated
  BY DEF EndLog, Untidy
<1>2. wk[r].outcome \in Outcomes  BY Here DEF Workers
<1>3. /\ wk'[r].pc = "final" /\ wk'[r].next = wk[r].next
      /\ wk'[r].kept = wk[r].kept /\ \A q \in Runs \ {r} : wk'[q] = wk[q]
  BY <1>1, GotoEffect
<1>4. /\ \A q \in Runs \ {r} : log'[q].ends = log[q].ends
      /\ log'[r].ends # <<>>
      /\ Won(r)' <=> Won(r) \/ wk[r].outcome = "winner"
  BY <1>1, <1>2, NoteEndEffect
<1>5. \A q \in Runs : Published(q)' = Published(q)  BY <1>1 DEF Published
<1>6. Logged(r)'  BY <1>4 DEF Logged
<1>7. Story(r)'
  <2>1. Story(r)  BY DEF EInv, Good
  <2> QED  BY <1>1, <1>3, <1>4, <1>5, <2>1 DEF Story, Before, Closing
<1>8. CASE wk[r].outcome \in Untidy
  BY <1>1, <1>3, <1>4, <1>6, <1>7, <1>8, CleansKeep
<1>9. CASE wk[r].outcome \notin Untidy
  <2>1. UNCHANGED generated  BY <1>1, <1>9
  <2>2. Safe(r) /\ Tidy(r)  BY DEF EInv, Good
  <2>3. Safe(r)'  BY <1>1, <1>3, <1>5, <2>1, <2>2 DEF Safe
  <2>4. Tidy(r)'  BY <1>1, <1>3, <1>9, <2>1, <2>2 DEF Tidy, Tidied
  <2>5. Alone(r)  BY <1>3, <1>4, <1>5, <2>1 DEF Alone
  <2> QED  BY <1>6, <1>7, <2>3, <2>4, <2>5, AloneKeeps DEF Good
<1> QED  BY <1>8, <1>9

LEMMA LastEnds ==
  ASSUME IInv, EInv, NEW r \in Runs, LoopEndLog(r) \/ LastLog(r)
  PROVE  EInv'
<1>1. /\ wk[r].pc \in {"tailend", "lastlog"} /\ UNCHANGED catalog
      /\ Goto(r, "leave")
      /\ NoteEnd(r, "stopped") \/ NoteEnd(r, "budget")
  BY DEF LoopEndLog, LastLog
<1>2. /\ wk'[r].pc = "leave" /\ wk'[r].kept = wk[r].kept
      /\ \A q \in Runs \ {r} : wk'[q] = wk[q]
  BY <1>1, GotoEffect
<1>3. /\ \A q \in Runs \ {r} : log'[q].ends = log[q].ends
      /\ log'[r].ends # <<>>
      /\ Won(r)' <=> Won(r)
  BY <1>1, NoteEndEffect DEF Outcomes
<1>4. \A q \in Runs : Published(q)' = Published(q)  BY <1>1 DEF Published
<1>5. Logged(r)'  BY <1>3 DEF Logged
<1>6. Story(r)'
  <2>1. Story(r)  BY DEF EInv, Good
  <2> QED  BY <1>1, <1>2, <1>3, <1>4, <2>1 DEF Story, Before, Closing
<1>7. CASE LoopEndLog(r)
  BY <1>1, <1>2, <1>3, <1>5, <1>6, <1>7, CleansKeep DEF LoopEndLog
<1>8. CASE LastLog(r)
  <2>1. wk[r].pc = "lastlog" /\ UNCHANGED generated  BY <1>8 DEF LastLog
  <2>2. Safe(r) /\ Tidy(r)  BY DEF EInv, Good
  <2>3. Safe(r)'  BY <1>1, <1>2, <1>4, <2>1, <2>2 DEF Safe
  <2>4. Tidy(r)'  BY <1>2, <2>1, <2>2 DEF Tidy, Tidied
  <2>5. Alone(r)  BY <1>2, <1>3, <1>4, <2>1 DEF Alone
  <2> QED  BY <1>5, <1>6, <2>3, <2>4, <2>5, AloneKeeps DEF Good
<1> QED  BY <1>7, <1>8

-----------------------------------------------------------------------------
LEMMA EInvInit == Init => EInv
<1> SUFFICES ASSUME Init, NEW r \in Runs PROVE Good(r)
  BY DEF EInv
<1>1. /\ wk[r] = NewWorker /\ log[r] = NewLog /\ catalog = {}
      /\ generated[r] = {}
  BY DEF Init
<1>2. Published(r) = {} /\ wk[r].pc = "idle" /\ log[r].ends = <<>>
  BY <1>1 DEF Published, NewWorker, NewLog
<1>3. ~Won(r)  BY <1>2 DEF Won
<1> QED
  BY <1>1, <1>2, <1>3
  DEF Good, Safe, Tidy, Logged, Ended, Story, Before, Closing

LEMMA EInvNext == IInv /\ EInv /\ [Next]_vars => EInv'
<1> SUFFICES ASSUME IInv, EInv, [Next]_vars PROVE EInv'
  OBVIOUS
<1>1. CASE UNCHANGED <<wk, generated, log, catalog>>
  BY <1>1 DEF EInv, Good, Safe, Tidy, Tidied, Logged, Ended, Story, Won,
              Published
<1>2. CASE UNCHANGED vars  BY <1>1, <1>2 DEF vars
<1>3. ASSUME NEW r \in Runs,
             StartRun(r) \/ Stop(r) \/ BudgetSpent(r) \/ Worker(r)
      PROVE  EInv'
  <2>1. CASE Stop(r) \/ BudgetSpent(r)
    BY <1>1, <2>1 DEF Stop, BudgetSpent
  <2>2. CASE StartRun(r) \/ WorkerStart(r) \/ Leave(r)
    BY <2>2, MovesKeep
  <2>3. CASE Round(r)
    BY <2>3, MovesKeep, RoundBodyKeeps, IterateEnds, FruitlessEnds, SaveEnds,
       AnnounceEnds, PauseEnds, RaiseEnds DEF Round
  <2>4. CASE Raise(r)  BY <2>4, RaiseEnds
  <2>5. CASE Wrap(r)
    BY <2>5, MovesKeep, EndLogEnds, LastEnds DEF Wrap
  <2> QED  BY <1>3, <2>1, <2>2, <2>3, <2>4, <2>5 DEF Worker
<1> QED  BY <1>2, <1>3 DEF Next

(* The invariant of the endings, of which the theorems below are readings. *)
THEOREM EndingsInvariance == Spec => []EInv
BY Invariance, IInvInit, IInvNext, EInvInit, EInvNext, PTL DEF Spec

(* No cleanup, of a later round or on an error path, deletes the generated *)
(* blocks of a strategy in the catalog.                                    *)
THEOREM CatalogAlwaysResolves == Spec => []CatalogResolves
<1>1. ASSUME EInv, TypeOK PROVE CatalogResolves
  <2>1. SUFFICES ASSUME NEW e \in catalog, e.generated
                 PROVE  e.round \in generated[e.run]
    BY DEF CatalogResolves
  <2>2. e.run \in Runs  BY <1>1 DEF TypeOK, Entries
  <2>3. e \in Published(e.run)  BY DEF Published
  <2>4. Safe(e.run)  BY <1>1, <2>2 DEF EInv, Good
  <2> QED  BY <2>1, <2>3, <2>4 DEF Safe
<1> QED  BY <1>1, EndingsInvariance, TypeCorrect, PTL

(* A worker starts each round, and leaves, with no generated block on disk *)
(* but those of strategies it has published.                               *)
THEOREM NothingIsLeftBehind == Spec => []NothingLeftBehind
<1>1. ASSUME EInv PROVE NothingLeftBehind
  BY <1>1 DEF EInv, Good, Tidy, Tidied, NothingLeftBehind
<1> QED  BY <1>1, EndingsInvariance, PTL

(* No path out of the worker skips session_end. *)
THEOREM EndIsAlwaysLogged == Spec => []EndIsLogged
<1>1. ASSUME EInv PROVE EndIsLogged
  BY <1>1 DEF EInv, Good, Logged, Ended, EndIsLogged
<1> QED  BY <1>1, EndingsInvariance, PTL

(* The session_ends of a single run say "winner" exactly when it published. *)
THEOREM WinnerIsAlwaysPublished == Spec => []WinnerIsPublished
<1>1. ASSUME EInv PROVE WinnerIsPublished
  BY <1>1 DEF EInv, Good, Story, Won, WinnerIsPublished
<1> QED  BY <1>1, EndingsInvariance, PTL
==============================================================================
