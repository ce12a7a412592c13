---------------------------- MODULE StrategySweep ----------------------------
(***************************************************************************)
(* The definition behind a page of the Strategy Builder, the edits of it   *)
(* (strategy_studio/mutations.py), what the compiler and the engine take   *)
(* of it (compiler.py, backtest.to_nautilus), and the optimizer's sweep    *)
(* (optimizer.py) in a background thread, on the copy its request loaded,  *)
(* while the user goes on editing.  A rule has one parameter; a fold       *)
(* scores 0, 1 or 2; a sample is a number of bars.                         *)
(***************************************************************************)
EXTENDS Integers, Sequences, FiniteSets, SequencesExt

CONSTANTS
  Definitions, \* definitions to begin with
  Splits,      \* walk-forward settings: [inSample, outSample, folds, embargo]
  FoldScores,  \* the scores the folds of a candidate may give, NoScore left out
  SampleBars,  \* bars of the sample
  MinWindow,   \* MIN_WINDOW_BARS
  Highest,     \* largest value a parameter may have; the smallest is 1
  NewRules,    \* rules a user adds: <<block, filter, indicator>>
  Typed,       \* ranges a user types: <<min, max>>
  MaxEvals,    \* points of a grid that are tried, MAX_EVALS
  TopRanks,    \* results that are kept, top_n
  SweepLimit,  \* OPTIMIZER_MAX_RUNS
  EngineLimit, \* ENGINE_SWEEP_MAX_RUNS
  MaxEdits,    \* bound: edits
  MaxSweeps,   \* bound: sweeps
  MaxRuleId    \* bound: rules ever made

VARIABLES
  strategy, \* the working copy
  lastRule, \* ids are never used again
  engine,   \* the adapter of the sweep: "stub", or "nautilus"
  split,    \* walkforward
  sweep,    \* the optimizer's run
  ranked,   \* the results of the run that ended
  taken,    \* the last result that was applied, and the working copy before
  edited, swept

-----------------------------------------------------------------------------
(* A definition: its rules by id, how the entry rules are matched, the      *)
(* regime's else branch, the risk parameter, the active instruments and the *)
(* allocation.  What a parameter is marked with is a range, or nothing; the *)
(* engine has a word for one indicator and none for the other.              *)
Blocks == {"regime", "sub_entry", "sub_exit", "entry", "exit"}
Indicators == {"rsi", "ema"}
Unmarked == <<>>
Markings == {m \in Seq(Int) : Len(m) \in {0, 2}}
Rules ==
  [block : Blocks, filter : BOOLEAN, indicator : Indicators, value : Nat, marked : Markings]
StrategyDefinition(ids) ==
  [rules : [ids -> Rules], match : {"all", "any"},
   regime : {"none", "flat", "substrategy"}, branch : BOOLEAN,
   risk : [value : Nat, marked : Markings], active : SUBSET {"btc", "eth"},
   ranked : BOOLEAN, topN : Nat]

ASSUME SweepAssumption ==
  /\ {SampleBars, MinWindow, Highest, MaxEvals, TopRanks, SweepLimit,
      EngineLimit, MaxEdits, MaxSweeps, MaxRuleId} \subseteq Nat
  /\ MaxEvals > 0
  /\ \A s \in Splits : /\ {s.inSample, s.outSample, s.folds, s.embargo} \subseteq Nat
                       /\ s.folds >= 2 /\ s.outSample >= 1
  /\ FoldScores \subseteq Seq(0..2)
  /\ \A d \in Definitions : d.rules \in Seq(Rules) /\ d \in StrategyDefinition(DOMAIN d.rules)
  /\ NewRules \subseteq Blocks \X BOOLEAN \X Indicators
  /\ Typed \subseteq Int \X Int

sweepVars == <<strategy, lastRule, engine, split, sweep, ranked, taken, edited, swept>>
sweepSetting == <<engine, split>>

Bounds == 1..Highest
Risk == 0
NoTally == [invalid |-> 0, engineError |-> 0, screenedOut |-> 0, thinFolds |-> 0]
NoSweep == [pc |-> "off", base |-> <<>>, grid |-> <<>>, n |-> 1, viable |-> <<>>,
            scored |-> <<>>, tally |-> NoTally]
NothingTaken == [on |-> FALSE, point |-> <<>>, before |-> <<>>]

SweepInit ==
  /\ strategy \in Definitions /\ lastRule = Cardinality(DOMAIN strategy.rules)
  /\ engine \in {"stub", "nautilus"} /\ split \in Splits
  /\ sweep = NoSweep /\ ranked = <<>> /\ taken = NothingTaken /\ edited = 0 /\ swept = 0

-----------------------------------------------------------------------------
(* The rules of a block, or its filters.                                    *)
In(d, block, filter) == {r \in DOMAIN d.rules : d.rules[r].block = block /\ d.rules[r].filter = filter}
All(d, block) == In(d, block, TRUE) \cup In(d, block, FALSE)

(* iter_rules walks the blocks in this order; the filters of the regime     *)
(* are not in it.                                                           *)
Walk == << <<"regime", FALSE>>, <<"sub_entry", FALSE>>, <<"sub_entry", TRUE>>,
           <<"sub_exit", FALSE>>, <<"sub_exit", TRUE>>, <<"entry", FALSE>>,
           <<"entry", TRUE>>, <<"exit", FALSE>>, <<"exit", TRUE>> >>

(* The members of S, in place i the one with i - 1 of them before it.      *)
InOrder(S, Before(_, _)) ==
  [i \in 1..Cardinality(S) |->
     CHOOSE x \in S : Cardinality({y \in S : Before(y, x)}) = i - 1]

(* optimized_params: the owners of what is marked, the risk block last.     *)
Optimized(d) ==
  LET rules == UNION {In(d, Walk[i][1], Walk[i][2]) : i \in DOMAIN Walk}
  IN  {r \in rules : d.rules[r].marked # Unmarked} \cup {r \in {Risk} : d.risk.marked # Unmarked}
PlaceOf(d, r) ==
  IF r = Risk THEN Len(Walk) + 1
  ELSE CHOOSE i \in DOMAIN Walk : Walk[i] = <<d.rules[r].block, d.rules[r].filter>>
Axes(d) ==
  LET Before(q, r) == PlaceOf(d, q) < PlaceOf(d, r) \/ (PlaceOf(d, q) = PlaceOf(d, r) /\ q < r)
  IN  InOrder(Optimized(d), Before)

(* An owner is the id of a rule, or Risk.                                   *)
ParamOf(d, owner) == IF owner = Risk THEN d.risk ELSE d.rules[owner]
Held(d, owner) == owner = Risk \/ owner \in DOMAIN d.rules
SetParam(d, owner, param) ==
  IF owner = Risk THEN [d EXCEPT !.risk = param] ELSE [d EXCEPT !.rules[owner] = param]

(* apply_params: each value goes to its owner's parameter, whose range of   *)
(* values is checked; the first that cannot be set raises.                  *)
Settable(d, point) == \A k \in DOMAIN point : Held(d, k) /\ point[k] \in Bounds
Applied(d, point) ==
  [d EXCEPT
     !.rules = [r \in DOMAIN d.rules |-> IF r \in DOMAIN point
                                         THEN [d.rules[r] EXCEPT !.value = point[r]] ELSE d.rules[r]],
     !.risk = IF Risk \in DOMAIN point THEN [d.risk EXCEPT !.value = point[Risk]] ELSE d.risk]

-----------------------------------------------------------------------------
(* compile_strategy.                                                        *)
Read(d) ==
  UNION {All(d, b) : b \in {"entry", "exit"}
                           \cup (IF d.regime = "none" THEN {} ELSE {"regime"})
                           \cup (IF d.regime = "substrategy" THEN {"sub_entry", "sub_exit"} ELSE {})}

Compiles(d) ==
  /\ d.active # {}
  /\ d.regime = "substrategy" => In(d, "sub_entry", FALSE) # {}
  /\ d.ranked => d.topN <= Cardinality(d.active)
  /\ In(d, "entry", FALSE) # {}
  /\ \A r \in Read(d) : d.rules[r].value \in Bounds

(* to_nautilus: what the engine has no word for is refused.                 *)
NoEngineBlock == {"ema"}
(* Mutant: an alternative with filters is let through. *)
RefusesButAny(d) ==
  \/ d.regime # "none" \/ d.ranked
  \/ d.risk.value > 1
  \/ \E r \in All(d, "entry") \cup In(d, "exit", FALSE) : d.rules[r].indicator \in NoEngineBlock
Refuses(d) ==
  \/ d.regime # "none" \/ d.ranked
  \/ d.match = "any" /\ In(d, "entry", TRUE) # {}
  \/ d.risk.value > 1
  \/ \E r \in All(d, "entry") \cup In(d, "exit", FALSE) : d.rules[r].indicator \in NoEngineBlock

Lowered(d) ==
  [entry |-> All(d, "entry"), exit |-> In(d, "exit", FALSE),
   every |-> d.match = "all" \/ In(d, "entry", TRUE) # {}]

-----------------------------------------------------------------------------
(* Edits.  store.editing holds the draft lock from the load to the save,    *)
(* and a mutation that raises saves nothing.                                *)
Edits(d) ==
  /\ edited < MaxEdits /\ edited' = edited + 1
  /\ strategy' = d /\ taken' = NothingTaken
  /\ UNCHANGED <<sweepSetting, sweep, ranked, swept>>

HasBlock(d, block) ==
  /\ block = "regime" => d.regime # "none"
  /\ block \in {"sub_entry", "sub_exit"} => d.branch

NewRule(block, filter, indicator) ==
  [block |-> block, filter |-> filter, indicator |-> indicator, value |-> 2, marked |-> Unmarked]

(* Mutant: a rule goes by its place. *)
FirstFree(d, id) == CHOOSE r \in 1..id : r \notin DOMAIN d.rules \/ r = id
FreshId(d, id) == id

WithRule(d, id, rule) ==
  [d EXCEPT !.rules = [r \in DOMAIN d.rules \cup {id} |-> IF r = id THEN rule ELSE d.rules[r]]]

AddRule(block, filter, indicator) ==
  /\ HasBlock(strategy, block) /\ lastRule < MaxRuleId /\ lastRule' = lastRule + 1
  /\ Edits(WithRule(strategy, FreshId(strategy, lastRule'), NewRule(block, filter, indicator)))

RemoveRule(r) ==
  /\ In(strategy, "entry", FALSE) # {r}
  /\ Edits([strategy EXCEPT !.rules = [q \in DOMAIN strategy.rules \ {r} |-> strategy.rules[q]]]) /\ UNCHANGED lastRule

SetValue(owner, v) ==
  /\ v \in Bounds
  /\ Edits(SetParam(strategy, owner, [ParamOf(strategy, owner) EXCEPT !.value = v]))
  /\ UNCHANGED lastRule

(* _default_range: half to one and a half of the value, whole numbers.      *)
DefaultRange(v) == <<IF v \div 2 < 1 THEN 1 ELSE v \div 2, (3 * v + 1) \div 2>>

ToggleOptimize(owner) ==
  LET p == ParamOf(strategy, owner)
  IN  /\ Edits(SetParam(strategy, owner,
               [p EXCEPT !.marked = IF @ = Unmarked THEN DefaultRange(p.value) ELSE Unmarked]))
      /\ UNCHANGED lastRule

SetOptimizeRange(owner, range) ==
  /\ range[1] <= range[2]
  /\ Edits(SetParam(strategy, owner, [ParamOf(strategy, owner) EXCEPT !.marked = range]))
  /\ UNCHANGED lastRule

ToggleInstrument(i) ==
  LET on == IF i \in strategy.active THEN strategy.active \ {i} ELSE strategy.active \cup {i}
  IN  on # {} /\ Edits([strategy EXCEPT !.active = on]) /\ UNCHANGED lastRule

UpdateAllocation ==
  /\ \/ Edits([strategy EXCEPT !.ranked = ~@])
     \/ \E n \in 1..2 : Edits([strategy EXCEPT !.topN = n])
  /\ UNCHANGED lastRule

SetMatch(match) == Edits([strategy EXCEPT !.match = match]) /\ UNCHANGED lastRule

(* The first change to a substrategy makes one, with a rule to enter and    *)
(* one to leave.                                                            *)
SetRegimeElse(mode) ==
  /\ strategy.regime # "none"
  /\ IF mode = "substrategy" /\ ~strategy.branch
     THEN /\ lastRule + 2 <= MaxRuleId /\ lastRule' = lastRule + 2
          /\ LET enter == WithRule(strategy, lastRule + 1, NewRule("sub_entry", FALSE, "rsi"))
                 leave == WithRule(enter, lastRule + 2, NewRule("sub_exit", FALSE, "rsi"))
             IN  Edits([leave EXCEPT !.regime = mode, !.branch = TRUE])
     ELSE Edits([strategy EXCEPT !.regime = mode]) /\ UNCHANGED lastRule

EditStep ==
  \/ \E new \in NewRules : AddRule(new[1], new[2], new[3])
  \/ \E r \in DOMAIN strategy.rules : RemoveRule(r)
  \/ \E k \in DOMAIN strategy.rules \cup {Risk} :
       \/ ToggleOptimize(k) \/ \E v \in Bounds : SetValue(k, v)
       \/ \E range \in Typed : SetOptimizeRange(k, range)
  \/ \E i \in {"btc", "eth"} : ToggleInstrument(i)
  \/ UpdateAllocation
  \/ \E m \in {"all", "any"} : SetMatch(m)
  \/ \E m \in {"flat", "substrategy"} : SetRegimeElse(m)
-----------------------------------------------------------------------------
(* The windows of the sample, <<first, end>> in bars.                       *)
Unit == split.inSample + split.folds * split.outSample
Floor(months) == (SampleBars * months) \div Unit
Rounded(months) ==   \* half to even
  LET twice == 2 * ((SampleBars * months) % Unit)
      f == Floor(months)
  IN  IF twice > Unit \/ (twice = Unit /\ f % 2 = 1) THEN f + 1 ELSE f

(* Mutant: the purge is left out. *)
UnpurgedStart(i) == Min({Floor(split.inSample + (i - 1) * split.outSample), SampleBars})
FoldStart(i) == Min({Floor(split.inSample + (i - 1) * split.outSample) + split.embargo, SampleBars})
FoldEnd(i) ==
  Max({FoldStart(i), IF i = split.folds THEN SampleBars
                     ELSE Rounded(split.inSample + i * split.outSample)})
ScreenEnd == Rounded(split.inSample)

(* Only the engine slices bars, and it refuses a short slice.               *)
Runs(first, end) == engine = "stub" \/ end - first >= MinWindow
UsableFolds == {i \in 1..split.folds : Runs(FoldStart(i), FoldEnd(i))}

-----------------------------------------------------------------------------
(* The sweep.                                                               *)

(* The product of the ranges, the last of them changing fastest, thinned    *)
(* evenly when it is too large.  (The code's step is a float: now and then  *)
(* it takes the neighbour below.)                                           *)
Widened(point, owner, v) == [k \in DOMAIN point \cup {owner} |-> IF k = owner THEN v ELSE point[k]]
Combos(d) ==
  LET axes == Axes(d)
      points[k \in 0..Len(axes)] ==
        IF k = 0 THEN << [owner \in {} |-> 0] >>
        ELSE LET fewer == points[k - 1]
                 range == ParamOf(d, axes[k]).marked
                 size == Cardinality(range[1]..range[2])
             IN  [i \in 1..Len(fewer) * size |->
                    Widened(fewer[(i - 1) \div size + 1], axes[k], range[1] + ((i - 1) % size))]
  IN  IF axes = <<>> THEN <<>> ELSE points[Len(axes)]
Grid(d) ==
  LET all == Combos(d)
  IN  IF Len(all) <= MaxEvals THEN all
      ELSE [i \in 1..MaxEvals |-> all[((i - 1) * Len(all)) \div MaxEvals + 1]]

Affordable(d) ==
  /\ Len(Combos(d)) * split.folds <= SweepLimit
  /\ engine = "nautilus" => Len(Grid(d)) * (1 + split.folds) <= EngineLimit

(* route_optimize: refused while one runs, without a marked parameter, over *)
(* a limit, or when the definition does not compile.                        *)
StartSweep ==
  /\ sweep.pc \in {"off", "done", "failed"} /\ swept < MaxSweeps /\ swept' = swept + 1
  /\ Axes(strategy) # <<>> /\ Affordable(strategy) /\ Compiles(strategy)
  /\ sweep' = [NoSweep EXCEPT !.pc = "screen", !.base = strategy, !.grid = Grid(strategy)]
  /\ ranked' = <<>> /\ taken' = NothingTaken
  /\ UNCHANGED <<strategy, lastRule, sweepSetting, edited>>

Tally(s, what) == [s EXCEPT !.tally[what] = @ + 1]
Survives(s, point) == [s EXCEPT !.viable = Append(@, point)]
Trial(point) == Applied(sweep.base, point)
EngineRefuses(point) == engine = "nautilus" /\ Refuses(Trial(point))

Screened(s, point) ==
  IF ~Settable(s.base, point) \/ ~Compiles(Trial(point)) THEN {Tally(s, "invalid")}
  ELSE IF split.inSample = 0 THEN {Survives(s, point)}
  ELSE {Tally(s, "engineError")}
       \cup (IF EngineRefuses(point) \/ ~Runs(0, ScreenEnd) THEN {}
             ELSE {Tally(s, "screenedOut"), Survives(s, point)})

SweepGoes == UNCHANGED <<strategy, lastRule, sweepSetting, ranked, taken, edited, swept>>

(* One run over the in-sample window for each point of the grid.            *)
Screen ==
  /\ sweep.pc = "screen"
  /\ IF sweep.n > Len(sweep.grid) THEN sweep' = [sweep EXCEPT !.pc = "folds", !.n = 1]
     ELSE \E s \in Screened(sweep, sweep.grid[sweep.n]) : sweep' = [s EXCEPT !.n = @ + 1]
  /\ SweepGoes

(* A fold that dies, trades too little or scores -inf gives no score.       *)
FoldOutcomes(point) ==
  {f \in FoldScores : Len(f) <= IF EngineRefuses(point) THEN 0 ELSE Cardinality(UsableFolds)}

(* Mutant: one fold is enough. *)
ThinIfEmpty(scores) == scores = <<>>
Thin(scores) == scores = <<>> \/ 5 * Len(scores) < 3 * split.folds

(* Mutant: a thin candidate is counted and scored all the same. *)
WithScoresAlways(s, point, scores) ==
  LET t == [s EXCEPT !.scored = Append(@, [point |-> point, scores |-> scores])]
  IN  IF Thin(scores) THEN Tally(IF scores = <<>> THEN s ELSE t, "thinFolds") ELSE t
WithScores(s, point, scores) ==
  IF Thin(scores) THEN Tally(s, "thinFolds")
  ELSE [s EXCEPT !.scored = Append(@, [point |-> point, scores |-> scores])]

Score ==
  /\ sweep.pc = "folds"
  /\ IF sweep.n > Len(sweep.viable) THEN sweep' = [sweep EXCEPT !.pc = "rank"]
     ELSE LET point == sweep.viable[sweep.n]
          IN \E scores \in FoldOutcomes(point) :
               sweep' = [WithScores(sweep, point, scores) EXCEPT !.n = @ + 1]
  /\ SweepGoes

(* What the scores add up to, and their variance times Len(s)^2.            *)
Often(s, v) == Cardinality({i \in DOMAIN s : s[i] = v})
Sum(s) == Often(s, 1) + 2 * Often(s, 2)
Spread(s) == Len(s) * (Often(s, 1) + 4 * Often(s, 2)) - Sum(s) * Sum(s)

(* penalized_score, mean - 0.5 std, in steps of 1 / (2 * Fine): finer than  *)
(* what two spreads over so many folds can differ by.                       *)
Fine == 4 * split.folds * split.folds * split.folds * split.folds
Root(m) == CHOOSE r \in 0..Fine * m : r * r <= Fine * Fine * m /\ Fine * Fine * m < (r + 1) * (r + 1)
(* Mutant: the mean alone. *)
MeanScore(s) == (2 * Fine * Sum(s)) \div Len(s)
PenalizedScore(s) == (2 * Fine * Sum(s) - Root(Spread(s))) \div Len(s)

(* Stable, so that the first of equals in the grid stays first.             *)
ByWorth(worth) ==
  LET Before(i, j) == worth[i] > worth[j] \/ (worth[i] = worth[j] /\ i < j)
  IN  InOrder(DOMAIN worth, Before)
Ranking(scored) ==
  LET order == ByWorth([i \in DOMAIN scored |-> PenalizedScore(scored[i].scores)])
  IN  [i \in 1..Min({Len(order), TopRanks}) |-> scored[order[i]]]

Rank ==
  /\ sweep.pc = "rank"
  /\ ranked' = Ranking(sweep.scored)
  /\ sweep' = [sweep EXCEPT !.pc = IF sweep.scored = <<>> THEN "failed" ELSE "done"]
  /\ UNCHANGED <<strategy, lastRule, sweepSetting, taken, edited, swept>>

-----------------------------------------------------------------------------
(* route_opt_apply: into the working copy of now, all of it or nothing.     *)
(* Mutant: what was set before the exception is saved. *)
AppliedPartly(d, point) ==
  Applied(d, [k \in {q \in DOMAIN point : Held(d, q) /\ point[q] \in Bounds} |-> point[k]])
AppliedWhole(d, point) == IF Settable(d, point) THEN Applied(d, point) ELSE d

TakeResult ==
  /\ sweep.pc = "done"
  /\ \E i \in DOMAIN ranked :
       /\ strategy' = AppliedWhole(strategy, ranked[i].point)
       /\ taken' = [on |-> TRUE, point |-> ranked[i].point, before |-> strategy]
  /\ UNCHANGED <<lastRule, sweepSetting, sweep, ranked, edited, swept>>

SweepNext == EditStep \/ StartSweep \/ Screen \/ Score \/ Rank \/ TakeResult
SweepSpec == SweepInit /\ [][SweepNext]_sweepVars

-----------------------------------------------------------------------------
(* No combination is lost or counted twice.                                 *)
EachCountedOnce ==
  sweep.pc \in {"done", "failed"} =>
    LET t == sweep.tally
    IN  Len(sweep.grid) = t.invalid + t.engineError + t.screenedOut + t.thinFolds + Len(sweep.scored)

(* "a candidate that shines in one fold and collapses in the rest loses to  *)
(* a steady one": nothing stands above, or in place of, a candidate with a  *)
(* mean at least as high and less spread, and all have most of their folds. *)
Steadier(a, b) ==
  /\ Sum(a) * Len(b) >= Sum(b) * Len(a)
  /\ Spread(a) * Len(b) * Len(b) < Spread(b) * Len(a) * Len(a)
SteadyFirst ==
  /\ \A i, j \in DOMAIN ranked : i < j => ~Steadier(ranked[j].scores, ranked[i].scores)
  /\ \A c \in ToSet(sweep.scored) \ ToSet(ranked), i \in DOMAIN ranked :
       ~Steadier(c.scores, ranked[i].scores)
  /\ \A i \in DOMAIN ranked : 2 * Len(ranked[i].scores) > split.folds

(* What was measured is what is on screen: the engine enters on exactly the *)
(* signals on which the definition of a ranked point enters.                *)
DrawnEnters(d, true) ==
  LET main == /\ In(d, "entry", TRUE) \subseteq true
              /\ IF d.match = "all" THEN In(d, "entry", FALSE) \subseteq true
                 ELSE In(d, "entry", FALSE) \cap true # {}
  IN  IF d.regime = "none" \/ All(d, "regime") \subseteq true THEN main
      ELSE d.regime = "substrategy" /\ All(d, "sub_entry") \subseteq true
EngineEnters(d, true) ==
  IF Lowered(d).every THEN Lowered(d).entry \subseteq true ELSE Lowered(d).entry \cap true # {}
EntersAsDrawn ==
  engine = "nautilus" =>
    \A i \in DOMAIN ranked :
      LET d == Trial(ranked[i].point)
      IN  \A true \in SUBSET Read(d) : DrawnEnters(d, true) = EngineEnters(d, true)

(* "Each candidate is scored on data it was not selected on": with a purge, *)
(* no two windows share a bar.                                              *)
WindowsApart ==
  split.embargo > 0 /\ sweep.pc = "screen" =>
    LET Bars(i) == IF i = 0 THEN 0..(ScreenEnd - 1) ELSE FoldStart(i)..(FoldEnd(i) - 1)
    IN  \A i, j \in 0..split.folds : i < j => Bars(i) \cap Bars(j) = {}

(* A result that is applied, whatever was edited since, changes the values  *)
(* it names in the rules that were swept, all of them, and nothing else; or *)
(* it changes nothing.                                                      *)
TakenWhole ==
  taken.on /\ strategy # taken.before =>
    /\ \A k \in DOMAIN taken.point :
         /\ Held(strategy, k) /\ ParamOf(strategy, k).value = taken.point[k]
         /\ k # Risk => /\ strategy.rules[k].indicator = sweep.base.rules[k].indicator
                          /\ strategy.rules[k].block = sweep.base.rules[k].block
    /\ Applied(taken.before, taken.point) = strategy

(* A sweep of the optimizer, whatever is edited meanwhile: its books        *)
(* balance, its ranking prefers the steady, the engine ran what is drawn on *)
(* bars of its own, and a result is applied whole or not at all.            *)
SweepIsSound ==
  /\ EachCountedOnce /\ SteadyFirst /\ EntersAsDrawn /\ WindowsApart /\ TakenWhole

(* "Rather than silently dropping such rules": what the page draws as exit  *)
(* is what the engine leaves on.  The filters of the exit block are dropped. *)
ExitsAsDrawn ==
  engine = "nautilus" =>
    \A i \in DOMAIN ranked :
      LET d == Trial(ranked[i].point) IN Lowered(d).exit = All(d, "exit")

(* "True if now included": every marked parameter is an axis of the sweep.  *)
(* Those of the regime's filters are not.                                   *)
MarkedAreSwept ==
  \A r \in DOMAIN strategy.rules :
    strategy.rules[r].marked # Unmarked => r \in ToSet(Axes(strategy))
=============================================================================
