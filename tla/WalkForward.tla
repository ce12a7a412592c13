---------------------------- MODULE WalkForward ----------------------------
(***************************************************************************)
(* Walk-forward optimisation over a pool of processes                      *)
(* (backtest_robustness._run_walk_forward_parallel): a generation of every *)
(* window's candidates is one batch of units, a unit is one fold of one    *)
(* candidate, and the parent reduces the payloads and breeds the next      *)
(* generation.  A batch that times out comes back without some of its      *)
(* units.  Optimised(w) is what the path without a pool                    *)
(* (wfo_optimizer.optimize_window) computes of the same window.  A value   *)
(* stands for a vector of parameters, 1 for the strategy's own; a fold     *)
(* scores 0 or 1; a score is in thousandths.                               *)
(***************************************************************************)
EXTENDS Integers, Sequences, FiniteSets, FiniteSetsExt

CONSTANTS
  Windows,      \* the windows of the run
  Values,       \* 1..n
  Generations,  \* generations of a search
  Folds,     \* what the folds of a candidate may give: sequences of folds
  MaxLost       \* bound: units one batch loses

MaxFolds == 3  \* WF_FOLDS

ASSUME WalkAssumption ==
  /\ Generations \in Nat \ {0} /\ MaxLost \in Nat
  /\ 1 \in Values /\ \A f \in Folds : f \in Seq(0..2) /\ Len(f) <= MaxFolds

VARIABLES
  measured,    \* the market: the folds of each value in each window
  drawn,       \* what each window's random generator, seeded with its number, yields
  trains,      \* the windows whose train period has bars
  tunable,     \* the strategy has parameters to tune
  gen,         \* the generation under way
  population,  \* of each window
  best,        \* of each window
  lost,        \* windows that lost a unit
  entries      \* what the run returns

walkVars == <<measured, drawn, trains, tunable, gen, population, best, lost, entries>>

NoScore == 2      \* a fold without the trades to be scored, or one that failed
Rejected == -1    \* -inf
Invalid == <<>>   \* validate() refuses the candidate: it is never run
NoBest == [value |-> 0, objective |-> Rejected, metrics |-> 0]
OwnValues == [value |-> 1, objective |-> Rejected, metrics |-> 0]

(* Without parameters there is nothing to search: the strategy as it is.   *)
LastGeneration == IF tunable THEN Generations ELSE 1
First(w) == IF tunable THEN <<1, drawn[w][1]>> ELSE <<1>>

WalkInit ==
  /\ trains \in SUBSET Windows /\ tunable \in BOOLEAN
  /\ measured \in [trains -> [Values -> Folds]]
  /\ \A w, x \in trains, v \in Values :   \* a matter of the values alone
       /\ (measured[w][v] = Invalid) = (measured[x][v] = Invalid)
       /\ measured[w][1] # Invalid
  /\ drawn \in [trains -> [1..Generations -> Values]]
  /\ gen = 1 /\ lost = {} /\ entries = <<>>
  /\ population = [w \in trains |-> First(w)]
  /\ best = [w \in Windows |-> NoBest]

-----------------------------------------------------------------------------
(* Scores.                                                                  *)

(* The mean less half the deviation, of n folds of which k score 1: the     *)
(* deviation is the root of k(n - k) over n.                                *)
Root(m) == CASE m = 0 -> 0 [] m = 1 -> 1000 [] m = 2 -> 1414
Penalized(folds) ==
  LET n == Cardinality(DOMAIN folds)
      k == Cardinality({f \in DOMAIN folds : folds[f] = 1})
  IN  (1000 * k - Root(k * (n - k)) \div 2) \div n

(* Folds that came back and could be scored.                                *)
Scored(folds) == {f \in DOMAIN folds : folds[f] # NoScore}

Latest(S) == CHOOSE f \in S : \A g \in S : g <= f

Score(folds, of) ==
  IF Scored(folds) = {} \/ 5 * Cardinality(Scored(folds)) < 3 * of THEN Rejected
  ELSE Penalized([f \in Scored(folds) |-> folds[f]])

Candidate(value, folds, of) ==
  LET score == Score(folds, of)
  IN  [value |-> value, objective |-> score,
       metrics |-> IF score = Rejected THEN 0 ELSE Latest(Scored(folds))]

(* The earliest of the best among some of those tried.                      *)
Elite(tried, S) ==
  CHOOSE i \in S : \A j \in S :
    \/ tried[j].objective < tried[i].objective
    \/ tried[j].objective = tried[i].objective /\ i <= j

(* The elite, and one child of the generator.                               *)
NextPopulation(pop, tried, child) == <<pop[Elite(tried, DOMAIN tried)], child>>

(* The best after a generation: of its candidates in their order a later    *)
(* one only when it scores more.                                            *)
Better(c, b) == c.objective # Rejected /\ (b = NoBest \/ c.objective > b.objective)
KeptBest(b, tried) ==
  LET more == {i \in DOMAIN tried : Better(tried[i], b)}
  IN  IF more = {} THEN b ELSE tried[Elite(tried, more)]

-----------------------------------------------------------------------------
(* The path without a pool: one window after the other, its generations one *)
(* after the other.                                                         *)
Tried(folds, pop) ==
  [i \in DOMAIN pop |-> Candidate(pop[i], folds[pop[i]], Len(folds[pop[i]]))]

Generated(folds, pop, b) == [pop |-> pop, best |-> KeptBest(b, Tried(folds, pop))]

Searched(folds, first, draws, n) ==
  LET After[g \in 1..n] ==
        IF g = 1 THEN Generated(folds, first, NoBest)
        ELSE Generated(folds, NextPopulation(After[g - 1].pop, Tried(folds, After[g - 1].pop), draws[g]),
                       After[g - 1].best)
  IN  After

Optimised(w) ==
  LET b == Searched(measured[w], First(w), drawn[w], LastGeneration)[LastGeneration].best
  IN  IF b = NoBest THEN OwnValues ELSE b

-----------------------------------------------------------------------------
(* The path with a pool.                                                    *)

(* The units of a generation: the folds of every candidate that is valid.   *)
Units ==
  {u \in trains \X (1..2) \X (1..MaxFolds) :
     /\ u[2] \in DOMAIN population[u[1]]
     /\ u[3] \in DOMAIN measured[u[1]][population[u[1]][u[2]]]}

(* What one batch may lose; the run as a whole loses at most MaxLost.       *)
Losses(units) ==
  UNION {kSubset(k, units) : k \in 0..(IF lost = {} THEN MaxLost ELSE 0)}

(* What came back of a candidate: a unit that was lost is a failed payload. *)
Payload(w, c, gone) ==
  [f \in DOMAIN measured[w][population[w][c]] |->
     IF <<w, c, f>> \in gone THEN NoScore ELSE measured[w][population[w][c]][f]]

Reply(w, c, gone) ==
  Candidate(population[w][c], Payload(w, c, gone), Len(measured[w][population[w][c]]))

Replies(w, gone) == [c \in DOMAIN population[w] |-> Reply(w, c, gone)]

(* Mutant: a later one that scores the same is preferred. *)
ReducedToLater(w, gone) ==
  LET tried == Replies(w, gone)
      more == {i \in DOMAIN tried : /\ tried[i].objective # Rejected
                                   /\ best[w] # NoBest => tried[i].objective >= best[w].objective}
  IN  IF more = {} THEN best[w]
      ELSE tried[Max({i \in more : \A j \in more : tried[j].objective <= tried[i].objective})]
Reduced(w, gone) == KeptBest(best[w], Replies(w, gone))

(* A generation: the batch, its reduction, and the next population.         *)
Generation ==
  /\ gen <= LastGeneration
  /\ \E gone \in Losses(Units) :
       /\ lost' = lost \cup {u[1] : u \in gone}
       /\ best' = [w \in Windows |-> IF w \in trains THEN Reduced(w, gone) ELSE best[w]]
       /\ population' =
            [w \in trains |->
               IF gen < LastGeneration
               THEN NextPopulation(population[w], Replies(w, gone), drawn[w][gen + 1])
               ELSE population[w]]
  /\ gen' = gen + 1
  /\ UNCHANGED <<measured, drawn, trains, tunable, entries>>

(* No candidate with a score leaves the strategy as it is.  The tests of    *)
(* all windows are one more batch: what was chosen and, if there was a      *)
(* choice, the strategy as it is.                                           *)
Fallback(w) == IF w \in trains /\ best[w] = NoBest THEN OwnValues ELSE best[w]

Tests ==
  /\ gen = LastGeneration + 1 /\ entries = <<>>
  /\ \E gone \in Losses(Windows \X {"chosen", "naive"}) :
       entries' = [w \in Windows |->
                   [best |-> Fallback(w), test |-> <<w, "chosen">> \notin gone,
                    naive |-> tunable /\ <<w, "naive">> \notin gone]]
  /\ UNCHANGED <<measured, drawn, trains, tunable, gen, population, best, lost>>

WalkNext == Generation \/ Tests
WalkSpec == WalkInit /\ [][WalkNext]_walkVars

-----------------------------------------------------------------------------
(* Properties.                                                              *)

(* A window that lost no unit is entered with the parameters, the objective *)
(* and the metrics the path without a pool finds, whatever the other        *)
(* windows of its batches lost: backtest_robustness._run_walk_forward_      *)
(* parallel.                                                                *)
SameWinner ==
  entries # <<>> => \A w \in trains \ lost : entries[w].best = Optimised(w)
=============================================================================
