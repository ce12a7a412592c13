--------------------------- MODULE RobustnessGate ---------------------------
(***************************************************************************)
(* What AutoRun takes as one answer per candidate and one of the gate: the *)
(* days a round keeps sealed, the suite of four tests a candidate goes     *)
(* through on the days that are left, the tally that judges it, the choice *)
(* among those that pass and the verdict on the sealed days.  A backtest   *)
(* is external: it gives figures, or none when it failed, was lost with    *)
(* its batch or had no bars.  A stage that fails in the pool is run again  *)
(* in this process, so only what it answers in the end appears here.       *)
(***************************************************************************)
EXTENDS Integers, Sequences, FiniteSets, FiniteSetsExt

CONSTANTS
  Missing,        \* a figure, or all of them, that could not be had
  Figures,        \* what a backtest may measure
  PeerFigures,    \* and one of a peer
  Ratios,         \* Sharpe ratios of a slice, in twentieths, or Missing
  WindowPairs,    \* of a walk-forward window: the spec's figures, the tuned ones
  MaxWindows,
  Simulated,      \* median and tail drawdown of the simulations, in percent
  Basket,         \* the peers that may be asked, in order
  StitchedOf,     \* the tickers a stitched series was made of
  Candidates,     \* instrument, kind of gate and days that a run may be about
  Scores,         \* of the ranked candidates of a round, best first
  Today,
  RiskAdjusted,   \* AGENT_BENCHMARK_GATE
  MinTrades, MinValidWindows, PeerSample, IsSharpeMin,
  MedianLimit, TailLimit, EnoughPassers,
  HoldoutDays, HoldoutPercent, EmbargoDays, MinBars, RankedTrades, HoldoutTrades

ASSUME MissingIsNoFigure == Missing \notin Figures \cup PeerFigures
ASSUME GateAssumption ==
  /\ \A c \in Candidates : c.days \in SUBSET Nat /\ IsFiniteSet(c.days) /\ c.days # {}
  /\ Ratios \subseteq [sharpe : Int \cup {Missing}, sortino : Int \cup {Missing}]
  /\ Scores \in Seq(Int) /\ IsFiniteSet(DOMAIN Basket)
  /\ {IsSharpeMin, HoldoutPercent, MaxWindows} \subseteq Nat
  /\ {HoldoutDays, EmbargoDays} \subseteq Nat /\ MinBars \in Nat \ {0}

VARIABLES
  candidateOf,  \* the instrument, whether the gate is strict, its days
  scan,         \* the candidate under test and the stage it is in
  report,       \* what the stages have said of it
  answers,      \* history: what their backtests gave, section by section
  passers, judged, looked, promotion

gateVars == <<candidateOf, scan, report, answers, passers, judged, looked, promotion>>

Positive(x) == x # Missing /\ x > 0
LastDay(days) == Max(days)
-----------------------------------------------------------------------------
(* _split_holdout: the last days are sealed, an embargo before them is left *)
(* out; with too little left before it, nothing is sealed.                  *)
HoldoutWindow(days) == Max({HoldoutDays, ((LastDay(days) - Min(days)) * HoldoutPercent) \div 100})
Trimmed(days) == {d \in days : d < LastDay(days) - HoldoutWindow(days) - EmbargoDays}
Seals(days) == Cardinality(Trimmed(days)) >= MinBars
Training(days) == IF Seals(days) THEN Trimmed(days) ELSE days
Sealed(days) == IF Seals(days) THEN {d \in days : d >= LastDay(days) - HoldoutWindow(days)} ELSE {}

(* holdout_min_trades: the ranking's trades, in proportion. *)
HoldoutMinTrades(days) ==
  LET train  == Cardinality(Training(days))
      scaled == (2 * RankedTrades * Cardinality(Sealed(days)) + train) \div (2 * train)
  IN  Max({MinTrades, Min({HoldoutTrades, scaled})})

(* benchmark_rejection: a candidate that is compared by its return for its  *)
(* drawdown must be profitable and beat holding in that; one that cannot be *)
(* must beat it in the year; one without a yearly figure, over the period.  *)
BenchmarkRejection(m) ==
  LET byRisk == m.calmar # Missing /\ m.hold # Missing
  IN  IF m.alpha = Missing
      THEN IF m.excess = Missing THEN "no_benchmark" ELSE IF m.excess <= 0 THEN "below_benchmark" ELSE "none"
      ELSE IF RiskAdjusted /\ byRisk /\ m.cagr # Missing /\ m.cagr <= 0 THEN "not_profitable"
      ELSE IF ~(RiskAdjusted /\ byRisk /\ m.cagr # Missing) /\ m.alpha <= 0 THEN "negative_alpha"
      ELSE IF byRisk /\ m.calmar <= m.hold THEN "worse_risk_adjusted" ELSE "none"

Superior(m) == BenchmarkRejection(m) = "none"
-----------------------------------------------------------------------------
(* peer_exclusions: not itself, not what it was stitched of, not what is    *)
(* stitched of it.                                                          *)
Excluded(me) == {me} \cup StitchedOf[me] \cup {t \in DOMAIN StitchedOf : me \in StitchedOf[t]}

Peers(me) ==
  LET eligible == {i \in DOMAIN Basket : Basket[i] \notin Excluded(me)}
  IN  {Basket[i] : i \in {k \in eligible : Cardinality({j \in eligible : j < k}) < PeerSample}}

(* peer_exclusion_reason.  Mutant: a peer without a comparison is counted.  *)
CountsUncompared(m) == m # Missing /\ m.trades >= MinTrades
Counts(m) == m # Missing /\ m.trades >= MinTrades /\ m.excess # Missing

(* The days a peer is asked about end where the candidate's own do.         *)
(* Mutant: they end today.                                                  *)
PeerEndToday == Today
PeerEnd == LastDay(Training(candidateOf.days))

(* run_multi_symbol: the share of the peers that count on which the         *)
(* strategy is superior, in percent, and its label.                         *)
PeerReport(rows) ==
  LET valid == {p \in DOMAIN rows : Counts(rows[p])}
      n     == Cardinality(valid)
      won   == Cardinality({p \in valid : Superior(rows[p])})
  IN  [rate |-> IF n = 0 THEN 0 ELSE (200 * won + n) \div (2 * n),
       label |-> IF n = 0 THEN "insufficient"
                 ELSE IF 10 * won >= 7 * n THEN "generalizable"
                 ELSE IF 10 * won >= 4 * n THEN "limited" ELSE "symbol specific"]

(* run_insample_oos_split, of the Sharpe ratios, or where one is missing of *)
(* the Sortino ratios, of the two slices; the score in hundredths.          *)
SplitScore(is, oos) == (200 * oos + is) \div (2 * is)

SplitOf(is, oos) ==
  IF is = Missing \/ oos = Missing THEN "unmeasured"
  ELSE IF is <= 0 THEN "no edge"
  ELSE IF is < IsSharpeMin THEN "unmeasured"
  ELSE IF SplitScore(is, oos) >= 50 THEN "robust"
  ELSE IF SplitScore(is, oos) >= 25 THEN "caution" ELSE "overfitting"

SplitLabel(is, oos) ==
  IF is.sharpe = Missing \/ oos.sharpe = Missing
  THEN SplitOf(is.sortino, oos.sortino) ELSE SplitOf(is.sharpe, oos.sharpe)

(* wfo_test: a window is judged by the spec that would be saved, by the     *)
(* parameters tuned in it only when that gave nothing.                      *)
WfoTest(w) == IF w.naive # Missing THEN w.naive ELSE w.tuned
ValidWindows(ws) ==
  {i \in DOMAIN ws : WfoTest(ws[i]) # Missing /\ WfoTest(ws[i]).trades >= MinTrades}

(* Mean less half a deviation, of n ratios with sum s and squares q, is not *)
(* above zero.  Of less than two it is not taken.                           *)
PenalizedAway(n, s, q) == n >= 2 /\ (s <= 0 \/ 4 * s * s <= n * q - s * s)

WindowsPenalized(ws) ==
  LET sharpe(i) == WfoTest(ws[i]).sharpe
      with == {i \in ValidWindows(ws) : sharpe(i) # Missing}
  IN  PenalizedAway(Cardinality(with), MapThenSumSet(sharpe, with),
                    MapThenSumSet(LAMBDA i : sharpe(i) * sharpe(i), with))

(* wfo_verdict.  How negative the pooled alpha of too few windows is only   *)
(* changes what is said.                                                    *)
WfoVerdict(ws) ==
  LET valid == ValidWindows(ws)
      said(i) == BenchmarkRejection(WfoTest(ws[i]))
      beat  == Cardinality({i \in valid : said(i) = "none"})
  IN  IF valid = {} THEN "unmeasured"
      ELSE IF \E i \in valid : said(i) = "no_benchmark" THEN "failed"
      ELSE IF Cardinality(valid) < MinValidWindows THEN "failed"
      ELSE IF 2 * beat < Cardinality(valid) \/ WindowsPenalized(ws) THEN "failed" ELSE "passed"
-----------------------------------------------------------------------------
(* _robustness_tally: a section is skipped, evaluated, or evaluated and     *)
(* failed.  Mutants: an in-sample slice that could not be measured counts   *)
(* as evaluated; so does a label of too few peers; the strict gate lets a   *)
(* missing tail pass.                                                       *)
SplitEvaluatedAlways(r) == r.split # "skipped"
SplitEvaluated(r) == r.split \notin {"skipped", "unmeasured"}
SplitFailed(r) == r.split \in {"no edge", "overfitting"}

PeersEvaluatedAlways(r) == TRUE
PeersEvaluated(r) == r.peers # "insufficient"

TailFailsIfKnown(r) == r.sims.tail # Missing /\ r.sims.tail < TailLimit
TailFails(r) == r.sims.tail = Missing \/ r.sims.tail < TailLimit
SimsFailed(r) ==
  \/ r.sims.median # Missing /\ r.sims.median < MedianLimit
  \/ candidateOf.strict /\ TailFails(r)

Required == IF candidateOf.strict THEN 3 ELSE 2

Tally(r) ==
  LET evaluated == {s \in {"split", "walk", "peers", "sims"} :
                      CASE s = "split" -> SplitEvaluated(r)
                        [] s = "walk"  -> r.walk \notin {"skipped", "unmeasured"}
                        [] s = "peers" -> PeersEvaluated(r)
                        [] s = "sims"  -> r.sims # Missing}
      failed == {s \in evaluated :
                   CASE s = "split" -> SplitFailed(r)
                     [] s = "walk"  -> r.walk = "failed"
                     [] s = "peers" -> r.peers = "symbol specific"
                     [] s = "sims"  -> SimsFailed(r)}
  IN  failed = {} /\ Cardinality(evaluated) >= Required

(* _ms_score_factor and the effective score, both in ten-thousandths.       *)
(* Mutant: too few peers weigh like a rate of zero.                         *)
FactorOfRate(r) == 1500 + 85 * r.rate
MsScoreFactor(r) == IF r.peers = "insufficient" THEN 5750 ELSE 1500 + 85 * r.rate
Effective(raw, factor) == 10000 * raw - (10000 - factor) * (IF raw < 0 THEN -raw ELSE raw)
-----------------------------------------------------------------------------
NoReport == [peers |-> "insufficient", rate |-> 0, split |-> "skipped",
             walk |-> "skipped", sims |-> Missing]
Unasked == [s \in {"peers", "split", "walk", "sims"} |-> "unasked"]

GateInit ==
  /\ candidateOf \in Candidates
  /\ scan = [at |-> "scan", rank |-> 1]
  /\ report = NoReport /\ answers = Unasked
  /\ passers = <<>> /\ judged = {} /\ looked = 0 /\ promotion = "none"

At(stage) == scan.at = stage
GoTo(stage) == scan' = [scan EXCEPT !.at = stage]
Looks(day) == looked' = Max({looked, day})
Said(section, what) == answers' = [answers EXCEPT ![section] = what]
NextCandidate == scan' = [at |-> "scan", rank |-> scan.rank + 1]

(* The head of the loop over the ranked candidates.  One whose proposal was *)
(* degraded is not tested.                                                  *)
Begin ==
  /\ At("scan") /\ scan.rank <= Len(Scores) /\ Len(passers) < EnoughPassers
  /\ GoTo("peers") /\ report' = NoReport /\ answers' = Unasked /\ judged' = {}
  /\ UNCHANGED <<candidateOf, passers, looked, promotion>>

SkipDegraded ==
  /\ At("scan") /\ scan.rank <= Len(Scores) /\ Len(passers) < EnoughPassers
  /\ NextCandidate
  /\ UNCHANGED <<candidateOf, report, answers, passers, judged, looked, promotion>>

(* What the peers' backtests say, whatever is made of it.                   *)
PeersSay(rows) ==
  LET told == {p \in DOMAIN rows : rows[p] # Missing /\ rows[p].trades >= MinTrades /\ rows[p].excess # Missing}
      lost == {p \in told : ~Superior(rows[p])}
  IN  IF told = {} THEN "silent" ELSE IF 5 * Cardinality(lost) > 3 * Cardinality(told) THEN "against" ELSE "for"

PeerTests ==
  [me \in {c.me : c \in Candidates} |->
     {[report |-> PeerReport(rows), say |-> PeersSay(rows)] : rows \in [Peers(me) -> PeerFigures \cup {Missing}]}]

TestPeers ==
  /\ At("peers")
  /\ \E t \in PeerTests[candidateOf.me] :
       /\ report' = [report EXCEPT !.peers = t.report.label, !.rate = t.report.rate]
       /\ Said("peers", t.say)
  /\ Looks(PeerEnd)
  /\ GoTo(IF report'.peers = "symbol specific" THEN "judge" ELSE "family")
  /\ UNCHANGED <<candidateOf, passers, judged, promotion>>

(* family_median_expectation: siblings of the same blocks are run on the    *)
(* same days; their median is shown and decides nothing.                    *)
FamilyMedian ==
  /\ At("family")
  /\ Looks(LastDay(Training(candidateOf.days))) /\ GoTo("split")
  /\ UNCHANGED <<candidateOf, report, answers, passers, judged, promotion>>

(* Of two slices measured by the same ratio: no edge in the sample, or less *)
(* than a quarter of it outside, is against.                                *)
SlicesSay(is, oos) ==
  LET by == IF is.sharpe # Missing /\ oos.sharpe # Missing THEN "sharpe" ELSE "sortino"
  IN  IF Missing \in {is[by], oos[by]} \/ is[by] \in 1..IsSharpeMin - 1 THEN "silent"
      ELSE IF is[by] <= 0 \/ 200 * oos[by] < 49 * is[by] THEN "against" ELSE "for"

SplitTests == {[label |-> SplitLabel(is, oos), say |-> SlicesSay(is, oos)] : is, oos \in Ratios}

TestSlices ==
  /\ At("split")
  /\ \E t \in SplitTests : report' = [report EXCEPT !.split = t.label] /\ Said("split", t.say)
  /\ Looks(LastDay(Training(candidateOf.days)))
  /\ GoTo(IF SplitFailed(report') THEN "judge" ELSE "walk")
  /\ UNCHANGED <<candidateOf, passers, judged, promotion>>

WindowsSay(ws) ==
  LET told == {i \in DOMAIN ws : WfoTest(ws[i]) # Missing /\ WfoTest(ws[i]).trades >= MinTrades}
      lost == {i \in told : ~Superior(WfoTest(ws[i]))}
      dark == {i \in told : WfoTest(ws[i]).alpha = Missing /\ WfoTest(ws[i]).excess = Missing}
  IN  IF told = {} THEN "silent"
      ELSE IF \/ Cardinality(told) < MinValidWindows \/ dark # {}
              \/ 2 * Cardinality(lost) > Cardinality(told) \/ WindowsPenalized(ws)
      THEN "against" ELSE "for"

WalkTests ==
  {[verdict |-> WfoVerdict(ws), say |-> WindowsSay(ws)] : ws \in UNION {[1..n -> WindowPairs] : n \in 0..MaxWindows}}

WalkForwardTest ==
  /\ At("walk")
  /\ \E t \in WalkTests : report' = [report EXCEPT !.walk = t.verdict] /\ Said("walk", t.say)
  /\ Looks(LastDay(Training(candidateOf.days))) /\ GoTo("sims")
  /\ UNCHANGED <<candidateOf, passers, judged, promotion>>

(* run_monte_carlo over the candidate's trades, if it has any.              *)
SimsSay(sims) ==
  IF sims = Missing THEN "silent"
  ELSE IF \/ sims.median # Missing /\ sims.median < MedianLimit
          \/ candidateOf.strict /\ (sims.tail = Missing \/ sims.tail < TailLimit)
  THEN "against" ELSE "for"

MonteCarlo ==
  /\ At("sims")
  /\ \E sims \in Simulated \cup {Missing} :
       report' = [report EXCEPT !.sims = sims] /\ Said("sims", SimsSay(sims))
  /\ GoTo("judge")
  /\ UNCHANGED <<candidateOf, passers, judged, looked, promotion>>

(* The suite runs out of its time, its process dies, or a stage raises.     *)
SuiteFails ==
  /\ scan.at \in {"peers", "family", "split", "walk", "sims"} /\ NextCandidate
  /\ report' = NoReport /\ answers' = Unasked
  /\ UNCHANGED <<candidateOf, passers, judged, looked, promotion>>

Judge ==
  /\ At("judge") /\ NextCandidate
  /\ judged' = {[passed |-> Tally(report), heard |-> answers]}
  /\ passers' = IF ~Tally(report) THEN passers
                ELSE Append(passers, [raw |-> Scores[scan.rank], rate |-> report.rate,
                       known |-> report.peers # "insufficient",
                       effective |-> Effective(Scores[scan.rank], MsScoreFactor(report))])
  /\ report' = NoReport /\ answers' = Unasked
  /\ UNCHANGED <<candidateOf, looked, promotion>>

(* The loop ends: all tested, enough passed, or a stop was asked for.       *)
EndScan ==
  /\ At("scan") /\ scan' = [at |-> "pick", rank |-> 0] /\ report' = NoReport /\ answers' = Unasked
  /\ judged' = {}
  /\ UNCHANGED <<candidateOf, passers, looked, promotion>>

(* max over the effective scores, the first among equals.  Mutant: the raw. *)
BestRaw(i) == \A j \in DOMAIN passers : passers[j].raw <= passers[i].raw
Best(i) == \A j \in DOMAIN passers : passers[j].effective <= passers[i].effective
Pick ==
  /\ At("pick") /\ passers # <<>>
  /\ scan' = [at |-> "promote", rank |-> Min({i \in DOMAIN passers : Best(i)})]
  /\ UNCHANGED <<candidateOf, report, answers, passers, judged, looked, promotion>>

(* _holdout_promotion_verdict: figures of the sealed days; the comparison   *)
(* with holding is that of the whole run over them, its lead-in included.   *)
HoldoutVerdict(sealed, whole) ==
  /\ sealed.trades >= HoldoutMinTrades(candidateOf.days)
  /\ sealed.pnl > 0 /\ Positive(sealed.sharpe) /\ Superior(whole)

Promote ==
  /\ At("promote") /\ GoTo("over")
  /\ IF Sealed(candidateOf.days) = {} THEN promotion' = "unavailable"
     ELSE \/ promotion' = "error"
          \/ \E sealed, whole \in Figures :
               promotion' = IF HoldoutVerdict(sealed, whole) THEN "passed" ELSE "refused"
  /\ UNCHANGED <<candidateOf, report, answers, passers, judged, looked>>

GateNext ==
  \/ Begin \/ SkipDegraded \/ TestPeers \/ FamilyMedian \/ TestSlices \/ WalkForwardTest
  \/ MonteCarlo \/ SuiteFails \/ Judge \/ EndScan \/ Pick \/ Promote

GateSpec == GateInit /\ [][GateNext]_gateVars
-----------------------------------------------------------------------------
Heard(e, what) == {s \in DOMAIN e.heard : e.heard[s] = what}

(* A candidate passes just when no section that could be measured is        *)
(* against it and enough of them could: what is missing neither passes nor  *)
(* fails, and the suite ends early only on evidence against the candidate   *)
(* (run_full_robustness, _robustness_tally).                                *)
GateIsSound ==
  \A e \in judged :
    /\ e.passed <=> Heard(e, "against") = {} /\ Cardinality(Heard(e, "for")) >= Required
    /\ Heard(e, "unasked") # {} => Heard(e, "against") # {}

(* Among candidates of the same score, other than zero, the one that does   *)
(* better on its peers wins, and one whose peers are unknown neither beats  *)
(* one that won on most of them nor loses to one that won on fewer          *)
(* (_ms_score_factor).                                                      *)
EvidenceDecides ==
  At("promote") =>
    \A j \in DOMAIN passers :
      LET won == passers[scan.rank]
          share(p) == IF p.known THEN p.rate ELSE 50
      IN  won.raw = passers[j].raw /\ won.raw # 0 => share(won) >= share(passers[j])

(* What is published was judged on days that nothing which chose it has     *)
(* seen: neither the candidate's own tests nor its peers' reach into them,  *)
(* or into the embargo before (_split_holdout, run_multi_symbol's anchor).  *)
SealIsKept ==
  promotion = "passed" => \A d \in Sealed(candidateOf.days) : looked + EmbargoDays < d

SelectionIsSound == GateIsSound /\ EvidenceDecides /\ SealIsKept
=============================================================================
