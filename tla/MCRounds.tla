------------------------------ MODULE MCRounds ------------------------------
(***************************************************************************)
(* The runs of AutoRun and the computations their rounds make, the latter  *)
(* modelled in full where AutoRun takes any outcome.  A behaviour runs one *)
(* of them, part says which, and the others stay at one of the states they *)
(* may start in.  The runs of which promotions can come contend with each  *)
(* other; the research-only ones have behaviours of their own.             *)
(***************************************************************************)
EXTENDS MCAutoRun, ComposedStrategy, WalkForward, WfoWindows, RobustnessGate, CandidateSearch

VARIABLE part

RoundsInit ==
  /\ part \in {"runs", "research", "strategy", "walk", "windows", "gate", "search"}
  /\ part # "strategy" => spec = [bracket |-> FALSE, target |-> FALSE, limit |-> FALSE, delay |-> FALSE]
  /\ part # "walk" => trains = {} /\ tunable = FALSE
  /\ part # "windows" =>
       /\ start \in {s \in Starts : s.month = 0 /\ s.day = 1}
       /\ span = 1000 /\ plan = Asked(<<6, 1>>)
  /\ part # "gate" => candidateOf = CHOOSE c \in Candidates : TRUE
  /\ Init /\ StrategyInit /\ WalkInit /\ WindowsInit /\ GateInit /\ SearchInit
  /\ part # "search" => turn.of = 2

OnlyOf(S) == \A r \in Runs \ S : wk'[r].pc = "idle"

RoundsNext ==
  /\ UNCHANGED part
  /\ \/ /\ part \in {"runs", "research"} /\ Next
        /\ OnlyOf(IF part = "research" THEN ResearchOnly ELSE Runs \ ResearchOnly)
        /\ UNCHANGED <<strategyVars, walkVars, windowsVars, gateVars, searchVars>>
     \/ part = "strategy" /\ StrategyNext /\ UNCHANGED <<vars, walkVars, windowsVars, gateVars, searchVars>>
     \/ part = "walk" /\ WalkNext /\ UNCHANGED <<vars, strategyVars, windowsVars, gateVars, searchVars>>
     \/ part = "windows" /\ WindowsNext /\ UNCHANGED <<vars, strategyVars, walkVars, gateVars, searchVars>>
     \/ part = "gate" /\ GateNext /\ UNCHANGED <<vars, strategyVars, walkVars, windowsVars, searchVars>>
     \/ part = "search" /\ SearchNext /\ UNCHANGED <<vars, strategyVars, walkVars, windowsVars, gateVars>>

roundsVars == <<part, vars, strategyVars, walkVars, windowsVars, gateVars, searchVars>>
RoundsSpec == RoundsInit /\ [][RoundsNext]_roundsVars

-----------------------------------------------------------------------------
(* Windows of 1 to 8 months of test from days on either side of where a    *)
(* short month changes them, over years that end just before and well      *)
(* after a window does; candidates that are refused, thin, even and good.  *)
EdgeDays ==
  [month : {0, 1, 6, 12}, day : {1, 15, 27, 28, 29}] \cup [month : {0, 6, 12}, day : {30, 31}]
EdgeSpans == {330, 700, 1000, 1218, 1250, 1500, 1766, 2000, 2314, 2649, 3500}
FormMonths == {<<6, 1>>, <<6, 2>>, <<12, 3>>}
ThreeFolds == {<<>>, <<1, 1, 2>>, <<0, 1, 1>>, <<0, 2, 2>>}

(* Figures on either side of each rule: superior, worse for its risk, at a  *)
(* loss, without a comparison, of too few trades, behind over the year,     *)
(* ahead over the period only, and behind in a year but at less risk.       *)

Fig(trades, excess, alpha, cagr, calmar, hold, sharpe) ==
  [trades |-> trades, pnl |-> cagr, excess |-> excess, alpha |-> alpha, cagr |-> cagr,
   calmar |-> calmar, hold |-> hold, sharpe |-> sharpe]
EveryFigure ==
  {Fig(5, 1, 1, 1, 2, 1, 8), Fig(5, 1, 1, 1, 1, 2, 2), Fig(5, -1, 1, -1, 2, 1, -4),
   Fig(5, Missing, Missing, 1, Missing, Missing, 4), Fig(2, 1, 1, 1, 2, 1, 8),
   Fig(5, 1, Missing, 1, Missing, Missing, Missing),
   Fig(5, 1, -1, -1, Missing, 1, Missing), Fig(5, -1, -1, 1, 2, 1, 1)}
EveryRatio ==
  {[sharpe |-> a, sortino |-> a] : a \in {-8, 0, 1, 8, 3, 5}}
    \cup {[sharpe |-> Missing, sortino |-> a] : a \in {Missing, 4, 8}}
EveryPair ==
  {[naive |-> n, tuned |-> Missing] : n \in EveryFigure}
    \cup {[naive |-> Missing, tuned |-> t] : t \in {Missing, Fig(5, 1, 1, 1, 1, 2, 2)}}
EverySim == {[median |-> -60, tail |-> -20], [median |-> -10, tail |-> -20], [median |-> -10, tail |-> -90], [median |-> -10, tail |-> Missing]}
SixPeers == <<"spy", "qqq", "iwm", "aapl", "gld", "tlt">>
PeerOutcomes ==
  {Fig(5, 1, 1, 1, 2, 1, 8), Fig(5, -1, 1, -1, 2, 1, -4), Fig(5, Missing, Missing, 1, Missing, Missing, 4)}
Stitches == [t \in {"spy", "qqq", "iwm", "aapl", "gld", "tlt", "qqqc"} |-> IF t = "qqqc" THEN {"qqq", "qqqq"} ELSE {}]
MedianFloor == -40
TailFloor == -70
RankedScores == <<2, 2, -1>>
EveryCandidate ==
  {[me |-> "qqqc", strict |-> TRUE, days |-> 1..14], [me |-> "iwm", strict |-> FALSE, days |-> 1..14],
   [me |-> "qqq", strict |-> TRUE, days |-> {1, 2, 3, 4}], [me |-> "spy", strict |-> FALSE, days |-> {1, 2, 3} \cup 9..16]}

(* One block that may open or close a position and one that only closes it; *)
(* two choices of parameters, so that a family is more than one strategy.   *)
(* Two rounds of two backtests, or one of three and the proposal after it.  *)
Library == {<<"momentum">>, <<"atr_stop">>}
Stops == {<<"atr_stop">>}
TwiceOrOnce == [n \in {2, 3} |-> IF n = 2 THEN 4 ELSE 3]
=============================================================================
