------------------------------- MODULE MCDesk -------------------------------
(***************************************************************************)
(* Instances of the components checked for safety alone.  They share no    *)
(* state: a behaviour runs one of them, part says which, and the others    *)
(* stay at one of the states they may start in.                            *)
(***************************************************************************)
EXTENDS StudioJobs, LlmCall, BarCache, ExternalBars, EquityIngest, StrategySweep

VARIABLE part

DeskInit ==
  /\ part \in {"studio", "llm", "bars", "readers", "scripts", "sweep"}
  /\ part # "llm" => client = "api"
  /\ part # "bars" => missing = {}
  /\ part # "readers" => serving = "series"
  /\ StudioInit /\ LlmInit /\ BarInit /\ ExternalInit /\ IngestInit /\ SweepInit
  /\ part # "sweep" =>
       strategy = (CHOOSE d \in Definitions : TRUE) /\ engine = "stub" /\ split = (CHOOSE s \in Splits : TRUE)
  /\ part # "scripts" => bars = [tk \in Symbols |-> NoSeries]

DeskNext ==
  /\ UNCHANGED part
  /\ \/ part = "studio" /\ StudioNext /\ UNCHANGED <<llmVars, barVars, externalVars, ingestVars, sweepVars>>
     \/ part = "llm" /\ LlmNext /\ UNCHANGED <<studioVars, barVars, externalVars, ingestVars, sweepVars>>
     \/ part = "bars" /\ BarNext /\ UNCHANGED <<studioVars, llmVars, externalVars, ingestVars, sweepVars>>
     \/ part = "readers" /\ ExternalNext /\ UNCHANGED <<studioVars, llmVars, barVars, ingestVars, sweepVars>>
     \/ part = "scripts" /\ IngestNext /\ UNCHANGED <<studioVars, llmVars, barVars, externalVars, sweepVars>>
     \/ part = "sweep" /\ SweepNext /\ UNCHANGED <<studioVars, llmVars, barVars, externalVars, ingestVars>>

deskVars == <<part, studioVars, llmVars, barVars, externalVars, ingestVars, sweepVars>>
DeskSpec == DeskInit /\ [][DeskNext]_deskVars

-----------------------------------------------------------------------------
(* A file that may begin with either end, with and without a bar nobody has.*)
BothEnds == {<<0, 4>>, <<4, 5>>}
OneOutage == {{}, {1}}

(* Two tickers over three days of two years: minutes before, at either end *)
(* of and across the session, a day the second has and the first has not.  *)
TwoTickers == {"a", "b"}
OneAfterAnother == <<"a", "b">>
ThreeDays == [a |-> <<{1, 2, 3, 4}, {2}, {1}>>, b |-> <<{3, 4}, {1}, {2, 3}>>]

(* Two rules to enter on, the first of them marked, and one to leave on; a  *)
(* regime that trades or stays out.                                         *)
EntryRule(marked) ==
  [block |-> "entry", filter |-> FALSE, indicator |-> "rsi", value |-> 2, marked |-> marked]
Plain ==
  [rules |-> <<EntryRule(<<1, 2>>), EntryRule(<<>>), [EntryRule(<<>>) EXCEPT !.block = "exit"]>>,
   match |-> "any", regime |-> "none", branch |-> FALSE, risk |-> [value |-> 1, marked |-> <<>>],
   active |-> {"btc"}, ranked |-> FALSE, topN |-> 2]
Branched ==
  [Plain EXCEPT !.rules = Append(Tail(@), [EntryRule(<<1, 2>>) EXCEPT !.block = "regime"]), !.regime = "flat"]
TwoDrafts == {Plain, Branched}
AnyPlace ==
  {<<"entry", FALSE, "ema">>, <<"entry", TRUE, "rsi">>, <<"exit", FALSE, "rsi">>,
   <<"exit", TRUE, "rsi">>, <<"regime", TRUE, "rsi">>, <<"sub_entry", FALSE, "rsi">>}
PastTheBound == {<<2, 3>>}
TwoSplits == {[inSample |-> 2, outSample |-> 1, folds |-> 3, embargo |-> 1],
              [inSample |-> 0, outSample |-> 1, folds |-> 2, embargo |-> 0]}
UnevenFolds == {<<>>, <<1>>, <<1, 1>>, <<0, 2>>}
=============================================================================
