--------------------------- MODULE WinnerNarrative ---------------------------
(***************************************************************************)
(* The story under a winner (web/routes/agent_backtest.py): polls of the   *)
(* result fragment find it in the progress dict or, one of them, ask the   *)
(* model for it.  narrative_inflight is meant as a flag, so that one call  *)
(* is made, and as a token, so that a call which outlives its round does   *)
(* not write under the winner of the next one.  Polls run on the event     *)
(* loop and await the call; rounds are the worker's thread.                *)
(***************************************************************************)
EXTENDS Naturals

CONSTANTS
  Polls,        \* bound: polls that reach the result fragment
  StoryRounds   \* bound: rounds of the run; one if it is not continuous

ASSUME StoryRoundsAssumption == StoryRounds \in Nat \ {0}

VARIABLES
  round,      \* of the run
  won,        \* done is set and the round has a winner
  narrative,  \* winner_narrative: the round it tells of, 0 for none
  flag,       \* narrative_inflight
  poll        \* pc, the round of the state it copied, what it will show

storyVars == <<round, won, narrative, flag, poll>>

StoryInit ==
  /\ round = 1 /\ won = FALSE /\ narrative = 0 /\ flag = FALSE
  /\ poll = [p \in Polls |-> [pc |-> "none", of |-> 0]]

Win ==
  /\ ~won /\ won' = TRUE
  /\ UNCHANGED <<round, narrative, flag, poll>>

(* The reset at the head of a round, also of one that follows a round       *)
(* without a winner.                                                        *)
NextRound ==
  /\ round < StoryRounds /\ round' = round + 1
  /\ won' = FALSE /\ narrative' = 0 /\ flag' = FALSE
  /\ UNCHANGED poll

(* The poll copies the state in one critical section, claims in a second.   *)
CopyState(p) ==
  /\ poll[p].pc = "none" /\ won
  /\ poll' = [poll EXCEPT ![p] = [pc |-> "copied", of |-> round]]
  /\ UNCHANGED <<round, won, narrative, flag>>

Mine == narrative = 0 /\ ~flag
Claim(p) ==
  /\ poll[p].pc = "copied"
  /\ flag' = (flag \/ Mine)
  /\ poll' = [poll EXCEPT ![p].pc = IF Mine THEN "calling" ELSE "shown"]
  /\ UNCHANGED <<round, won, narrative>>

(* The finally clause, after a call that returned a text or raised.         *)
Lower == FALSE
CallReturns(p) ==
  /\ poll[p].pc = "calling"
  /\ \E text \in BOOLEAN :
       narrative' = IF flag /\ text THEN poll[p].of ELSE narrative
  /\ flag' = Lower
  /\ poll' = [poll EXCEPT ![p].pc = "shown"]
  /\ UNCHANGED <<round, won>>

StoryNext ==
  \/ Win \/ NextRound
  \/ \E p \in Polls : CopyState(p) \/ Claim(p) \/ CallReturns(p)

StorySpec == StoryInit /\ [][StoryNext]_storyVars
-----------------------------------------------------------------------------
StoryTypeOK ==
  /\ round \in 1..StoryRounds /\ won \in BOOLEAN /\ flag \in BOOLEAN
  /\ narrative \in 0..StoryRounds
  /\ poll \in [Polls -> [pc : {"none", "copied", "calling", "shown"}, of : 0..StoryRounds]]

(* "to put somebody else's story under the new winner": what is stored      *)
(* tells of the round whose winner it is shown with.                        *)
StoryOfItsWinner == narrative \in {0, round}
=============================================================================
