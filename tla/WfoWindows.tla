----------------------------- MODULE WfoWindows -----------------------------
(***************************************************************************)
(* The windows of a walk-forward run: how long they are, from the pace the *)
(* candidate traded at (auto.robustness.wfo_window_months) or from the     *)
(* form of a suite, and where they lie in the calendar                     *)
(* (backtest_robustness._wfo_window_bounds).  A date is a month, counted   *)
(* from January of a leap year, and a day of it.  Adding months keeps the  *)
(* day unless the month is too short for it; the cursor and the end of a   *)
(* test are moved so, each from its own day.                               *)
(***************************************************************************)
EXTENDS Integers, Sequences

CONSTANTS
  Starts,       \* dates of the first bar
  Spans,        \* days from the first bar to the last
  Paces,        \* months a test would take at the candidate's pace
  Forms,        \* months <<train, test>> a suite's form may ask for
  MinWindows    \* WFO_MIN_WINDOWS
VARIABLES
  start, span,   \* the bars
  plan,          \* months of train, test and step, and where they come from
  cursor,        \* where the next window starts
  windows,       \* the bounds so far
  complete       \* the next test would not fit

windowsVars == <<start, span, plan, cursor, windows, complete>>

-----------------------------------------------------------------------------
(* The calendar.                                                            *)
MonthLength(m) ==
  IF m % 48 = 1 THEN 29 ELSE <<31, 28, 31, 30, 31, 30, 31, 31, 30, 31, 30, 31>>[(m % 12) + 1]

ASSUME WindowsAssumption ==
  /\ Starts \subseteq {s \in [month : Nat, day : 1..31] : s.day <= MonthLength(s.month)}
  /\ Spans \subseteq Nat /\ Paces \subseteq Nat /\ MinWindows \in Nat
  /\ Forms \subseteq Int \X Int

(* Days from the calendar's first day.                                      *)
Day(date) ==
  LET year == date.month \div 12
      leapDay == IF date.month % 48 > 1 /\ date.month % 48 < 12 THEN 1 ELSE 0
  IN  365 * year + (year + 3) \div 4 + leapDay + date.day - 1
      + <<0, 31, 59, 90, 120, 151, 181, 212, 243, 273, 304, 334>>[(date.month % 12) + 1]

Lesser(a, b) == IF a < b THEN a ELSE b
AddMonths(date, n) ==
  [month |-> date.month + n, day |-> Lesser(date.day, MonthLength(date.month + n))]
AddDays(date, n) ==
  IF date.day + n <= MonthLength(date.month) THEN [date EXCEPT !.day = @ + n]
  ELSE [month |-> date.month + 1, day |-> date.day + n - MonthLength(date.month)]

Embargo == 2

-----------------------------------------------------------------------------
(* How long.  A test takes two months, a train six and a step three, unless *)
(* the candidate trades too seldom: then they grow in the same proportion,  *)
(* by less when too few windows would be left.                              *)
BaseTest == 2
TrainOf(test) == 3 * test
StepOf(test) ==   \* half as much again, a half rounded to even
  LET down == (3 * test) \div 2 IN IF (3 * test) % 2 = 0 \/ down % 2 = 0 THEN down ELSE down + 1

(* The number of windows, at 30.44 days a month and without the embargo.    *)
(* Mutant: the first window's train is not counted. *)
WindowsForNext(test) == (100 * span - 3044 * test) \div (3044 * StepOf(test)) + 1
WindowsFor(test) ==
  (100 * span - 3044 * (TrainOf(test) + test)) \div (3044 * StepOf(test)) + 1

LongestTest(want) ==
  LET Enough == {t \in BaseTest..want : t = BaseTest \/ WindowsFor(t) >= MinWindows}
  IN  CHOOSE t \in Enough : \A u \in Enough : u <= t

Widened(want) ==
  LET test == IF want <= BaseTest THEN BaseTest ELSE LongestTest(want)
  IN  [by |-> "pace", train |-> TrainOf(test), test |-> test, step |-> StepOf(test)]

Asked(form) == [by |-> "form", train |-> form[1], test |-> form[2], step |-> form[2]]

WindowsInit ==
  /\ start \in Starts /\ span \in Spans
  /\ plan \in {Widened(want) : want \in Paces} \cup {Asked(form) : form \in Forms}
  /\ cursor = start /\ windows = <<>> /\ complete = FALSE

-----------------------------------------------------------------------------
(* Where.                                                                   *)
(* Mutant: the embargo is taken from the test. *)
BoundsFromTrainEnd(from) ==
  LET trainEnd == AddMonths(from, plan.train)
  IN  [trainEnd |-> trainEnd, testStart |-> AddDays(trainEnd, Embargo), testEnd |-> AddMonths(trainEnd, plan.test)]
Bounds(from) ==
  LET trainEnd == AddMonths(from, plan.train)
      testStart == AddDays(trainEnd, Embargo)
  IN  [trainEnd |-> trainEnd, testStart |-> testStart, testEnd |-> AddMonths(testStart, plan.test)]

Moves(date) == AddMonths(date, plan.step)

NextWindow ==
  /\ ~complete /\ plan.step > 0 /\ plan.train > 0 /\ plan.test > 0
  /\ IF Day(Bounds(cursor).testEnd) > Day(start) + span
     THEN complete' = TRUE /\ UNCHANGED <<cursor, windows>>
     ELSE /\ windows' = Append(windows, Bounds(cursor))
          /\ cursor' = Moves(cursor)
          /\ UNCHANGED complete
  /\ UNCHANGED <<start, span, plan>>

WindowsNext == NextWindow
WindowsSpec == WindowsInit /\ [][WindowsNext]_windowsVars

-----------------------------------------------------------------------------
(* Properties.                                                              *)

(* Days at the end of window i's test that are also at the start of the     *)
(* next one's.                                                              *)
Shared(i) == Day(windows[i].testEnd) - Day(windows[i + 1].testStart)

(* A bar is out of sample in one window only, but for the three days by     *)
(* which a short month may pull the next test back; and windows that step   *)
(* by their test leave no more than two days between them unjudged:       *)
(* backtest_robustness._wfo_window_bounds.                                  *)
TestDaysCountOnce ==
  \A i \in 1..Len(windows) - 1 :
    /\ Shared(i) <= 3
    /\ plan.step = plan.test => Shared(i) >= -2

(* Longer tests never cost more windows than they were allowed to: at least *)
(* WFO_MIN_WINDOWS are left, or one less when the embargo and the lengths   *)
(* of real months push the last one out: auto.robustness.wfo_window_months. *)
WideningKeepsWindows ==
  complete /\ plan.by = "pace" /\ plan.test > BaseTest => Len(windows) >= MinWindows - 1

(* The windows of a run judge what they should: each bar once, and in as     *)
(* many windows as were promised.                                            *)
WindowsAreWhole == TestDaysCountOnce /\ WideningKeepsWindows
=============================================================================
