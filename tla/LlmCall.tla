------------------------------ MODULE LlmCall ------------------------------
(***************************************************************************)
(* One LLM call of a run's worker (llm_dispatch._create_message) from its  *)
(* first look at the stop flag to its answer: admission under the run's    *)
(* ceilings, the provider's process or request, accounting, the retry of a *)
(* truncated answer, the fallback when the model's credit is exhausted and *)
(* the waiting out of a rate limit.  Workers of other runs call at the     *)
(* same time and share what was learned about the models.  A stop, the end *)
(* of the run's hours and a deadline are events that may come at any step. *)
(***************************************************************************)
EXTENDS Naturals, FiniteSets
LOCAL INSTANCE FiniteSetsExt

CONSTANTS
  Callers,        \* runs, each with one worker
  TokenCap,       \* max_total_tokens
  CostCap,        \* max_total_cost_usd, at one unit per token
  PromptBytes,    \* bound of a prompt's tokens
  PromptTokens,   \* what the provider counts for it
  Configured,     \* max_tokens of the call
  Scale, AskCap,  \* _TRUNCATION_RETRY_SCALE, _TRUNCATION_RETRY_CAP
  Excess,         \* what a CLI answer may exceed max_tokens by
  Waits,          \* planned waits for a rate limit
  MaxCalls        \* bound: calls of all runs

ASSUME LlmAssumption ==
  /\ {TokenCap, CostCap, PromptBytes, PromptTokens, Configured, Scale,
      AskCap, Excess, Waits, MaxCalls} \subseteq Nat
  /\ PromptTokens <= PromptBytes /\ 0 < Configured /\ Configured <= AskCap

Models == {"main", "fallback", "routed"}

VARIABLES
  client,     \* "api" or "cli", the default backend
  active,     \* _active_model: "main", or "fallback" for good
  high,       \* _OBSERVED_OUTPUT_HIGH_WATER
  learned,    \* _LEARNED_MAX_TOKENS
  ended,      \* what ended a run: a stop, its hours, or nothing yet
  used,       \* its tokens
  ask,        \* its call in flight
  process,    \* provider processes: of which call, whether of the CLI
  over,       \* output beyond what was reserved for the last answer
  late        \* requests sent after the stop

llmVars == <<client, active, high, learned, ended, used, ask, process, over, late>>
sharedVars == <<client, active, high, learned>>

NoAsk == [n |-> 0, pc |-> "idle", model |-> "none", max |-> 0, retry |-> FALSE,
          waits |-> 0, reserve |-> 0, got |-> "none", ceiling |-> FALSE]

LlmInit ==
  /\ client \in {"api", "cli"} /\ active = "main"
  /\ high = [m \in Models |-> 0] /\ learned = [m \in Models |-> 0]
  /\ ended = [c \in Callers |-> "no"]
  /\ used = [c \in Callers |-> 0] /\ ask = [c \in Callers |-> NoAsk]
  /\ process = {}
  /\ over = [c \in Callers |-> 0] /\ late = [c \in Callers |-> 0]

At(c, pc) == ask[c].pc = pc
AsksAt(c, pc) == ask' = [ask EXCEPT ![c].pc = pc]
EndsBy(c, why) == ask' = [ask EXCEPT ![c] = [NoAsk EXCEPT !.n = ask[c].n, !.ceiling = why = "ceiling"]]
Larger(a, b) == IF a > b THEN a ELSE b
Smaller(a, b) == IF a < b THEN a ELSE b

-----------------------------------------------------------------------------
(* _llm_cancelled: a stop cancels, a ceiling aborts.                        *)
(* Mutant: the stop flag is not looked at. *)
AbortIgnoresStop(c) ==
  IF used[c] >= CostCap \/ used[c] >= TokenCap \/ ended[c] = "hours" THEN "ceiling" ELSE "no"
Abort(c) ==
  IF ended[c] = "stop" THEN "cancelled"
  ELSE IF used[c] >= CostCap \/ used[c] >= TokenCap \/ ended[c] = "hours" THEN "ceiling"
  ELSE "no"

(* The model of a call is its route's, or the one that is active.           *)
Begin(c) ==
  /\ At(c, "idle") /\ MapThenSumSet(LAMBDA r : ask[r].n, Callers) < MaxCalls
  /\ IF Abort(c) # "no" THEN ask' = [ask EXCEPT ![c].n = @ + 1]
     ELSE \E m \in {"routed", active} :
            ask' = [ask EXCEPT ![c] =
              [NoAsk EXCEPT !.n = ask[c].n + 1, !.pc = "admit",
                 !.model = m, !.max = Larger(Configured, learned[m])]]
  /\ UNCHANGED <<sharedVars, ended, used, process, over, late>>

(* _llm_request_token_bound.                                                *)
Reserve(c) == PromptBytes + Larger(ask[c].max, high[ask[c].model])

(* _admit_llm_budget.                                                       *)
(* Mutant: the request is admitted on what was used before it. *)
FitsSoFar(c) == used[c] < CostCap /\ used[c] < TokenCap
Fits(c) == used[c] < CostCap /\ used[c] + Reserve(c) <= TokenCap

Admit(c) ==
  /\ At(c, "admit")
  /\ IF Fits(c) THEN ask' = [ask EXCEPT ![c].pc = "send", ![c].reserve = Reserve(c)]
                ELSE EndsBy(c, "ceiling")
  /\ UNCHANGED <<sharedVars, ended, used, process, over, late>>

Viewed(c) == [of |-> c, n |-> ask[c].n]
Routed(c) == ask[c].model = "routed"
Polled(c) == Routed(c) \/ client = "cli"
Kill(c) == process' = {p \in process : p.of # c \/ p.n # ask[c].n}

(* _estimated_error_usage, for a request that may have reached the provider *)
(* and is not cancelled.                                                    *)
Estimate(why) == IF why \in {"cancelled", "unreachable"} THEN 0 ELSE PromptBytes \div 4

(* The call's exception path.  A model without credit is given up for good. *)
(* Mutant: the fallback is tried again when it has no credit either. *)
FallsBackAgain(c, why) == why = "credit" /\ ~Routed(c)
FallsBack(c, why) == why = "credit" /\ ~Routed(c) /\ ask[c].model # "fallback"

Raised(c, why) ==
  /\ used' = [used EXCEPT ![c] = @ + Estimate(why)]
  /\ IF FallsBack(c, why)
     THEN active' = "fallback" /\ ask' = [ask EXCEPT ![c].pc = "admit", ![c].model = "fallback"]
     ELSE UNCHANGED active /\ EndsBy(c, why)
  /\ UNCHANGED <<client, high, learned, ended, over>>

(* OpenRouter looks once more before it starts its process.                 *)
Sends(c) ==
  /\ AsksAt(c, IF Polled(c) THEN "poll" ELSE "wait")
  /\ process' = IF Polled(c) THEN process \cup {Viewed(c)} ELSE process
  /\ late' = [late EXCEPT ![c] = IF ended[c] = "stop" THEN @ + 1 ELSE @]
  /\ UNCHANGED <<sharedVars, ended, used, over>>

Send(c) ==
  /\ At(c, "send")
  /\ IF Routed(c) /\ Abort(c) # "no" THEN Raised(c, Abort(c)) /\ UNCHANGED <<process, late>>
     ELSE Sends(c)

(* What is stopped when a poll is aborted.  The CLI's process is killed for *)
(* a cancelled call and for a deadline.                                     *)
(* Mutant: only OpenRouter's process is. *)
KillsRouted(c, why) == IF Routed(c) THEN Kill(c) ELSE UNCHANGED process
KillsFor(c, why) == IF Routed(c) \/ why # "ceiling" THEN Kill(c) ELSE UNCHANGED process

(* _poll_until_deadline: a look at the run, the deadline, then the process. *)
Poll(c) ==
  /\ ask[c].pc \in {"poll", "wait"} /\ Polled(c)
  /\ \/ /\ Abort(c) = "no" /\ AsksAt(c, "wait")
        /\ UNCHANGED <<sharedVars, ended, used, process, over>>
     \/ Abort(c) # "no" /\ Raised(c, Abort(c)) /\ KillsFor(c, Abort(c))
  /\ UNCHANGED late

Deadline(c) ==
  /\ At(c, "wait") /\ (Polled(c) => Abort(c) = "no")
  /\ Raised(c, "deadline") /\ KillsFor(c, "deadline") /\ UNCHANGED late

Refused(c) ==
  /\ At(c, "wait")
  /\ \E why \in {"credit", "error", "unreachable"} : Raised(c, why)
  /\ Kill(c) /\ UNCHANGED late

(* _or_create_with_backoff: after the last planned wait a rate limit is an  *)
(* error as any other.                                                      *)
(* Mutant: the waits are not counted. *)
WaitedUncounted(c) == ask[c].waits
WaitedOut(c) == ask[c].waits + 1
RateLimited(c) ==
  /\ At(c, "wait") /\ Kill(c)
  /\ IF Routed(c) /\ ask[c].waits < Waits
     THEN /\ ask' = [ask EXCEPT ![c].pc = "backoff", ![c].waits = WaitedOut(c)]
          /\ UNCHANGED <<sharedVars, ended, used, over>>
     ELSE Raised(c, "limited")
  /\ UNCHANGED late

Wake(c) ==
  /\ At(c, "backoff")
  /\ IF Abort(c) = "no"
     THEN AsksAt(c, "send") /\ UNCHANGED <<sharedVars, ended, used, over>>
     ELSE Raised(c, Abort(c))
  /\ UNCHANGED <<process, late>>

(* An answer.  The CLI takes max_tokens for a hint.                         *)
Outputs(c) == {1, ask[c].max} \cup IF Routed(c) \/ client = "api" THEN {} ELSE {ask[c].max + Excess}

Answered(c) ==
  /\ At(c, "wait") /\ Kill(c)
  /\ \E out \in Outputs(c), got \in {"answer", "truncated"} :
       /\ high' = [high EXCEPT ![ask[c].model] = Larger(@, out)]
       /\ used' = [used EXCEPT ![c] = @ + PromptTokens + out]
       /\ over' = [over EXCEPT ![c] = IF PromptTokens + out > ask[c].reserve
                                      THEN PromptTokens + out - ask[c].reserve ELSE 0]
       /\ ask' = [ask EXCEPT ![c].pc = "answered", ![c].got = got, ![c].reserve = 0]
  /\ UNCHANGED <<client, active, learned, ended, late>>

(* The run is looked at again once the answer is accounted.  A truncated    *)
(* answer is asked for again, once, with room for more.                     *)
Retries(c) == ~ask[c].retry /\ Smaller(ask[c].max * Scale, AskCap) > ask[c].max

Return(c) ==
  /\ At(c, "answered") /\ UNCHANGED <<client, active, high, ended, used, process, over, late>>
  /\ IF Abort(c) # "no" THEN EndsBy(c, Abort(c)) /\ UNCHANGED learned
     ELSE IF ask[c].got = "answer"
     THEN /\ EndsBy(c, "answer")
          /\ learned' = IF ask[c].retry THEN [learned EXCEPT ![ask[c].model] = Larger(@, ask[c].max)]
                                        ELSE learned
     ELSE /\ UNCHANGED learned
          /\ IF Retries(c)
             THEN ask' = [ask EXCEPT ![c] =
                    [NoAsk EXCEPT !.n = ask[c].n, !.pc = "admit", !.retry = TRUE,
                       !.model = IF Routed(c) THEN "routed" ELSE active,
                       !.max = Smaller(ask[c].max * Scale, AskCap)]]
             ELSE EndsBy(c, "truncated")

Worker(c) ==
  \/ Begin(c) \/ Admit(c) \/ Send(c) \/ Poll(c) \/ Deadline(c)
  \/ Refused(c) \/ RateLimited(c) \/ Wake(c) \/ Answered(c) \/ Return(c)

-----------------------------------------------------------------------------
EndRun(c) ==
  /\ ended[c] = "no" /\ \E why \in {"stop", "hours"} : ended' = [ended EXCEPT ![c] = why]
  /\ UNCHANGED <<sharedVars, used, ask, process, over, late>>

(* A process that was left to itself ends when its provider answers.        *)
LeftEnds ==
  /\ \E p \in process :
       /\ (p.n = ask[p.of].n => ask[p.of].pc \notin {"poll", "wait"}) /\ process' = process \ {p}
  /\ UNCHANGED <<sharedVars, ended, used, ask, over, late>>

LlmNext == (\E c \in Callers : Worker(c) \/ EndRun(c)) \/ LeftEnds

LlmSpec == LlmInit /\ [][LlmNext]_llmVars

(* A call that was begun goes on; a poll that finds nothing is no progress,  *)
(* and its deadline passes.                                                  *)
GoesOn(c) ==
  \/ Admit(c) \/ Send(c) \/ Poll(c) \/ Deadline(c) \/ Wake(c) \/ Return(c)
LlmFairness == \A c \in Callers : WF_llmVars(GoesOn(c))

LlmTypeOK ==
  /\ client \in {"api", "cli"} /\ active \in {"main", "fallback"}
  /\ high \in [Models -> Nat] /\ learned \in [Models -> 0..AskCap]
  /\ ended \in [Callers -> {"no", "stop", "hours"}]
  /\ used \in [Callers -> Nat] /\ over \in [Callers -> Nat] /\ late \in [Callers -> Nat]
  /\ process \subseteq [of : Callers, n : 1..MaxCalls]

-----------------------------------------------------------------------------
(* A run's tokens exceed its ceiling only by what its last answer had        *)
(* beyond its reservation, which is the CLI's doing: not by another run's    *)
(* answer raising the high-water mark, by a retry, a fallback or an          *)
(* estimate for a failed request (_admit_llm_budget, _call).                 *)
CeilingHolds ==
  \A c \in Callers :
    /\ used[c] <= TokenCap + over[c]
    /\ over[c] > 0 => client = "cli"

(* A stop lets at most one more request out, and a second one only as the    *)
(* fallback for a model that is out of credit (the checks of                 *)
(* _create_message, _call and the two backends).                             *)
StopStopsSpending ==
  \A c \in Callers :
    \/ late[c] <= 1
    \/ late[c] = 2 /\ client = "api" /\ active = "fallback"

(* A provider's process outlives its call only where a ceiling ended a call  *)
(* of the CLI: a deadline, a stop, an error and an answer all leave none.    *)
OnlyCeilingsLeaveProcesses ==
  \A p \in process :
    \/ p.n = ask[p.of].n /\ ask[p.of].pc \in {"poll", "wait"}
    \/ /\ client = "cli"
       /\ ended[p.of] = "hours" /\ (p.n = ask[p.of].n => ask[p.of].ceiling)

(* A call that is given up spends no more, and leaves nothing running that   *)
(* would (_poll_until_deadline, LLMDispatcher.create).                       *)
GivenUpCallsAreOver == StopStopsSpending /\ OnlyCeilingsLeaveProcesses

(* A call of a worker ends, whatever its provider does: rate limits,         *)
(* truncated answers and spent credit lead to another attempt, and each of   *)
(* these stops (_create_message, _or_create_with_backoff).                   *)
CallsEnd == \A c \in Callers : ~At(c, "idle") ~> At(c, "idle")
=============================================================================
