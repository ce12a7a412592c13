----------------------------- MODULE MCServices -----------------------------
(***************************************************************************)
(* Instances of the components behind the pages, of the paper runner and   *)
(* of the calls of the model.  They share no state: a behaviour runs one   *)
(* of them, part says which, and the others stay as they started.  The     *)
(* state space is the sum of theirs.                                       *)
(***************************************************************************)
EXTENDS PaperRunner, LlmCall, WebJobs, ChatDrafts, PlanPreview, WinnerNarrative

CONSTANTS a, b, r1, r2

VARIABLE part

ownThreads == <<runnerVars, llmVars>>
behindPages == <<jobVars, chatVars, planVars, storyVars>>

ServicesInit ==
  /\ part \in {"runner", "llm", "jobs", "chat", "plan", "story"}
  /\ part # "llm" => client = "api"
  /\ RunnerInit /\ LlmInit
  /\ JobsInit /\ ChatInit /\ PlanInit /\ StoryInit

ServicesNext ==
  /\ UNCHANGED part
  /\ \/ part = "runner" /\ RunnerNext /\ UNCHANGED <<llmVars, behindPages>>
     \/ part = "llm" /\ LlmNext /\ UNCHANGED <<runnerVars, behindPages>>
     \/ part = "jobs" /\ JobsNext /\ UNCHANGED <<ownThreads, chatVars, planVars, storyVars>>
     \/ part = "chat" /\ ChatNext /\ UNCHANGED <<ownThreads, jobVars, planVars, storyVars>>
     \/ part = "plan" /\ PlanNext /\ UNCHANGED <<ownThreads, jobVars, chatVars, storyVars>>
     \/ part = "story" /\ StoryNext /\ UNCHANGED <<ownThreads, jobVars, chatVars, planVars>>

servicesVars == <<part, ownThreads, behindPages>>
ServicesSafety == ServicesInit /\ [][ServicesNext]_servicesVars
(* What is fair asks for steps of what is under way; in the parts that rest *)
(* nothing is.                                                              *)
ServicesSpec ==
  /\ ServicesSafety
  /\ RunnerFairness /\ LlmFairness
  /\ JobsFairness /\ PlanFairness

(* A session starts a run or a description, then whatever may race with     *)
(* it, then a run again.                                                    *)
ThreeJobs ==
  <<{"run", "gen"} \X {a},
    {<<"run", a>>, <<"run", b>>, <<"lab", a>>, <<"sweep", a>>, <<"gen", b>>},
    {<<"run", a>>, <<"robust", a>>}>>
TwoRunsElseOne == [k \in Kinds |-> IF k = "run" THEN 2 ELSE 1]
OneEach == [k \in Kinds |-> 1]
=============================================================================
