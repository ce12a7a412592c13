---------------------------- MODULE PlanPreview ----------------------------
(***************************************************************************)
(* The plan preview of the backtest page (web/routes/backtest.py, /plan):  *)
(* a description is broken down into blocks by a model call, the breakdown *)
(* is cached for a time, and requests for a key that is being computed     *)
(* wait for the computation instead of repeating it.  The handlers share   *)
(* one event loop: they interleave only where they await.                  *)
(***************************************************************************)
EXTENDS Naturals, Sequences, FiniteSets, SequencesExt

CONSTANTS
  Keys,       \* (description, allow_short)
  Metrics,    \* backtest metrics a request may bring along
  Previews,   \* bound: requests
  PlanCap     \* _PLAN_CACHE_MAX

ASSUME PreviewAssumption == PlanCap \in Nat \ {0} /\ Keys # {}

None == "none"
ASSUME MetricsAssumption == None \notin Metrics

VARIABLES
  preview,    \* what each request is doing and what it answers
  cached,     \* keys of _PLAN_CACHE, oldest first
  inflight,   \* the request that computes a key, as in _PLAN_INFLIGHT
  answer      \* what the future of a computing request was resolved with

planVars == <<preview, cached, inflight, answer>>

Fresh == [pc |-> "none", key |-> CHOOSE k \in Keys : TRUE, metrics |-> None,
          owner |-> {}, plan |-> None, refined |-> None]

PlanInit ==
  /\ preview = [p \in Previews |-> Fresh]
  /\ cached = <<>>
  /\ inflight = [k \in Keys |-> {}]
  /\ answer = [p \in Previews |-> <<>>]

Hit(k) == k \in ToSet(cached)

(* The time to live ends for the oldest entry first.                        *)
PlanExpires ==
  /\ cached # <<>> /\ cached' = Tail(cached)
  /\ UNCHANGED <<preview, inflight, answer>>


Joins(k) == inflight[k] # {}

(* A hit awaits only the refinement; a miss joins the computation of its    *)
(* key or becomes it.                                                       *)
Preview(p, k, m) ==
  /\ preview[p].pc = "none"
  /\ LET pc == IF Hit(k) THEN "refine" ELSE IF Joins(k) THEN "join" ELSE "compute"
     IN /\ preview' = [preview EXCEPT ![p] = [Fresh EXCEPT !.pc = pc, !.key = k, !.metrics = m,
                         !.owner = IF pc = "join" THEN inflight[k] ELSE {},
                         !.plan = IF pc = "refine" THEN "llm" ELSE None]]
        /\ inflight' = IF pc = "compute" THEN [inflight EXCEPT ![k] = {p}] ELSE inflight
  /\ UNCHANGED <<cached, answer>>

Refine(p) ==
  /\ preview[p].pc = "refine"
  /\ \E refined \in {preview[p].metrics, None} :
       preview' = [preview EXCEPT ![p].pc = "shown", ![p].refined = refined]
  /\ UNCHANGED <<cached, inflight, answer>>

(* Breakdown and refinement run side by side; a breakdown that fails gives  *)
(* the local one, which is not cached.  Anything else that raises is given  *)
(* to the future and answers the request with an error.  The future is      *)
(* resolved and the key freed in the same step of the loop.                 *)
Endings(p) == {<<"llm", preview[p].metrics>>} \cup {"llm", "local", "error"} \X {None}
Cached(k, plan) ==
  IF plan # "llm" THEN cached
  ELSE LET q == Append(RemoveFirst(cached, k), k)
       IN IF Len(q) > PlanCap THEN Tail(q) ELSE q
(* Mutant: the future of a computation that raised is left pending.         *)
ResolvedUnlessRaised(o) == IF o[1] = "error" THEN <<>> ELSE o
Resolved(o) == o
Compute(p) ==
  /\ preview[p].pc = "compute"
  /\ \E o \in Endings(p) :
       /\ preview' = [preview EXCEPT ![p].pc = "shown", ![p].plan = o[1], ![p].refined = o[2]]
       /\ answer' = [answer EXCEPT ![p] = Resolved(o)]
       /\ cached' = Cached(preview[p].key, o[1])
  /\ inflight' = [inflight EXCEPT ![preview[p].key] = {}]

(* A waiter takes over all of the answer, or the exception, once its future *)
(* is resolved.                                                             *)
Join(p) ==
  /\ preview[p].pc = "join"
  /\ \E q \in preview[p].owner :
       /\ answer[q] # <<>>
       /\ preview' = [preview EXCEPT ![p].pc = "shown", ![p].plan = answer[q][1],
                                     ![p].refined = answer[q][2]]
  /\ UNCHANGED <<cached, inflight, answer>>

PlanStep(p) == Refine(p) \/ Compute(p) \/ Join(p)
PlanNext ==
  \/ PlanExpires
  \/ \E p \in Previews : PlanStep(p) \/ \E k \in Keys, m \in Metrics : Preview(p, k, m)

(* Model calls end by a timeout of their own, and the loop runs what is ready. *)
PlanFairness == \A p \in Previews : WF_planVars(PlanStep(p))
PlanSpec == PlanInit /\ [][PlanNext]_planVars /\ PlanFairness
-----------------------------------------------------------------------------
(* Types; the cache holds each key once and stays within its capacity.      *)
PlanTypeOK ==
  /\ \A p \in Previews :
       /\ preview[p].pc \in {"none", "refine", "join", "compute", "shown"}
       /\ preview[p].key \in Keys /\ preview[p].plan \in {None, "llm", "local", "error"}
  /\ Len(cached) <= PlanCap /\ IsInjective(cached) /\ ToSet(cached) \subseteq Keys

(* No stampede: a key is computed by one request at a time, and not at all  *)
(* while its answer is in the cache.                                        *)
OneComputation ==
  \A k \in Keys :
    LET busy == {p \in Previews : preview[p].pc = "compute" /\ preview[p].key = k}
    IN inflight[k] = busy /\ Cardinality(busy) <= 1 /\ (busy # {} => ~Hit(k))

(* Who waits for a computation waits for one of its own key, under way or   *)
(* answered: never for a request that left without an answer.               *)
WaitsForAnAnswer ==
  \A p \in Previews :
    preview[p].pc = "join" =>
      \E q \in preview[p].owner :
        /\ preview[q].key = preview[p].key
        /\ preview[q].pc = "compute" \/ (preview[q].pc = "shown" /\ answer[q] # <<>>)

(* Every preview is answered, also that of a request which waits for        *)
(* another's computation when that one falls back or raises.                *)
PreviewsAreShown ==
  \A p \in Previews : preview[p].pc # "none" ~> preview[p].pc = "shown"

(* The single flight of build_strategy_plan: one computation, and nobody is  *)
(* left waiting for it.                                                      *)
PlansAreShared == [](OneComputation /\ WaitsForAnAnswer) /\ PreviewsAreShown
=============================================================================
