--------------------------- MODULE CandidateSearch ---------------------------
(***************************************************************************)
(* How the rounds of one run come by their candidates, which AutoRun takes *)
(* as given: proposals of the model, entry and exit blocks written and     *)
(* repaired by attempts under a token cap, random compositions where that  *)
(* fails, the replacement of what was tried before, and what of it all may *)
(* win.  What the model answers and what a backtest gives are external.    *)
(* A strategy is one entry and one exit block with a choice of parameters. *)
(***************************************************************************)
EXTENDS Integers, Sequences, FiniteSets

CONSTANTS
  SearchRounds,
  SearchIterations, \* the lengths of a round a run may ask for
  MaxBacktests,     \* bound, by that length: the user stops the run by then
  Builtin,          \* names of the library's blocks, tuples of one string
  ExitOnly,         \* those that cannot open a position
  Variants,         \* choices of parameters
  BlockAttempts,    \* AGENT_CUSTOM_BLOCK_MAX_ATTEMPTS
  BlockTokens,      \* AGENT_CUSTOM_BLOCK_TOKEN_LIMIT
  BlockReserve,     \* what admission keeps free for an answer
  AnswerTokens      \* what an answer may turn out to cost

ASSUME AnswersFitTheirReserve == \A t \in AnswerTokens : t \in 1..BlockReserve
ASSUME BlockLimits ==
  BlockTokens \in Nat \ {0} /\ BlockAttempts \in Nat \ {0} /\ BlockReserve \in Nat
ASSUME SomeBlockOpens == Builtin \ ExitOnly # {} /\ ExitOnly \subseteq Builtin

VARIABLES
  at, turn,         \* where the worker is; its round, n_iterations, those done
  candidate,
  draft,            \* the block being written and those of the batch so far
  tried,            \* results of the round; again: its like was known before
  degraded,         \* degraded_spec_ids
  seen, dead,       \* fingerprints that ran, families that never traded
  stored,           \* the run's generated blocks, registered and on disk
  retained          \* retained_block_names

searchVars == <<at, turn, candidate, draft, tried, degraded, seen, dead, stored, retained>>

Strategy(id, entry, exit, variant, origin) ==
  [id |-> id, entry |-> entry, exit |-> exit, variant |-> variant, origin |-> origin]
BlocksOf(s) == {s.entry, s.exit}

(* _candidate_fingerprint, exact and of the family. *)
Fingerprint(s) == <<s.entry, s.exit, s.variant>>
Family(s) == <<s.entry, s.exit>>

(* An id is of its round, where each iteration makes two at most. *)
ProposalId == 2 * turn.iter
ReplacementId == ProposalId + 1
NoDraft == [attempt |-> 0, counted |-> 0, made |-> {}]
NoCandidate == Strategy(-1, <<"none">>, <<"none">>, 0, "none")
-----------------------------------------------------------------------------
(* BLOCK_CATALOG holds the generated blocks too.  A block that declares a   *)
(* role takes no other.                                                     *)
BlockNames(blocks) == {b.name : b \in blocks}
MayOpen(b) == b \notin ExitOnly /\ b[1] # "exit"
MayClose(b) == b[1] # "entry"

Usable(s, blocks) == BlocksOf(s) \subseteq Builtin \cup BlockNames(blocks)

(* _validate_composed: what survives the coercion of a proposal, which must *)
(* have an entry.                                                           *)
ValidComposed(blocks) ==
  LET catalog == Builtin \cup BlockNames(blocks)
  IN  {Strategy(ProposalId, e, x, v, "model") :
         e \in {b \in catalog : MayOpen(b)}, x \in {b \in catalog : MayClose(b)}, v \in Variants}

(* _fallback_composed: the exit is another block than the entry. *)
FallbackComposed(blocks, id, origin) ==
  {[s EXCEPT !.id = id, !.origin = origin] : s \in {t \in ValidComposed(blocks) : t.entry # t.exit}}

(* propose_composed_strategy: the model's, or a random one tagged degraded, *)
(* terminal when the provider will not answer again.                        *)
Proposals ==
  [strategy : ValidComposed(stored), end : {"fine"}]
    \cup [strategy : FallbackComposed(stored, ProposalId, "fallback"), end : {"degraded", "terminal"}]

(* Mutant: the round's marks miss the random compositions. *)
MarkedForgotten(p) == degraded
Marked(p) == IF p.end = "fine" THEN degraded ELSE degraded \cup {p.strategy.id}
-----------------------------------------------------------------------------
(* _cleanup_generated: a round leaves nothing on disk but what was promoted *)
(* in this round or before.                                                 *)
Cleaned(blocks, keep) == {b \in blocks : b.name \in keep}

Over(blocks, promoted) ==
  /\ at' = "over"
  /\ retained' = retained \cup promoted
  /\ stored' = Cleaned(blocks, retained')
  /\ candidate' = NoCandidate /\ tried' = {} /\ degraded' = {} /\ draft' = NoDraft
  /\ UNCHANGED <<turn, seen, dead>>

RoundEnds(blocks, promoted) ==
  IF turn.round = SearchRounds THEN Over(blocks, promoted)
  ELSE /\ at' = "propose"
       /\ turn' = [turn EXCEPT !.round = @ + 1, !.iter = 0]
       /\ retained' = retained \cup promoted
       /\ stored' = Cleaned(blocks, retained')
       /\ candidate' = NoCandidate /\ tried' = {} /\ degraded' = {} /\ draft' = NoDraft
       /\ UNCHANGED <<seen, dead>>
-----------------------------------------------------------------------------
(* _deduplicate_candidate.  What is new stays; the rest is discarded with   *)
(* the blocks it names, whoever ran them before, and a random composition   *)
(* that is new takes its place, unless 64 draws give none.                  *)
FreshByFingerprint(s) == Fingerprint(s) \notin seen
Fresh(s) == Fingerprint(s) \notin seen /\ Family(s) \notin dead
DiscardUnrun(blocks, s) == {b \in blocks : b.name \notin BlocksOf(s)}

Kept(s, blocks) == Fresh(s) /\ candidate' = s /\ stored' = blocks

Replaced(s, blocks) ==
  /\ ~Fresh(s)
  /\ stored' = DiscardUnrun(blocks, s)
  /\ \E r \in FallbackComposed(stored', ReplacementId, "replacement") : Fresh(r) /\ candidate' = r

Exhausted(s, blocks) ==
  /\ ~Fresh(s)
  /\ \E r \in FallbackComposed(DiscardUnrun(blocks, s), ReplacementId, "replacement") : ~Fresh(r)

(* A failure of a later proposal leaves the strategy there is at that point *)
(* and marks it.  Mutant: it does not.                                      *)
ReuseUnmarked(s) == degraded
MarkReused(s) == degraded \cup {s.id}

Continue(s, blocks) ==
  /\ candidate' = s /\ stored' = blocks
  /\ degraded' = MarkReused(s)
-----------------------------------------------------------------------------
SearchInit ==
  /\ at = "propose" /\ turn \in [round : {1}, iter : {0}, of : SearchIterations]
  /\ candidate = NoCandidate /\ draft = NoDraft
  /\ tried = {} /\ degraded = {} /\ seen = {} /\ dead = {}
  /\ stored = {} /\ retained = {}

(* _propose_initial_strategy.  A terminal answer ends the run, an exhausted *)
(* pool the round.                                                          *)
ProposeInitial ==
  /\ at = "propose"
  /\ \E p \in Proposals :
       IF p.end = "terminal" THEN Over(stored, {})
       ELSE \/ /\ Kept(p.strategy, stored) \/ Replaced(p.strategy, stored)
               /\ degraded' = Marked(p)
               /\ at' = "run"
               /\ UNCHANGED <<turn, draft, tried, seen, dead, retained>>
            \/ /\ Exhausted(p.strategy, stored)
               /\ RoundEnds(DiscardUnrun(stored, p.strategy), {})

(* A cancelled call, or the budget reached at one, ends the run. *)
GiveUpProposal ==
  /\ at \in {"propose", "next", "compose", "entry", "exit"}
  /\ Over(stored, {})

(* The head of an iteration: a stop discards the candidate's blocks. *)
StopAtHead ==
  /\ at = "run"
  /\ Over(DiscardUnrun(stored, candidate), {})

(* _run_backtest_iteration: one without its blocks fails. *)
Backtest ==
  /\ at = "run"
  /\ (turn.round - 1) * turn.of + turn.iter < MaxBacktests[turn.of]
  /\ \E outcome \in {"good", "untraded", "failed"} :
       /\ Usable(candidate, stored) \/ outcome = "failed"
       /\ tried' = tried \cup {[strategy |-> candidate, outcome |-> outcome,
                                again |-> Fingerprint(candidate) \in seen \/ Family(candidate) \in dead]}
       /\ dead' = IF outcome = "untraded" THEN dead \cup {Family(candidate)} ELSE dead
  /\ seen' = seen \cup {Fingerprint(candidate)}
  /\ turn' = [turn EXCEPT !.iter = @ + 1]
  /\ at' = IF turn'.iter < turn.of THEN "next" ELSE "rank"
  /\ UNCHANGED <<candidate, draft, degraded, stored, retained>>
-----------------------------------------------------------------------------
(* _propose_next_strategy: odd ones ask for an idea and its blocks.  An idea *)
(* that could not be had composes instead; a provider that will not answer   *)
(* leaves the previous strategy.                                             *)
Odd(n) == n % 2 = 1

Idea ==
  /\ at = "next" /\ Odd(turn.iter)
  /\ \/ at' = "entry" /\ UNCHANGED <<candidate, stored, degraded>>
     \/ at' = "compose" /\ UNCHANGED <<candidate, stored, degraded>>
     \/ at' = "run" /\ Continue(candidate, stored)
  /\ UNCHANGED <<turn, draft, tried, seen, dead, retained>>

Compose ==
  /\ at = "compose" \/ (at = "next" /\ ~Odd(turn.iter))
  /\ \E p \in Proposals :
       IF p.end = "terminal" THEN Continue(p.strategy, stored)
       ELSE \/ /\ Kept(p.strategy, stored) \/ Replaced(p.strategy, stored)
               /\ degraded' = Marked(p)
            \/ /\ Exhausted(p.strategy, stored)
               /\ Continue(p.strategy, DiscardUnrun(stored, p.strategy))
  /\ at' = "run"
  /\ UNCHANGED <<turn, draft, tried, seen, dead, retained>>
-----------------------------------------------------------------------------
(* propose_custom_block.  A code's flaws, in the order they are looked for: *)
(* the static gate, a return its role forbids, no max_lookback, a run that  *)
(* fails.  Only the first is reported, and what may be mended is tried      *)
(* again whole.  Mutant: it is not.                                         *)
Flaws == <<"gate", "role", "lookback", "run">>
FirstFlaw(flaws) == Flaws[CHOOSE i \in 1..4 : Flaws[i] \in flaws /\ \A j \in 1..(i - 1) : Flaws[j] \notin flaws]

LookbackMended(flaws, mendable) ==
  IF mendable /\ FirstFlaw(flaws) = "lookback" THEN flaws \ {"lookback"} ELSE flaws
ExitMended(flaws, role, mendable) ==
  IF mendable /\ FirstFlaw(flaws) = "role" /\ role = "exit" THEN flaws \ {"role"} ELSE flaws
Mended(flaws, role, mendable) ==
  IF FirstFlaw(flaws) = "lookback" THEN LookbackMended(flaws, mendable) ELSE ExitMended(flaws, role, mendable)

AcceptedUntried(flaws, role, mendable) ==
  flaws = {} \/ Mended(flaws, role, mendable) # flaws
Accepted(flaws, role, mendable) ==
  flaws = {} \/ Mended(flaws, role, mendable) = {}

(* _call_claude_for_block admits a call within the cap of the block.        *)
(* Mutant: each attempt on its own.                                         *)
AdmittedAlone(d) == BlockReserve <= BlockTokens
Admitted(d) == d.counted + BlockReserve <= BlockTokens

(* A block that will not come is given up for a composition. *)
GiveUp ==
  /\ at' = "compose" /\ draft' = NoDraft
  /\ UNCHANGED <<candidate, stored, degraded>>

Retry(counted) ==
  IF draft.attempt + 1 < BlockAttempts /\ counted < BlockTokens
  THEN /\ draft' = [draft EXCEPT !.attempt = @ + 1, !.counted = counted]
       /\ UNCHANGED <<at, candidate, stored, degraded>>
  ELSE GiveUp

(* The exit is a builtin when the round has a good result and a coin says   *)
(* so, written next otherwise.                                              *)
Written(flaws, counted) ==
  LET made == draft.made \cup {[name |-> <<at, turn.round, turn.iter>>, flaws |-> flaws]}
  IN  /\ \/ at = "entry" /\ at' = "exit"
            /\ draft' = [attempt |-> 0, counted |-> 0, made |-> made]
         \/ /\ at = "exit" \/ \E r \in tried : r.outcome = "good"
            /\ at' = "save"
            /\ draft' = [draft EXCEPT !.counted = counted, !.made = made]
      /\ UNCHANGED <<candidate, stored, degraded>>

(* An answer that cannot be read costs what nothing counts. *)
Answer ==
  \/ GiveUp
  \/ at' = "run" /\ draft' = NoDraft /\ Continue(candidate, stored)
  \/ Retry(draft.counted)
  \/ \E cost \in AnswerTokens :
       \/ Retry(draft.counted + cost)
       \/ \E flaws \in SUBSET {"gate", "role", "lookback", "run"}, mendable \in BOOLEAN :
            IF Accepted(flaws, at, mendable)
            THEN Written(IF flaws = {} THEN {} ELSE Mended(flaws, at, mendable), draft.counted + cost)
            ELSE Retry(draft.counted + cost)

WriteBlock ==
  /\ at \in {"entry", "exit"}
  /\ IF Admitted(draft) THEN Answer ELSE GiveUp
  /\ UNCHANGED <<turn, tried, seen, dead, retained>>

(* save_custom_batch: all of the batch with its registration and the        *)
(* strategy's validation, or none.  Mutant: what was saved stays.           *)
AfterFailedSavePartly(made) == stored \cup {b \in made : b.name[1] = "entry"}
AfterFailedSave(made) == stored

SaveBatch ==
  /\ at = "save"
  /\ \/ \E entry \in {b \in BlockNames(draft.made) : MayOpen(b)} :
        \E exit \in IF Cardinality(draft.made) = 2
                    THEN {b \in BlockNames(draft.made) : MayClose(b)} ELSE Builtin \ ExitOnly :
        \E variant \in Variants :
          /\ \A v \in Variants : variant <= v
          /\ LET s == Strategy(ProposalId, entry, exit, variant, "custom")
             IN  /\ Usable(s, stored \cup draft.made)
                 /\ Kept(s, stored \cup draft.made) \/ Replaced(s, stored \cup draft.made)
          /\ at' = "run"
     \/ at' = "compose" /\ stored' = AfterFailedSave(draft.made) /\ UNCHANGED candidate
  /\ draft' = NoDraft
  /\ UNCHANGED <<turn, tried, degraded, seen, dead, retained>>
-----------------------------------------------------------------------------
(* _rank_and_filter and the scan: of the good results those that are not    *)
(* marked may win, and one does or none.  It is saved and its blocks stay.  *)
WinnerPool == {r \in tried : r.outcome = "good" /\ r.strategy.id \notin degraded}

Rank ==
  /\ at = "rank"
  /\ \/ RoundEnds(stored, {})
     \/ \E r \in WinnerPool : RoundEnds(stored, BlocksOf(r.strategy))

SearchNext ==
  \/ ProposeInitial \/ GiveUpProposal \/ StopAtHead \/ Backtest
  \/ Idea \/ Compose \/ WriteBlock \/ SaveBatch \/ Rank

SearchSpec == SearchInit /\ [][SearchNext]_searchVars

(* The pool holds no repetition, nothing of a family known never to trade   *)
(* and no random composition that was tagged; what is stored was tried      *)
(* whole and is of a candidate that ran, is to run or was promoted; what a  *)
(* block is counted for stays within its cap.                               *)
CandidatesAreSound ==
  /\ \A r \in WinnerPool : ~r.again /\ r.strategy.origin # "fallback"
  /\ \A b \in stored : b.flaws = {}
  /\ BlockNames(stored) \subseteq
       retained \cup BlocksOf(candidate) \cup UNION {BlocksOf(r.strategy) : r \in tried}
  /\ draft.counted <= BlockTokens

(* The cleanup's "retaining a promotion": a promoted strategy keeps its     *)
(* blocks.  The code discards them with a repetition of it.                 *)
PromotionsKeepTheirBlocks == retained \subseteq Builtin \cup BlockNames(stored)
=============================================================================
