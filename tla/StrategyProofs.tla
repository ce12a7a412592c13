--------------------------- MODULE StrategyProofs ---------------------------
(***************************************************************************)
(* Proofs about the strategies themselves: how the rounds of a run come by *)
(* their candidates (CandidateSearch), what a composed strategy does with  *)
(* its signals and orders (ComposedStrategy), where the windows of a       *)
(* walk-forward optimisation lie (WfoWindows), which candidate the suite   *)
(* promotes (RobustnessGate), and what a search finds that spreads its     *)
(* backtests over processes (WalkForward).                                 *)
(*                                                                         *)
(* The first rests on MarksInv: whatever is about to run without being     *)
(* new, or stands in for a proposal, is marked by then.  The second on     *)
(* WorkInv, which says for every queue of commands on its way what rests   *)
(* on the exchange, and on DeferInv: while an exit is deferred no entry is *)
(* at work or on its way.  The third on MonthFacts, how long n months can  *)
(* be, and WindowsInv, which ties the cursor to the windows made so far.   *)
(* The fourth on ReportInv, which relates what the report of a candidate   *)
(* says to what its backtests said, and on PassersInv and LookInv.  The    *)
(* last on InStep: a window that lost nothing is, at every generation,     *)
(* where the search without a pool is.                                     *)
(***************************************************************************)
EXTENDS CandidateSearch, ComposedStrategy, WfoWindows, RobustnessGate, WalkForward,
        SequenceTheorems, FiniteSetTheorems, WellFoundedInduction, TLAPS

-----------------------------------------------------------------------------
(* The candidates of a run.                                                 *)
WrittenBlocks == [name : {"entry", "exit"} \X Nat \X Nat, flaws : {{}}]
Role(b) == b.name[1]

SearchTypes ==
  /\ turn \in [round : Nat, iter : Nat, of : SearchIterations]
  /\ draft \in [attempt : Nat, counted : Nat, made : SUBSET WrittenBlocks]

(* What is being written: an entry, then its exit.                          *)
BatchInv ==
  /\ draft.counted <= BlockTokens
  /\ at = "exit" => \E e \in WrittenBlocks : draft.made = {e} /\ Role(e) = "entry"
  /\ at = "save" => \E e, x \in WrittenBlocks :
       /\ Role(e) = "entry" /\ draft.made \in {{e}, {e, x}}
       /\ x # e => Role(x) = "exit"
  /\ at \notin {"exit", "save"} => draft.made = {}

(* What ran before, or stands in for a proposal, is marked before it runs.  *)
MarksInv ==
  /\ \A r \in tried : r.again \/ r.strategy.origin = "fallback" => r.strategy.id \in degraded
  /\ at = "run" /\ (~Fresh(candidate) \/ candidate.origin = "fallback") => candidate.id \in degraded

(* Before a candidate is chosen the store has nothing of it.                *)
RanBlocks == UNION {BlocksOf(r.strategy) : r \in tried}
StoredInv ==
  /\ \A b \in stored : b.flaws = {}
  /\ BlockNames(stored) \subseteq retained \cup RanBlocks \cup (IF at = "run" THEN BlocksOf(candidate) ELSE {})

SearchInv == SearchTypes /\ BatchInv /\ MarksInv /\ StoredInv

LEMMA InvGivesSoundness ==
  ASSUME SearchInv  PROVE CandidatesAreSound
BY DEF SearchInv, BatchInv, MarksInv, StoredInv, WinnerPool, RanBlocks, CandidatesAreSound, SearchTypes

LEMMA SearchInitially ==
  ASSUME SearchInit  PROVE SearchInv
BY BlockLimits DEF SearchInit, SearchInv, SearchTypes, BatchInv, MarksInv, StoredInv, RanBlocks, BlockNames, NoDraft

-----------------------------------------------------------------------------
(* A composition has the id and the origin it was drawn for.                *)
LEMMA ComposedFields ==
  ASSUME NEW blocks, NEW id, NEW origin, NEW r \in FallbackComposed(blocks, id, origin)
  PROVE  r.id = id /\ r.origin = origin
<1>1. PICK t \in ValidComposed(blocks) : r = [t EXCEPT !.id = id, !.origin = origin]
  BY DEF FallbackComposed
<1>2. PICK e, x, v : t = Strategy(ProposalId, e, x, v, "model")
  BY DEF ValidComposed
<1> QED  BY <1>1, <1>2 DEF Strategy

LEMMA DiscardedNames ==
  ASSUME NEW blocks, NEW s
  PROVE  /\ DiscardUnrun(blocks, s) \subseteq blocks
         /\ BlockNames(DiscardUnrun(blocks, s)) \subseteq BlockNames(blocks) \ BlocksOf(s)
BY DEF DiscardUnrun, BlockNames

(* Both ways a candidate that may run is chosen: it is new, and the store   *)
(* has nothing more of it than its own blocks.                              *)
LEMMA Chosen ==
  ASSUME NEW s, NEW blocks, Kept(s, blocks) \/ Replaced(s, blocks), UNCHANGED <<seen, dead>>
  PROVE  /\ Fresh(candidate)'
         /\ candidate' = s \/ candidate'.origin = "replacement"
         /\ stored' \subseteq blocks
         /\ BlockNames(stored') \subseteq (BlockNames(blocks) \ BlocksOf(s)) \cup BlocksOf(candidate')
         /\ candidate' # s => BlockNames(stored') \subseteq BlockNames(blocks) \ BlocksOf(s)
         /\ BlockNames(stored') \subseteq BlockNames(blocks)
<1>1. CASE Kept(s, blocks)
  BY <1>1 DEF Kept, Fresh, Fingerprint, Family
<1>2. CASE Replaced(s, blocks)
  <2>1. PICK r \in FallbackComposed(stored', ReplacementId, "replacement") : Fresh(r) /\ candidate' = r
    BY <1>2 DEF Replaced
  <2>2. candidate'.origin = "replacement"
    BY <2>1, ComposedFields
  <2>3. stored' = DiscardUnrun(blocks, s)
    BY <1>2 DEF Replaced
  <2>4. Fresh(candidate)'
    BY <2>1 DEF Fresh, Fingerprint, Family
  <2> QED  BY <2>2, <2>3, <2>4, DiscardedNames
<1> QED  BY <1>1, <1>2

(* Records with fields set.                                                 *)
LEMMA DraftSet ==
  ASSUME NEW S, NEW d \in [attempt : Nat, counted : Nat, made : S], NEW c \in Nat,
         NEW n, n \in Nat, NEW m \in S
  PROVE  /\ LET new == [d EXCEPT !.attempt = n, !.counted = c]
            IN  new \in [attempt : Nat, counted : Nat, made : S] /\ new.made = d.made /\ new.counted = c
         /\ LET new == [d EXCEPT !.counted = c, !.made = m]
            IN  new \in [attempt : Nat, counted : Nat, made : S] /\ new.made = m /\ new.counted = c
OBVIOUS

LEMMA DraftAgain ==
  ASSUME NEW S, NEW d \in [attempt : Nat, counted : Nat, made : S], NEW c \in Nat
  PROVE  LET new == [d EXCEPT !.attempt = @ + 1, !.counted = c]
         IN  new \in [attempt : Nat, counted : Nat, made : S] /\ new.made = d.made /\ new.counted = c
<1> DEFINE n == d.attempt + 1
<1>1. [d EXCEPT !.attempt = @ + 1, !.counted = c] = [d EXCEPT !.attempt = n, !.counted = c]
  BY Zenon
<1>2. n \in Nat
  OBVIOUS
<1> HIDE DEF n
<1> QED  BY <1>1, <1>2, DraftSet

LEMMA NextRound ==
  ASSUME NEW S, NEW t \in [round : Nat, iter : Nat, of : S]
  PROVE  [t EXCEPT !.round = @ + 1, !.iter = 0] \in [round : Nat, iter : Nat, of : S]
<1> DEFINE n == t.round + 1
<1>1. [t EXCEPT !.round = @ + 1, !.iter = 0] = [t EXCEPT !.round = n, !.iter = 0]
  BY Zenon
<1>2. n \in Nat
  OBVIOUS
<1> HIDE DEF n
<1>3. [t EXCEPT !.round = n, !.iter = 0] \in [round : Nat, iter : Nat, of : S]
  BY <1>2
<1> QED  BY <1>1, <1>3

(* A round that ends, or the run with it.                                   *)
LEMMA RoundOver ==
  ASSUME SearchInv, NEW blocks, NEW promoted, blocks \subseteq stored,
         Over(blocks, promoted) \/ RoundEnds(blocks, promoted)
  PROVE  SearchInv'
<1>1. /\ at' # "run" /\ at' \notin {"exit", "save"}
      /\ stored' = Cleaned(blocks, retained') /\ tried' = {} /\ draft' = NoDraft
  BY DEF Over, RoundEnds
<1>4. turn' \in [round : Nat, iter : Nat, of : SearchIterations]
  <2>1. turn \in [round : Nat, iter : Nat, of : SearchIterations]
    BY DEF SearchInv, SearchTypes
  <2>2. turn' = turn \/ turn' = [turn EXCEPT !.round = @ + 1, !.iter = 0]
    BY DEF Over, RoundEnds
  <2> QED  BY <2>1, <2>2, NextRound
<1>2. SearchTypes' /\ BatchInv'
  BY <1>1, <1>4, BlockLimits DEF SearchTypes, BatchInv, NoDraft
<1>3. MarksInv' /\ StoredInv'
  BY <1>1 DEF MarksInv, StoredInv, Cleaned, BlockNames, SearchInv
<1> QED  BY <1>2, <1>3 DEF SearchInv

-----------------------------------------------------------------------------
(* A candidate is set to run: new, or marked.                               *)
LEMMA SetToRun ==
  ASSUME SearchInv, at' = "run", draft' \in {draft, NoDraft}, draft.made = {} \/ draft' = NoDraft,
         UNCHANGED <<turn, tried, seen, dead, retained>>,
         degraded \subseteq degraded',
         ~Fresh(candidate)' \/ candidate'.origin = "fallback" => candidate'.id \in degraded',
         \A b \in stored' : b.flaws = {},
         BlockNames(stored') \subseteq retained \cup RanBlocks \cup BlocksOf(candidate')
  PROVE  SearchInv'
<1>1. SearchTypes' /\ BatchInv'
  BY BlockLimits DEF SearchInv, SearchTypes, BatchInv, NoDraft
<1>2. MarksInv'
  BY DEF SearchInv, MarksInv
<1>3. StoredInv'
  BY DEF SearchInv, StoredInv, RanBlocks
<1> QED  BY <1>1, <1>2, <1>3 DEF SearchInv

LEMMA ProposalOrigins ==
  ASSUME NEW p \in Proposals
  PROVE  /\ p.end = "fine" => p.strategy.origin = "model" /\ Marked(p) = degraded
         /\ p.end # "fine" => Marked(p) = degraded \cup {p.strategy.id}
BY DEF Proposals, ValidComposed, Strategy, Marked

(* What was proposed, or what stands in for it, runs marked if it must.     *)
LEMMA ProposedRuns ==
  ASSUME SearchInv, NEW p \in Proposals, at # "run", draft.made = {},
         Kept(p.strategy, stored) \/ Replaced(p.strategy, stored), degraded' = Marked(p),
         at' = "run", UNCHANGED <<turn, draft, tried, seen, dead, retained>>
  PROVE  SearchInv'
<1>1. BlockNames(stored) \subseteq retained \cup RanBlocks /\ \A b \in stored : b.flaws = {}
  BY DEF SearchInv, StoredInv
<1>2. /\ Fresh(candidate)' /\ stored' \subseteq stored /\ BlockNames(stored') \subseteq BlockNames(stored)
      /\ candidate' = p.strategy \/ candidate'.origin = "replacement"
  BY Chosen
<1>3. degraded \subseteq degraded' /\ (candidate'.origin = "fallback" => candidate'.id \in degraded')
  BY <1>2, ProposalOrigins
<1> QED  BY <1>1, <1>2, <1>3, SetToRun

LEMMA ContinuedRuns ==
  ASSUME SearchInv, NEW s, NEW blocks, blocks \subseteq stored, at # "run",
         Continue(s, blocks), draft' \in {draft, NoDraft}, draft.made = {} \/ draft' = NoDraft,
         at' = "run", UNCHANGED <<turn, tried, seen, dead, retained>>
  PROVE  SearchInv'
<1>1. BlockNames(stored) \subseteq retained \cup RanBlocks /\ \A b \in stored : b.flaws = {}
  BY DEF SearchInv, StoredInv
<1>2. candidate'.id \in degraded' /\ degraded \subseteq degraded' /\ stored' = blocks
  BY DEF Continue, MarkReused
<1>3. BlockNames(stored') \subseteq BlockNames(stored)
  BY <1>2 DEF BlockNames
<1> QED  BY <1>1, <1>2, <1>3, SetToRun

-----------------------------------------------------------------------------
(* Nothing but the draft and the place changes.                             *)
LEMMA OnlyDraft ==
  ASSUME SearchInv, at # "run", at' # "run",
         UNCHANGED <<turn, candidate, tried, degraded, seen, dead, stored, retained>>,
         draft' \in [attempt : Nat, counted : Nat, made : SUBSET WrittenBlocks], BatchInv'
  PROVE  SearchInv'
<1>1. MarksInv'
  BY DEF SearchInv, MarksInv
<1>2. StoredInv'
  BY DEF SearchInv, StoredInv, RanBlocks
<1> QED  BY <1>1, <1>2 DEF SearchInv, SearchTypes

LEMMA GivenUp ==
  ASSUME SearchInv, at \in {"entry", "exit"}, GiveUp, UNCHANGED <<turn, tried, seen, dead, retained>>
  PROVE  SearchInv'
<1>1. BatchInv' /\ draft' \in [attempt : Nat, counted : Nat, made : SUBSET WrittenBlocks]
  BY BlockLimits DEF GiveUp, BatchInv, NoDraft
<1> QED  BY <1>1, OnlyDraft DEF GiveUp

LEMMA Retried ==
  ASSUME SearchInv, at \in {"entry", "exit"}, NEW counted \in Nat, Retry(counted),
         UNCHANGED <<turn, tried, seen, dead, retained>>
  PROVE  SearchInv'
<1>1. CASE GiveUp
  BY <1>1, GivenUp
<1>2. CASE /\ counted < BlockTokens
           /\ draft' = [draft EXCEPT !.attempt = @ + 1, !.counted = counted]
           /\ UNCHANGED <<at, candidate, stored, degraded>>
  <2>0. draft \in [attempt : Nat, counted : Nat, made : SUBSET WrittenBlocks]
    BY DEF SearchInv, SearchTypes
  <2>1. /\ draft' \in [attempt : Nat, counted : Nat, made : SUBSET WrittenBlocks]
        /\ draft'.made = draft.made /\ draft'.counted = counted
    BY <1>2, <2>0, DraftAgain
  <2>2. BatchInv'
    BY <1>2, <2>1, BlockLimits DEF SearchInv, BatchInv
  <2> QED  BY <1>2, <2>1, <2>2, OnlyDraft
<1> QED  BY <1>1, <1>2 DEF Retry

LEMMA WrittenStays ==
  ASSUME SearchInv, at \in {"entry", "exit"}, NEW counted \in Nat, counted <= BlockTokens,
         Written({}, counted), UNCHANGED <<turn, tried, seen, dead, retained>>
  PROVE  SearchInv'
<1> DEFINE b == [name |-> <<at, turn.round, turn.iter>>, flaws |-> {}]
<1>1. b \in WrittenBlocks /\ Role(b) = at
  BY DEF WrittenBlocks, Role, SearchInv, SearchTypes
<1>2. draft \in [attempt : Nat, counted : Nat, made : SUBSET WrittenBlocks]
  BY DEF SearchInv, SearchTypes
<1>5. \/ /\ at = "entry" /\ at' = "exit"
         /\ draft' = [attempt |-> 0, counted |-> 0, made |-> draft.made \cup {b}]
      \/ /\ at' = "save"
         /\ draft' = [draft EXCEPT !.counted = counted, !.made = draft.made \cup {b}]
  BY DEF Written
<1> HIDE DEF b
<1> DEFINE m == draft.made \cup {b}
<1>7. m \in SUBSET WrittenBlocks
  BY <1>1, <1>2
<1>8. \/ at = "entry" /\ at' = "exit" /\ draft' = [attempt |-> 0, counted |-> 0, made |-> m]
      \/ at' = "save" /\ draft' = [draft EXCEPT !.counted = counted, !.made = m]
  BY <1>5
<1> HIDE DEF m
<1>3. /\ draft'.made = m /\ draft' \in [attempt : Nat, counted : Nat, made : SUBSET WrittenBlocks]
      /\ \/ at = "entry" /\ at' = "exit" /\ draft'.counted = 0
         \/ at' = "save" /\ draft'.counted = counted
  <2>1. CASE at' = "save" /\ draft' = [draft EXCEPT !.counted = counted, !.made = m]
    BY <1>2, <1>7, <2>1, DraftSet
  <2>2. CASE at = "entry" /\ at' = "exit" /\ draft' = [attempt |-> 0, counted |-> 0, made |-> m]
    BY <1>7, <2>2
  <2> QED  BY <1>8, <2>1, <2>2
<1>4. draft'.made = draft.made \cup {b} /\ draft' \in [attempt : Nat, counted : Nat, made : SUBSET WrittenBlocks]
  BY <1>3 DEF m
<1>6. BatchInv'
  <2>1. CASE at = "entry"
    <3>1. draft.made = {}
      BY <2>1 DEF SearchInv, BatchInv
    <3> QED  BY <1>1, <1>3, <1>4, <2>1, <3>1, BlockLimits DEF BatchInv
  <2>2. CASE at = "exit"
    <3>1. PICK e \in WrittenBlocks : draft.made = {e} /\ Role(e) = "entry"
      BY <2>2 DEF SearchInv, BatchInv
    <3>2. at' = "save" /\ draft'.counted = counted /\ draft'.made = {e, b}
      BY <1>3, <1>4, <2>2, <3>1
    <3> QED  BY <1>1, <2>2, <3>1, <3>2 DEF BatchInv
  <2> QED  BY <2>1, <2>2
<1> QED  BY <1>3, <1>4, <1>6, OnlyDraft DEF Written

LEMMA BlockWritten ==
  ASSUME SearchInv, WriteBlock  PROVE SearchInv'
<1>1. at \in {"entry", "exit"} /\ UNCHANGED <<turn, tried, seen, dead, retained>>
  BY DEF WriteBlock
<1>2. draft.counted \in Nat
  BY DEF SearchInv, SearchTypes
<1>3. CASE GiveUp
  BY <1>1, <1>3, GivenUp
<1>4. CASE at' = "run" /\ draft' = NoDraft /\ Continue(candidate, stored)
  BY <1>1, <1>4, ContinuedRuns
<1>5. CASE Retry(draft.counted)
  BY <1>1, <1>2, <1>5, Retried
<1>6. ASSUME Admitted(draft), NEW cost \in AnswerTokens, Retry(draft.counted + cost)  PROVE SearchInv'
  <2>1. draft.counted + cost \in Nat
    BY <1>2, AnswersFitTheirReserve, BlockLimits
  <2> QED  BY <1>1, <1>6, <2>1, Retried
<1>7. ASSUME Admitted(draft), NEW cost \in AnswerTokens,
             NEW flaws \in SUBSET {"gate", "role", "lookback", "run"}, NEW mendable \in BOOLEAN,
             Accepted(flaws, at, mendable),
             Written(IF flaws = {} THEN {} ELSE Mended(flaws, at, mendable), draft.counted + cost)
      PROVE  SearchInv'
  <2>1. draft.counted + cost \in Nat /\ draft.counted + cost <= BlockTokens
    BY <1>2, <1>7, AnswersFitTheirReserve, BlockLimits DEF Admitted
  <2>2. (IF flaws = {} THEN {} ELSE Mended(flaws, at, mendable)) = {}
    BY <1>7 DEF Accepted
  <2> QED  BY <1>1, <1>7, <2>1, <2>2, WrittenStays
<1> QED  BY <1>3, <1>4, <1>5, <1>6, <1>7 DEF WriteBlock, Answer

-----------------------------------------------------------------------------
(* The names of a batch are those of the strategy that was made of it.      *)
LEMMA BatchNames ==
  ASSUME NEW made, NEW e \in WrittenBlocks, NEW x \in WrittenBlocks, Role(e) = "entry",
         made \in {{e}, {e, x}}, x # e => Role(x) = "exit",
         NEW entry \in {n \in BlockNames(made) : MayOpen(n)},
         NEW exit, Cardinality(made) = 2 => exit \in {n \in BlockNames(made) : MayClose(n)}
  PROVE  BlockNames(made) \subseteq {entry, exit}
<1>1. entry = e.name
  BY DEF BlockNames, MayOpen, Role
<1>2. CASE made = {e}
  BY <1>1, <1>2 DEF BlockNames
<1>3. CASE made = {e, x} /\ x # e
  <2>1. Cardinality(made) = 2
    <3>1. IsFiniteSet({e}) /\ Cardinality({e}) = 1
      BY FS_Singleton
    <3>2. Cardinality({e} \cup {x}) = Cardinality({e}) + 1
      BY <1>3, <3>1, FS_AddElement
    <3>3. made = {e} \cup {x}
      BY <1>3
    <3> QED  BY <3>1, <3>2, <3>3
  <2>2. exit = x.name
    BY <1>3, <2>1 DEF BlockNames, MayClose, Role
  <2> QED  BY <1>1, <1>3, <2>2 DEF BlockNames
<1> QED  BY <1>2, <1>3

LEMMA BatchSaved ==
  ASSUME SearchInv, SaveBatch  PROVE SearchInv'
<1>1. at = "save" /\ draft' = NoDraft /\ UNCHANGED <<turn, tried, degraded, seen, dead, retained>>
  BY DEF SaveBatch
<1>2. PICK e, x \in WrittenBlocks :
        /\ Role(e) = "entry" /\ draft.made \in {{e}, {e, x}}
        /\ x # e => Role(x) = "exit"
  BY <1>1 DEF SearchInv, BatchInv
<1>3. BlockNames(stored) \subseteq retained \cup RanBlocks /\ \A b \in stored : b.flaws = {}
  BY <1>1 DEF SearchInv, StoredInv
<1>4. \A b \in draft.made : b.flaws = {}
  BY DEF SearchInv, SearchTypes, WrittenBlocks
<1>5. CASE at' = "compose" /\ stored' = AfterFailedSave(draft.made) /\ UNCHANGED candidate
  <2>1. BatchInv' /\ draft' \in [attempt : Nat, counted : Nat, made : SUBSET WrittenBlocks]
    BY <1>1, <1>5, BlockLimits DEF BatchInv, NoDraft
  <2> QED  BY <1>1, <1>5, <2>1, OnlyDraft DEF AfterFailedSave
<1>6. ASSUME NEW entry \in {b \in BlockNames(draft.made) : MayOpen(b)},
             NEW exit \in IF Cardinality(draft.made) = 2
                    THEN {b \in BlockNames(draft.made) : MayClose(b)} ELSE Builtin \ ExitOnly,
             NEW variant \in Variants,
             LET s == Strategy(ProposalId, entry, exit, variant, "custom")
             IN  Kept(s, stored \cup draft.made) \/ Replaced(s, stored \cup draft.made),
             at' = "run"
      PROVE  SearchInv'
  <2> DEFINE s == Strategy(ProposalId, entry, exit, variant, "custom")
             blocks == stored \cup draft.made
  <2>1. BlocksOf(s) = {entry, exit} /\ s.origin = "custom"
    BY DEF BlocksOf, Strategy
  <2>2. BlockNames(draft.made) \subseteq BlocksOf(s)
    BY <1>2, <1>6, <2>1, BatchNames
  <2>3. BlockNames(blocks) \subseteq BlockNames(stored) \cup BlocksOf(s)
    BY <2>2 DEF BlockNames
  <2>4. Kept(s, blocks) \/ Replaced(s, blocks)
    BY <1>6
  <2> HIDE DEF s, blocks
  <2>5. /\ Fresh(candidate)' /\ stored' \subseteq blocks
        /\ candidate' = s \/ candidate'.origin = "replacement"
        /\ BlockNames(stored') \subseteq (BlockNames(blocks) \ BlocksOf(s)) \cup BlocksOf(candidate')
    BY <1>1, <2>4, Chosen
  <2>6. \A b \in stored' : b.flaws = {}
    BY <1>3, <1>4, <2>5 DEF blocks
  <2>7. BlockNames(stored') \subseteq retained \cup RanBlocks \cup BlocksOf(candidate')
    BY <1>3, <2>3, <2>5
  <2>8. candidate'.origin # "fallback"
    BY <2>1, <2>5
  <2> QED  BY <1>1, <1>6, <2>5, <2>6, <2>7, <2>8, SetToRun
<1> QED  BY <1>5, <1>6 DEF SaveBatch

-----------------------------------------------------------------------------
LEMMA Backtested ==
  ASSUME SearchInv, Backtest  PROVE SearchInv'
<1>1. PICK outcome \in {"good", "untraded", "failed"} :
        /\ tried' = tried \cup {[strategy |-> candidate, outcome |-> outcome,
                                 again |-> Fingerprint(candidate) \in seen \/ Family(candidate) \in dead]}
        /\ dead' = IF outcome = "untraded" THEN dead \cup {Family(candidate)} ELSE dead
  BY DEF Backtest
<1>2. /\ at = "run" /\ at' \in {"next", "rank"} /\ turn' = [turn EXCEPT !.iter = @ + 1]
      /\ UNCHANGED <<candidate, draft, degraded, stored, retained>>
  BY DEF Backtest
<1>3. SearchTypes' /\ BatchInv'
  BY <1>2 DEF SearchInv, SearchTypes, BatchInv
<1> DEFINE new == [strategy |-> candidate, outcome |-> outcome,
                   again |-> Fingerprint(candidate) \in seen \/ Family(candidate) \in dead]
<1>6. /\ tried' = tried \cup {new} /\ new.strategy = candidate
      /\ new.again <=> ~Fresh(candidate)
  BY <1>1 DEF Fresh
<1> HIDE DEF new
<1>4. MarksInv'
  BY <1>6, <1>2 DEF SearchInv, MarksInv
<1>5. StoredInv'
  <2>1. RanBlocks' = RanBlocks \cup BlocksOf(candidate)
    BY <1>6, <1>2 DEF RanBlocks
  <2> QED  BY <1>2, <2>1 DEF SearchInv, StoredInv
<1> QED  BY <1>3, <1>4, <1>5 DEF SearchInv

LEMMA SearchSteps ==
  ASSUME SearchInv, SearchNext  PROVE SearchInv'
<1>0. at \notin {"exit", "save"} => draft.made = {}
  BY DEF SearchInv, BatchInv
<1>1. CASE ProposeInitial
  <2>1. PICK p \in Proposals :
       IF p.end = "terminal" THEN Over(stored, {})
       ELSE \/ /\ Kept(p.strategy, stored) \/ Replaced(p.strategy, stored)
               /\ degraded' = Marked(p)
               /\ at' = "run"
               /\ UNCHANGED <<turn, draft, tried, seen, dead, retained>>
            \/ /\ Exhausted(p.strategy, stored)
               /\ RoundEnds(DiscardUnrun(stored, p.strategy), {})
    BY <1>1 DEF ProposeInitial
  <2>2. at = "propose"
    BY <1>1 DEF ProposeInitial
  <2> QED  BY <1>0, <2>1, <2>2, RoundOver, ProposedRuns, DiscardedNames
<1>2. CASE GiveUpProposal
  BY <1>2, RoundOver DEF GiveUpProposal
<1>3. CASE StopAtHead
  BY <1>3, RoundOver, DiscardedNames DEF StopAtHead
<1>4. CASE Backtest
  BY <1>4, Backtested
<1>5. CASE Idea
  <2>1. CASE at' = "run" /\ Continue(candidate, stored)
    BY <1>0, <1>5, <2>1, ContinuedRuns DEF Idea
  <2>2. CASE at' \in {"entry", "compose"} /\ UNCHANGED <<candidate, stored, degraded>>
    <3>1. BatchInv' /\ draft' \in [attempt : Nat, counted : Nat, made : SUBSET WrittenBlocks]
      BY <1>0, <1>5, <2>2 DEF Idea, SearchInv, SearchTypes, BatchInv
    <3> QED  BY <1>5, <2>2, <3>1, OnlyDraft DEF Idea
  <2> QED  BY <1>5, <2>1, <2>2 DEF Idea
<1>6. CASE Compose
  <2>1. PICK p \in Proposals :
       IF p.end = "terminal" THEN Continue(p.strategy, stored)
       ELSE \/ /\ Kept(p.strategy, stored) \/ Replaced(p.strategy, stored)
               /\ degraded' = Marked(p)
            \/ /\ Exhausted(p.strategy, stored)
               /\ Continue(p.strategy, DiscardUnrun(stored, p.strategy))
    BY <1>6 DEF Compose
  <2>2. at \in {"next", "compose"} /\ at' = "run" /\ UNCHANGED <<turn, draft, tried, seen, dead, retained>>
    BY <1>6 DEF Compose
  <2> QED  BY <1>0, <2>1, <2>2, ContinuedRuns, ProposedRuns, DiscardedNames
<1>7. CASE WriteBlock
  BY <1>7, BlockWritten
<1>8. CASE SaveBatch
  BY <1>8, BatchSaved
<1>9. CASE Rank
  BY <1>9, RoundOver DEF Rank
<1> QED  BY <1>1, <1>2, <1>3, <1>4, <1>5, <1>6, <1>7, <1>8, <1>9 DEF SearchNext

(* The pool of a round holds no repetition, nothing of a family known never *)
(* to trade and no random composition, and the store only blocks without    *)
(* flaws that belong to a candidate (_rank_and_filter,                      *)
(* _deduplicate_candidate, propose_custom_block, _cleanup_generated).       *)
THEOREM CandidatesAlwaysSound == SearchSpec => []CandidatesAreSound
<1>1. SearchInit => SearchInv
  BY SearchInitially
<1>2. SearchInv /\ [SearchNext]_searchVars => SearchInv'
  <2>1. SearchInv /\ UNCHANGED searchVars => SearchInv'
    BY DEF SearchInv, SearchTypes, BatchInv, MarksInv, StoredInv, RanBlocks, searchVars, Fresh, Fingerprint, Family
  <2> QED  BY <2>1, SearchSteps
<1>3. SearchInv => CandidatesAreSound
  BY InvGivesSoundness
<1> QED  BY <1>1, <1>2, <1>3, PTL DEF SearchSpec

-----------------------------------------------------------------------------
(* A composed strategy at work.                                             *)
Orders == [kind : {"entry", "sl", "tp"}, side : Sides, of : Nat]
Commands == {CancelAll} \cup {CloseAll(tag) : tag \in Nat}
              \cup [do : {"submit"}, order : Orders, legs : SUBSET Orders]
Submit(o, legs) == [do |-> "submit", order |-> o, legs |-> legs]
Says == [kind : {"entry", "exit"}, side : Sides \cup {"none"}]

StrategyTypes ==
  /\ spec \in [bracket : BOOLEAN, target : BOOLEAN, limit : BOOLEAN, delay : BOOLEAN]
  /\ spec.target => spec.bracket
  /\ bar \in Nat /\ position \in [net : Int, of : Nat]
  /\ deferred \in [entry : Sides \cup {"none"}, exit : BOOLEAN, saw : Nat, at : Nat]

(* Between the handlers: flat with nothing or one entry resting, which may  *)
(* have its stop with it, or one unit and its protection.                   *)
Resting(side, b) ==
  /\ spec.limit /\ Order("entry", side, b) \in book
  /\ book \subseteq {Order("entry", side, b)}
       \cup (IF spec.target THEN {} ELSE {Order("sl", Opposite(side), b)})
Protected(side, b) ==
  /\ position.net = Sign(side) /\ position.of = b
  /\ book \subseteq {Order("sl", Opposite(side), b), Order("tp", Opposite(side), b)}
  /\ spec.bracket /\ (spec.limit => spec.target) => Order("sl", Opposite(side), b) \in book
Idle ==
  IF position.net = 0 THEN book = {} \/ \E side \in Sides, b \in Nat : Resting(side, b)
  ELSE \E side \in Sides : Protected(side, position.of)

(* What is on its way after the working orders and the position are gone.   *)
Entries == {<<>>} \cup {EntryOrders(side, b) : side \in Sides, b \in Nat}
(* Only the stop that follows its entry is.                                 *)
StopFollows(side, b) ==
  /\ spec.bracket /\ ~spec.target
  /\ out = <<Submit(Order("sl", Opposite(side), b), {})>>
  /\ IF spec.limit THEN position.net = 0 /\ book = {Order("entry", side, b)}
     ELSE position.net = Sign(side) /\ position.of = b /\ book = {}

WorkInv ==
  \/ out = <<>> /\ Idle
  \/ Idle /\ \E tag \in Nat, q \in Entries : out = (<<CancelAll>> \o ClosesOpen(tag)) \o q
  \/ book = {} /\ position.net # 0 /\ \E tag \in Nat, q \in Entries : out = <<CloseAll(tag)>> \o q
  \/ book = {} /\ position.net = 0 /\ out \in Entries
  \/ \E side \in Sides, b \in Nat : StopFollows(side, b)

LogInv ==
  /\ decisions \in Seq(Says)
  /\ \A s \in sent : s.tag \in 1..Len(decisions) /\ decisions[s.tag] = Decision(s.kind, s.side)
  /\ \A i \in 1..Len(decisions) : \E s : {t \in sent : t.tag = i} = {s}

(* No entry is at work or on its way while an exit is deferred.             *)
Quiet == out = <<>> \/ \E tag \in Nat : out \in {<<CancelAll>> \o ClosesOpen(tag), <<CloseAll(tag)>>}
DeferInv ==
  deferred.exit /\ deferred.at \notin flips =>
    /\ \A o \in book : o.kind # "entry"
    /\ Quiet
    /\ position.net # 0 => position.of = deferred.saw

StrategyInv == StrategyTypes /\ WorkInv /\ LogInv /\ DeferInv

-----------------------------------------------------------------------------
LEMMA IdleFits ==
  ASSUME StrategyTypes, Idle  PROVE BookFitsThePosition
<1>1. CASE position.net = 0 /\ book = {}
  <2>1. Cardinality({o \in book : o.kind = "entry"}) = 0
    BY <1>1, FS_EmptySet
  <2> QED  BY <1>1, <2>1 DEF BookFitsThePosition, OneEntryAtWork, ProtectionIsOfThePosition
<1>2. ASSUME position.net = 0, NEW side \in Sides, NEW b \in Nat, Resting(side, b)
      PROVE  BookFitsThePosition
  <2>1. {o \in book : o.kind = "entry"} = {Order("entry", side, b)}
    BY <1>2 DEF Resting, Order
  <2>2. Cardinality({o \in book : o.kind = "entry"}) = 1
    BY <2>1, FS_Singleton
  <2>3. \A o \in book : o.kind # "entry" => \E e \in book : e.kind = "entry" /\ e.of = o.of
    BY <1>2 DEF Resting, Order
  <2> QED  BY <1>2, <2>2, <2>3 DEF BookFitsThePosition, OneEntryAtWork, ProtectionIsOfThePosition
<1>3. ASSUME position.net # 0, NEW side \in Sides, Protected(side, position.of)
      PROVE  BookFitsThePosition
  <2>1. {o \in book : o.kind = "entry"} = {}
    BY <1>3 DEF Protected, Order
  <2>2. Cardinality({o \in book : o.kind = "entry"}) = 0
    BY <2>1, FS_EmptySet
  <2>3. position.net = IF side = "BUY" THEN 1 ELSE -1
    BY <1>3 DEF Protected, Sign
  <2>4. \A o \in book : o.of = position.of
    BY <1>3 DEF Protected, Order
  <2>5. Opposite(side) = IF Long THEN "SELL" ELSE "BUY"
    BY <2>3 DEF Opposite, Long
  <2> QED  BY <1>3, <2>2, <2>3, <2>4, <2>5 DEF BookFitsThePosition, OneEntryAtWork, ProtectionIsOfThePosition, Protected
<1> QED  BY <1>1, <1>2, <1>3 DEF Idle

-----------------------------------------------------------------------------
(* Queues of commands.                                                      *)
LEMMA Cons ==
  ASSUME NEW S, NEW x \in S, NEW q \in Seq(S)
  PROVE  /\ <<x>> \o q \in Seq(S) /\ <<x>> \o q # <<>>
         /\ Head(<<x>> \o q) = x /\ Tail(<<x>> \o q) = q
<1> DEFINE s == <<x>> \o q
<1>1. <<x>> \in Seq(S) /\ Len(<<x>>) = 1 /\ <<x>>[1] = x
  OBVIOUS
<1>2. s \in Seq(S) /\ Len(s) = 1 + Len(q) /\ \A i \in 1 .. 1 + Len(q) : s[i] = IF i <= 1 THEN <<x>>[i] ELSE q[i - 1]
  BY <1>1, ConcatProperties
<1>3. Len(q) \in Nat
  BY LenProperties
<1> HIDE DEF s
<1>4. s # <<>> /\ s[1] = x
  BY <1>1, <1>2, <1>3, EmptySeq
<1>5. Tail(s) \in Seq(S) /\ Len(Tail(s)) = Len(q) /\ \A i \in 1..Len(q) : Tail(s)[i] = q[i]
  <2>1. /\ Tail(s) \in Seq(S) /\ Len(Tail(s)) = Len(s) - 1
        /\ \A i \in 1 .. Len(Tail(s)) : Tail(s)[i] = s[i+1]
    BY <1>2, <1>4, HeadTailProperties
  <2> QED  BY <1>2, <1>3, <2>1
<1>6. Tail(s) = q
  BY <1>5, SeqEqual
<1> QED  BY <1>2, <1>4, <1>6 DEF s

LEMMA EntryForms ==
  ASSUME NEW side, NEW b
  PROVE  LET e == Submit(Order("entry", side, b), Legs(Order("entry", side, b)))
             c == Submit(Order("sl", Opposite(side), b), {})
         IN  EntryOrders(side, b) = IF spec.bracket /\ ~spec.target THEN <<e, c>> ELSE <<e>>
<1>1. Order("entry", side, b).side = side /\ Order("entry", side, b).of = b
  BY DEF Order
<1>2. CASE spec.target
  BY <1>1, <1>2 DEF EntryOrders, Submit, Legs
<1>3. CASE ~spec.target
  BY <1>1, <1>3 DEF EntryOrders, Submit, Legs
<1> QED  BY <1>2, <1>3

LEMMA EntriesAre ==
  ASSUME NEW q
  PROVE  /\ q \in Entries <=> (q = <<>> \/ \E side \in Sides, b \in Nat : q = EntryOrders(side, b))
         /\ spec' = spec => Entries' = Entries
BY DEF Entries, EntryOrders

LEMMA CommandTypes ==
  /\ \A tag \in Nat : CloseAll(tag) \in Commands /\ ClosesOpen(tag) \in Seq(Commands)
  /\ CancelAll \in Commands
  /\ \A side \in Sides, b \in Nat :
       /\ Order("entry", side, b) \in Orders /\ Order("sl", Opposite(side), b) \in Orders
       /\ Order("tp", Opposite(side), b) \in Orders
       /\ Submit(Order("sl", Opposite(side), b), {}) \in Commands
       /\ Submit(Order("entry", side, b), Legs(Order("entry", side, b))) \in Commands
  /\ Entries \subseteq Seq(Commands)
<1>1. \A tag \in Nat : CloseAll(tag) \in Commands /\ ClosesOpen(tag) \in Seq(Commands)
  <2>1. \A tag \in Nat : CloseAll(tag) \in Commands
    BY DEF Commands
  <2>2. \A tag \in Nat : ClosesOpen(tag) \in {<<>>, <<CloseAll(tag)>>}
    BY DEF ClosesOpen
  <2>3. \A c \in Commands : <<c>> \in Seq(Commands)
    OBVIOUS
  <2>4. <<>> \in Seq(Commands)
    OBVIOUS
  <2> QED  BY <2>1, <2>2, <2>3, <2>4
<1>2. CancelAll \in Commands
  BY DEF Commands
<1>3. ASSUME NEW side \in Sides, NEW b \in Nat
      PROVE  /\ Order("entry", side, b) \in Orders /\ Order("sl", Opposite(side), b) \in Orders
             /\ Order("tp", Opposite(side), b) \in Orders
             /\ Submit(Order("sl", Opposite(side), b), {}) \in Commands
             /\ Submit(Order("entry", side, b), Legs(Order("entry", side, b))) \in Commands
  <2>1. Opposite(side) \in Sides
    BY DEF Opposite, Sides
  <2>2. /\ Order("entry", side, b) \in Orders /\ Order("sl", Opposite(side), b) \in Orders
        /\ Order("tp", Opposite(side), b) \in Orders
    BY <2>1 DEF Orders, Order
  <2>3. Legs(Order("entry", side, b)) \in SUBSET Orders
    BY <2>2 DEF Legs, Order
  <2> QED  BY <2>2, <2>3 DEF Commands, Submit
<1>4. ASSUME NEW side \in Sides, NEW b \in Nat  PROVE EntryOrders(side, b) \in Seq(Commands)
  <2> DEFINE e == Submit(Order("entry", side, b), Legs(Order("entry", side, b)))
             c == Submit(Order("sl", Opposite(side), b), {})
  <2>1. EntryOrders(side, b) = <<e>> \/ EntryOrders(side, b) = <<e, c>>
    BY EntryForms
  <2>2. e \in Commands /\ c \in Commands
    BY <1>3
  <2> HIDE DEF e, c
  <2>3. <<e>> \in Seq(Commands) /\ <<e, c>> \in Seq(Commands)
    BY <2>2
  <2> QED  BY <2>1, <2>3, Zenon
<1>5. Entries \subseteq Seq(Commands)
  <2>1. <<>> \in Seq(Commands)
    BY EmptySeq
  <2> SUFFICES ASSUME NEW q \in Entries  PROVE q \in Seq(Commands)
    OBVIOUS
  <2>2. CASE q = <<>>
    BY <2>1, <2>2
  <2>3. ASSUME NEW side \in Sides, NEW b \in Nat, q = EntryOrders(side, b)  PROVE q \in Seq(Commands)
    BY <1>4, <2>3, Zenon
  <2> QED  BY <2>2, <2>3, EntriesAre
<1> QED  BY <1>1, <1>2, <1>3, <1>5

(* What the exchange does with each kind of command.                        *)
LEMMA CommandEffects ==
  /\ Takes(CancelAll) => book' = {} /\ UNCHANGED position
  /\ \A tag : Takes(CloseAll(tag)) => position' = Flat /\ UNCHANGED book
  /\ \A side, b, legs : Takes(Submit(Order("entry", side, b), legs)) =>
       IF spec.limit THEN UNCHANGED position /\ book' = book \cup {Order("entry", side, b)}
       ELSE position' = Entered(Order("entry", side, b)) /\ book' = book \cup legs
  /\ \A side, b : Takes(Submit(Order("sl", side, b), {})) =>
       /\ UNCHANGED position
       /\ book' = book \cup {Order("sl", side, b)} \/ (position.net = 0 /\ UNCHANGED book)
<1>1. Takes(CancelAll) => book' = {} /\ UNCHANGED position
  BY DEF Takes, CancelAll
<1>2. ASSUME NEW tag  PROVE Takes(CloseAll(tag)) => position' = Flat /\ UNCHANGED book
  BY DEF Takes, CloseAll
<1>3. ASSUME NEW side, NEW b, NEW legs, Takes(Submit(Order("entry", side, b), legs))
      PROVE  IF spec.limit THEN UNCHANGED position /\ book' = book \cup {Order("entry", side, b)}
             ELSE position' = Entered(Order("entry", side, b)) /\ book' = book \cup legs
  BY <1>3 DEF Takes, Submit, Order
<1>4. ASSUME NEW side, NEW b, Takes(Submit(Order("sl", side, b), {}))
      PROVE  /\ UNCHANGED position
             /\ book' = book \cup {Order("sl", side, b)} \/ (position.net = 0 /\ UNCHANGED book)
  <2> DEFINE c == Submit(Order("sl", side, b), {})
  <2>1. c.do = "submit" /\ c.order = Order("sl", side, b) /\ c.order.kind = "sl"
    BY DEF Submit, Order
  <2>2. Takes(c)
    BY <1>4
  <2> HIDE DEF c
  <2>3. c.do # "cancel" /\ c.do # "close" /\ c.order.kind # "entry"
    BY <2>1
  <2>4. UNCHANGED position /\ (book' = book \cup {c.order} \/ (position.net = 0 /\ UNCHANGED book))
    BY <2>2, <2>3, Zenon DEF Takes
  <2> QED  BY <2>1, <2>4
<1> QED  BY <1>1, <1>2, <1>3, <1>4

-----------------------------------------------------------------------------
LEMMA Cancelling ==
  ASSUME NEW tag \in Nat, NEW q \in Entries
  PROVE  LET work == (<<CancelAll>> \o ClosesOpen(tag)) \o q
         IN  /\ work # <<>> /\ Head(work) = CancelAll
             /\ Tail(work) = IF position.net = 0 THEN q ELSE <<CloseAll(tag)>> \o q
<1>1. /\ q \in Seq(Commands) /\ ClosesOpen(tag) \in Seq(Commands)
      /\ CancelAll \in Commands /\ CloseAll(tag) \in Commands
  BY CommandTypes
<1>2. <<CancelAll>> \in Seq(Commands)
  BY <1>1
<1>3. (<<CancelAll>> \o ClosesOpen(tag)) \o q = <<CancelAll>> \o (ClosesOpen(tag) \o q)
  BY <1>1, <1>2, ConcatAssociative
<1>4. ClosesOpen(tag) \o q \in Seq(Commands)
  BY <1>1, ConcatProperties
<1>5. ClosesOpen(tag) \o q = IF position.net = 0 THEN q ELSE <<CloseAll(tag)>> \o q
  BY <1>1, ConcatEmptySeq DEF ClosesOpen
<1> QED  BY <1>1, <1>3, <1>4, <1>5, Cons

LEMMA Closing ==
  ASSUME NEW tag \in Nat, NEW q \in Entries
  PROVE  /\ <<CloseAll(tag)>> \o q # <<>>
         /\ Head(<<CloseAll(tag)>> \o q) = CloseAll(tag) /\ Tail(<<CloseAll(tag)>> \o q) = q
BY CommandTypes, Cons

LEMMA Stopping ==
  ASSUME NEW side \in Sides, NEW b \in Nat, StopFollows(side, b)
  PROVE  /\ out # <<>> /\ Head(out) = Submit(Order("sl", Opposite(side), b), {}) /\ Tail(out) = <<>>
BY DEF StopFollows

LEMMA AtRest ==
  ASSUME WorkInv, out = <<>>  PROVE Idle
BY Cancelling, Closing, Stopping DEF WorkInv, Idle

LEMMA DeliverWork ==
  ASSUME StrategyTypes, WorkInv, Deliver  PROVE WorkInv' /\ position' \in [net : Int, of : Nat]
<1>0. out # <<>> /\ out' = Tail(out) /\ Takes(Head(out)) /\ UNCHANGED spec
  BY DEF Deliver
<1>a. position \in [net : Int, of : Nat] /\ Entries' = Entries
  BY <1>0, EntriesAre DEF StrategyTypes
<1>1. ASSUME NEW tag \in Nat, NEW q \in Entries, out = (<<CancelAll>> \o ClosesOpen(tag)) \o q
      PROVE  WorkInv' /\ position' \in [net : Int, of : Nat]
  <2>1. book' = {} /\ UNCHANGED position
    BY <1>0, <1>1, Cancelling, CommandEffects
  <2>2. out' = IF position.net = 0 THEN q ELSE <<CloseAll(tag)>> \o q
    BY <1>0, <1>1, Cancelling
  <2>3. CASE position.net = 0
    BY <1>a, <2>1, <2>2, <2>3 DEF WorkInv
  <2>4. CASE position.net # 0
    BY <1>a, <2>1, <2>2, <2>4 DEF WorkInv
  <2> QED  BY <2>3, <2>4
<1>2. ASSUME book = {}, NEW tag \in Nat, NEW q \in Entries, out = <<CloseAll(tag)>> \o q
      PROVE  WorkInv' /\ position' \in [net : Int, of : Nat]
  <2>1. position' = Flat /\ book' = {} /\ out' = q
    BY <1>0, <1>2, Closing, CommandEffects
  <2> QED  BY <1>a, <2>1 DEF WorkInv, Flat
<1>3. ASSUME book = {}, position.net = 0, NEW side \in Sides, NEW b \in Nat, out = EntryOrders(side, b)
      PROVE  WorkInv' /\ position' \in [net : Int, of : Nat]
  <2> DEFINE o == Order("entry", side, b)
             e == Submit(o, Legs(o))
             c == Submit(Order("sl", Opposite(side), b), {})
  <2>1. out = IF spec.bracket /\ ~spec.target THEN <<e, c>> ELSE <<e>>
    BY <1>3, EntryForms
  <2>2. Takes(e) /\ out' = IF spec.bracket /\ ~spec.target THEN <<c>> ELSE <<>>
    BY <1>0, <2>1
  <2>3. IF spec.limit THEN UNCHANGED position /\ book' = {o}
        ELSE position' = Entered(o) /\ book' = Legs(o)
    BY <1>3, <2>2, CommandEffects
  <2>4. Entered(o) = [net |-> Sign(side), of |-> b] /\ Sign(side) \in {1, -1}
    BY <1>3 DEF Entered, Order, Sign
  <2>5. Legs(o) = IF spec.target THEN {Order("sl", Opposite(side), b), Order("tp", Opposite(side), b)} ELSE {}
    BY DEF Legs, Order
  <2>6. position' \in [net : Int, of : Nat]
    BY <1>a, <2>3, <2>4
  <2>7. CASE spec.bracket /\ ~spec.target
    <3>1. out' = <<c>> /\ spec'.bracket /\ ~spec'.target /\ Legs(o) = {}
      BY <1>0, <2>2, <2>5, <2>7
    <3>2. IF spec'.limit THEN position'.net = 0 /\ book' = {o}
          ELSE position'.net = Sign(side) /\ position'.of = b /\ book' = {}
      BY <1>0, <1>3, <2>3, <2>4, <3>1
    <3>3. StopFollows(side, b)'
      BY <3>1, <3>2 DEF StopFollows
    <3> QED  BY <2>6, <3>3 DEF WorkInv
  <2>8. CASE ~(spec.bracket /\ ~spec.target) /\ spec.limit
    <3>1. Resting(side, b)' /\ position'.net = 0 /\ out' = <<>>
      BY <1>0, <1>3, <2>2, <2>3, <2>8 DEF Resting
    <3> QED  BY <2>6, <3>1 DEF WorkInv, Idle
  <2>9. CASE ~(spec.bracket /\ ~spec.target) /\ ~spec.limit
    <3>1. position'.net = Sign(side) /\ position'.of = b /\ out' = <<>> /\ position'.net # 0
      BY <2>2, <2>3, <2>4, <2>9
    <3>2. Protected(side, position.of)'
      BY <1>0, <2>3, <2>5, <2>9, <3>1 DEF Protected, StrategyTypes
    <3> QED  BY <2>6, <3>1, <3>2 DEF WorkInv, Idle
  <2> QED  BY <2>7, <2>8, <2>9
<1>4. ASSUME NEW side \in Sides, NEW b \in Nat, StopFollows(side, b)
      PROVE  WorkInv' /\ position' \in [net : Int, of : Nat]
  <2> DEFINE sl == Order("sl", Opposite(side), b)
  <2>1. out' = <<>> /\ UNCHANGED position /\ (book' = book \cup {sl} \/ (position.net = 0 /\ UNCHANGED book))
    BY <1>0, <1>4, Stopping, CommandEffects
  <2>2. CASE spec.limit
    <3>1. Resting(side, b)' /\ position'.net = 0
      BY <1>0, <1>4, <2>1, <2>2 DEF StopFollows, Resting
    <3> QED  BY <1>a, <2>1, <3>1 DEF WorkInv, Idle
  <2>3. CASE ~spec.limit
    <3>1. position.net = Sign(side) /\ position.of = b /\ book = {} /\ position.net # 0
      BY <1>4, <2>3 DEF StopFollows, Sign
    <3>2. Protected(side, position.of)'
      BY <1>0, <2>1, <2>3, <3>1 DEF Protected
    <3> QED  BY <1>a, <2>1, <3>1, <3>2 DEF WorkInv, Idle
  <2> QED  BY <2>2, <2>3
<1> QED  BY <1>0, <1>1, <1>2, <1>3, <1>4, EntriesAre DEF WorkInv

LEMMA ReachedWork ==
  ASSUME StrategyTypes, WorkInv, Reached
  PROVE  /\ WorkInv' /\ position' \in [net : Int, of : Nat]
         /\ (\A o \in book : o.kind # "entry") =>
              /\ position' \in {Flat, position}
              /\ book' \subseteq book
<1>0. out = <<>> /\ UNCHANGED <<spec, out>> /\ Idle /\ position \in [net : Int, of : Nat]
  BY AtRest DEF Reached, StrategyTypes
<1>1. PICK o \in book :
       IF o.kind = "entry"
       THEN position' = Entered(o) /\ book' = (book \ {o}) \cup Legs(o)
       ELSE /\ position' = IF position.net * Sign(o.side) < 0 THEN Flat ELSE position
            /\ book' = {p \in book : p.kind = "entry" \/ p.of # o.of}
  BY DEF Reached
<1>2. ASSUME position.net = 0, NEW side \in Sides, NEW b \in Nat, Resting(side, b)
      PROVE  WorkInv' /\ position' \in [net : Int, of : Nat]
  <2> DEFINE e == Order("entry", side, b)
             sl == Order("sl", Opposite(side), b)
  <2>1. /\ spec.limit /\ e \in book /\ book \subseteq {e} \cup (IF spec.target THEN {} ELSE {sl})
        /\ e.kind = "entry" /\ e.side = side /\ e.of = b /\ sl.kind = "sl" /\ sl.of = b
    BY <1>2 DEF Resting, Order
  <2>2. CASE o = e
    <3>1. position' = Entered(e) /\ book' = (book \ {e}) \cup Legs(e)
      BY <1>1, <2>1, <2>2
    <3>2. position' = [net |-> Sign(side), of |-> b] /\ Sign(side) \in {1, -1}
      BY <1>2, <2>1, <3>1 DEF Entered, Sign
    <3>3. Legs(e) = IF spec.target THEN {sl, Order("tp", Opposite(side), b)} ELSE {}
      BY <2>1 DEF Legs
    <3>4. Protected(side, position.of)'
      BY <1>0, <2>1, <3>1, <3>2, <3>3 DEF Protected
    <3> QED  BY <1>0, <3>2, <3>4 DEF WorkInv, Idle
  <2>3. CASE o # e
    <3>1. o = sl
      BY <2>1, <2>3
    <3>2. position' = position
      BY <1>0, <1>1, <1>2, <2>1, <3>1 DEF Sign
    <3>3. book' = {e}
      BY <1>1, <2>1, <3>1
    <3>4. Resting(side, b)'
      BY <1>0, <2>1, <3>3 DEF Resting
    <3> QED  BY <1>0, <1>2, <3>2, <3>4 DEF WorkInv, Idle
  <2> QED  BY <2>2, <2>3
<1>3. ASSUME position.net # 0, NEW side \in Sides, Protected(side, position.of)
      PROVE  WorkInv' /\ position' \in [net : Int, of : Nat]
  <2>1. \A p \in book : p.kind # "entry" /\ p.of = position.of /\ p.side = Opposite(side)
    BY <1>3 DEF Protected, Order
  <2>2. position.net = Sign(side) /\ position.net * Sign(Opposite(side)) < 0
    BY <1>3 DEF Protected, Sign, Opposite, Sides
  <2>3. position' = Flat /\ book' = {}
    BY <1>1, <2>1, <2>2
  <2> QED  BY <1>0, <2>3 DEF WorkInv, Idle, Flat
<1>4. (\A p \in book : p.kind # "entry") => position' \in {Flat, position} /\ book' \subseteq book
  BY <1>1
<1> QED  BY <1>0, <1>1, <1>2, <1>3, <1>4 DEF Idle

-----------------------------------------------------------------------------
(* What a bar may send and log.                                             *)
Sends(cmds) == cmds = <<>> \/ \E tag \in Nat, q \in Entries : cmds = (<<CancelAll>> \o ClosesOpen(tag)) \o q
Logs(done, b) ==
  \/ done.decisions = decisions /\ done.sent = sent
  \/ \E kind \in {"entry", "exit"}, side \in Sides \cup {"none"} :
       /\ done.decisions = Append(decisions, Decision(kind, side))
       /\ done.sent = sent \cup {Tagged(Len(decisions) + 1, kind, side, b)}
(* What it sends beside an exit that it defers: nothing that enters, unless *)
(* it turns the position.                                                   *)
Hushed(done) ==
  position.net # 0 =>
    \/ done.flip
    \/ done.cmds = <<>>
    \/ \E tag \in Nat : done.cmds = <<CancelAll>> \o ClosesOpen(tag)
Does(done, b) == Sends(done.cmds) /\ Logs(done, b) /\ Hushed(done)

LEMMA OnlyCancelling ==
  ASSUME NEW tag \in Nat
  PROVE  /\ (<<CancelAll>> \o ClosesOpen(tag)) \o <<>> = <<CancelAll>> \o ClosesOpen(tag)
         /\ <<>> \in Entries /\ Sends(<<CancelAll>> \o ClosesOpen(tag))
<1>1. <<CancelAll>> \in Seq(Commands) /\ ClosesOpen(tag) \in Seq(Commands)
  BY CommandTypes
<1>2. <<CancelAll>> \o ClosesOpen(tag) \in Seq(Commands)
  BY <1>1, ConcatProperties
<1>3. <<>> \in Entries
  BY EntriesAre
<1> QED  BY <1>2, <1>3, ConcatEmptySeq DEF Sends

LEMMA SilenceDoes ==
  ASSUME NEW b  PROVE Does(Silence, b)
BY DEF Does, Silence, Sends, Logs, Hushed

LEMMA ExitsDo ==
  ASSUME LogInv, NEW b  PROVE Does(Exits(b), b)
<1>1. Len(decisions) + 1 \in Nat
  BY LenProperties DEF LogInv
<1> DEFINE tag == Len(decisions) + 1
<1>2. /\ Exits(b).cmds = <<CancelAll>> \o ClosesOpen(tag)
      /\ Exits(b).decisions = Append(decisions, Decision("exit", "none"))
      /\ Exits(b).sent = sent \cup {Tagged(tag, "exit", "none", b)}
  BY DEF Exits, ExitCommands
<1> HIDE DEF tag
<1>3. Sends(Exits(b).cmds) /\ Hushed(Exits(b))
  BY <1>1, <1>2, OnlyCancelling DEF Hushed, tag
<1>4. Logs(Exits(b), b)
  BY <1>2 DEF Logs, tag
<1> QED  BY <1>3, <1>4 DEF Does

LEMMA EntersDo ==
  ASSUME LogInv, NEW b \in Nat, NEW side \in Sides, NEW fits \in BOOLEAN  PROVE Does(Enters(side, fits, b), b)
<1> DEFINE done == Enters(side, fits, b)
<1>1. CASE ~MayEnter(fits)
  BY <1>1, SilenceDoes DEF Enters
<1>2. CASE MayEnter(fits) /\ ~fits
  <2>1. position.net = 0 /\ done = FailedEntry(side)
    BY <1>2 DEF MayEnter, Enters
  <2>2. done.cmds = EntryClears /\ done.decisions = decisions /\ done.sent = sent
    BY <2>1 DEF FailedEntry, Silence
  <2> HIDE DEF done
  <2> QED  BY <2>1, <2>2, OnlyCancelling DEF Does, Logs, Hushed, EntryClears, done
<1>3. CASE MayEnter(fits) /\ fits
  <2>1. done = [cmds |-> EntryClears \o EntryOrders(side, b), decisions |-> Append(decisions, Decision("entry", side)),
                sent |-> sent \cup {Tagged(Len(decisions) + 1, "entry", side, b)}, flip |-> position.net # 0]
    BY <1>3 DEF Enters
  <2>2. /\ done.cmds = (<<CancelAll>> \o ClosesOpen(0)) \o EntryOrders(side, b)
        /\ done.decisions = Append(decisions, Decision("entry", side))
        /\ done.sent = sent \cup {Tagged(Len(decisions) + 1, "entry", side, b)}
        /\ done.flip = (position.net # 0)
    BY <2>1 DEF EntryClears
  <2> HIDE DEF done
  <2>3. Sends(done.cmds)
    BY <2>2, EntriesAre DEF Sends
  <2>4. Logs(done, b)
    BY <2>2 DEF Logs
  <2> QED  BY <2>2, <2>3, <2>4 DEF Does, Hushed, done
<1> QED  BY <1>1, <1>2, <1>3

LEMMA BarDoes ==
  ASSUME StrategyTypes, LogInv, OnBar
  PROVE  /\ out = <<>> /\ bar' = bar + 1 /\ UNCHANGED <<spec, bias, book, position, stopped>>
         /\ \E done : /\ Does(done, bar')
                      /\ out' = done.cmds /\ decisions' = done.decisions /\ sent' = done.sent
                      /\ flips' = IF done.flip THEN flips \cup {bar'} ELSE flips
         /\ deferred' \in [entry : Sides \cup {"none"}, exit : BOOLEAN, saw : Nat, at : Nat]
         /\ deferred'.exit => position.net # 0 /\ deferred'.saw = position.of /\ deferred'.at = bar'
<1>1. PICK long \in BOOLEAN, short \in BOOLEAN, exit \in BOOLEAN, fits \in BOOLEAN :
       LET want == Wanted(Permitted([long |-> long, short |-> short, exit |-> exit]))
           done == IF spec.delay THEN Deferred(fits, bar') ELSE Acts(want, fits, bar')
       IN /\ out' = done.cmds /\ decisions' = done.decisions /\ sent' = done.sent
          /\ flips' = IF done.flip THEN flips \cup {bar'} ELSE flips
          /\ deferred' = Defers(want, bar')
  BY DEF OnBar
<1> DEFINE signals == [long |-> long, short |-> short, exit |-> exit]
           want == Wanted(Permitted(signals))
           done == IF spec.delay THEN Deferred(fits, bar') ELSE Acts(want, fits, bar')
<1>2. bar' = bar + 1 /\ bar' \in Nat /\ out = <<>> /\ UNCHANGED <<spec, bias, book, position, stopped>>
  BY DEF OnBar, StrategyTypes
<1>3. Permitted(signals).exit => position.net # 0
  BY DEF Permitted
<1>4. want \in {"exit", "BUY", "SELL", "none"} /\ (want = "exit" => position.net # 0)
  BY <1>3 DEF Wanted
<1>5. /\ out' = done.cmds /\ decisions' = done.decisions /\ sent' = done.sent
      /\ flips' = IF done.flip THEN flips \cup {bar'} ELSE flips
      /\ deferred' = Defers(want, bar')
  BY <1>1
<1> HIDE DEF signals, want
<1>6. Does(Deferred(fits, bar'), bar')
  <2>1. CASE ~spec.delay
    BY <2>1, SilenceDoes DEF Deferred
  <2>2. CASE spec.delay /\ deferred.exit /\ position.net # 0
    BY <2>2, ExitsDo DEF Deferred
  <2>3. CASE /\ spec.delay /\ ~(deferred.exit /\ position.net # 0)
             /\ deferred.entry # "none" /\ ~In(deferred.entry)
    <3>1. deferred.entry \in Sides
      BY <2>3 DEF StrategyTypes
    <3> QED  BY <1>2, <2>3, <3>1, EntersDo DEF Deferred
  <2>4. CASE /\ spec.delay /\ ~(deferred.exit /\ position.net # 0)
             /\ ~(deferred.entry # "none" /\ ~In(deferred.entry))
    BY <2>4, SilenceDoes DEF Deferred
  <2> QED  BY <2>1, <2>2, <2>3, <2>4
<1>7. Does(Acts(want, fits, bar'), bar')
  <2>1. CASE want = "exit"
    BY <2>1, ExitsDo DEF Acts, Sides
  <2>2. CASE want \in Sides
    BY <1>2, <2>2, EntersDo DEF Acts, Sides
  <2>3. CASE want = "none"
    BY <2>3, SilenceDoes DEF Acts, Sides
  <2> QED  BY <1>4, <2>1, <2>2, <2>3 DEF Sides
<1>8. Does(done, bar')
  BY <1>6, <1>7
<1> HIDE DEF done
<1>9. /\ deferred' \in [entry : Sides \cup {"none"}, exit : BOOLEAN, saw : Nat, at : Nat]
      /\ deferred'.exit => position.net # 0 /\ deferred'.saw = position.of /\ deferred'.at = bar'
  <2>1. position.of \in Nat
    BY DEF StrategyTypes
  <2>2. CASE spec.delay /\ want = "exit"
    BY <1>2, <1>4, <1>5, <2>1, <2>2 DEF Defers, Defer
  <2>3. CASE spec.delay /\ want \in Sides
    BY <1>2, <1>5, <2>3 DEF Defers, Defer, Sides
  <2>4. CASE ~spec.delay \/ want = "none"
    BY <1>5, <2>4 DEF Defers, Defer, Nothing, Sides
  <2> QED  BY <1>4, <2>2, <2>3, <2>4 DEF Sides
<1> QED  BY <1>2, <1>5, <1>8, <1>9

-----------------------------------------------------------------------------
(* A decision is logged with the number of its tag.                         *)
LEMMA LogGrows ==
  ASSUME LogInv, NEW b, NEW kind \in {"entry", "exit"}, NEW side \in Sides \cup {"none"},
         decisions' = Append(decisions, Decision(kind, side)),
         sent' = sent \cup {Tagged(Len(decisions) + 1, kind, side, b)}
  PROVE  LogInv'
<1> DEFINE n == Len(decisions)
           new == Tagged(n + 1, kind, side, b)
<1>1. decisions \in Seq(Says) /\ n \in Nat
  BY LenProperties DEF LogInv
<1>2. Decision(kind, side) \in Says
  BY DEF Decision, Says
<1>3. /\ decisions' \in Seq(Says) /\ Len(decisions') = n + 1
      /\ \A i \in 1..n : decisions'[i] = decisions[i]
      /\ decisions'[n + 1] = Decision(kind, side)
  BY <1>1, <1>2, AppendProperties
<1>4. new.tag = n + 1 /\ new.kind = kind /\ new.side = side
  BY DEF Tagged
<1>5. sent' = sent \cup {new}
  OBVIOUS
<1>6. /\ \A s \in sent : s.tag \in 1..n /\ decisions[s.tag] = Decision(s.kind, s.side)
      /\ \A i \in 1..n : \E s : {t \in sent : t.tag = i} = {s}
  BY DEF LogInv
<1> HIDE DEF new, n
<1>7. \A s \in sent' : s.tag \in 1..(n + 1) /\ decisions'[s.tag] = Decision(s.kind, s.side)
  <2> SUFFICES ASSUME NEW s \in sent'  PROVE s.tag \in 1..(n + 1) /\ decisions'[s.tag] = Decision(s.kind, s.side)
    OBVIOUS
  <2>1. CASE s = new
    BY <1>1, <1>3, <1>4, <2>1
  <2>2. CASE s \in sent
    BY <1>1, <1>3, <1>6, <2>2
  <2> QED  BY <1>5, <2>1, <2>2
<1>8. \A i \in 1..(n + 1) : \E s : {t \in sent' : t.tag = i} = {s}
  <2> SUFFICES ASSUME NEW i \in 1..(n + 1)  PROVE \E s : {t \in sent' : t.tag = i} = {s}
    OBVIOUS
  <2>1. CASE i = n + 1
    <3>1. {t \in sent' : t.tag = i} = {new}
      BY <1>1, <1>4, <1>5, <1>6, <2>1
    <3> QED  BY <3>1
  <2>2. CASE i \in 1..n
    <3>1. {t \in sent' : t.tag = i} = {t \in sent : t.tag = i}
      BY <1>1, <1>4, <1>5, <2>2
    <3>2. PICK s : {t \in sent : t.tag = i} = {s}
      BY <1>6, <2>2
    <3>3. {t \in sent' : t.tag = i} = {s}
      BY <3>1, <3>2
    <3> QED  BY <3>3
  <2>3. i = n + 1 \/ i \in 1..n
    BY <1>1
  <2> QED  BY <2>1, <2>2, <2>3
<1> QED  BY <1>3, <1>7, <1>8 DEF LogInv

LEMMA LogSame ==
  ASSUME LogInv, UNCHANGED <<decisions, sent>>  PROVE LogInv'
BY DEF LogInv

LEMMA LogTells ==
  ASSUME LogInv  PROVE TagsTellTheDecision
<1>1. DOMAIN decisions = 1..Len(decisions)
  BY LenProperties DEF LogInv
<1>2. ASSUME NEW i \in DOMAIN decisions  PROVE Cardinality({s \in sent : s.tag = i}) = 1
  <2>1. PICK s : {t \in sent : t.tag = i} = {s}
    BY <1>1 DEF LogInv
  <2> QED  BY <2>1, FS_Singleton
<1> QED  BY <1>1, <1>2 DEF LogInv, TagsTellTheDecision

-----------------------------------------------------------------------------
LEMMA StrategyInitially ==
  ASSUME StrategyInit  PROVE StrategyInv
<1>1. StrategyTypes
  BY DEF StrategyInit, StrategyTypes, Nothing, Flat
<1>2. WorkInv
  BY DEF StrategyInit, WorkInv, Idle, Flat
<1>3. LogInv
  <2>1. decisions \in Seq(Says) /\ Len(decisions) = 0 /\ sent = {}
    BY DEF StrategyInit
  <2> QED  BY <2>1 DEF LogInv
<1>4. DeferInv
  BY DEF StrategyInit, DeferInv, Nothing
<1> QED  BY <1>1, <1>2, <1>3, <1>4 DEF StrategyInv

LEMMA BarKeeps ==
  ASSUME StrategyInv, OnBar  PROVE StrategyInv'
<1>0. StrategyTypes /\ WorkInv /\ LogInv /\ DeferInv
  BY DEF StrategyInv
<1>1. /\ out = <<>> /\ bar' = bar + 1 /\ UNCHANGED <<spec, bias, book, position, stopped>>
      /\ deferred' \in [entry : Sides \cup {"none"}, exit : BOOLEAN, saw : Nat, at : Nat]
      /\ deferred'.exit => position.net # 0 /\ deferred'.saw = position.of /\ deferred'.at = bar'
  BY <1>0, BarDoes
<1>2. PICK done : /\ Does(done, bar')
                  /\ out' = done.cmds /\ decisions' = done.decisions /\ sent' = done.sent
                  /\ flips' = IF done.flip THEN flips \cup {bar'} ELSE flips
  BY <1>0, BarDoes
<1>3. Idle
  BY <1>0, <1>1, AtRest
<1>4. StrategyTypes'
  BY <1>0, <1>1 DEF StrategyTypes
<1>5. \A tag \in Nat : ClosesOpen(tag)' = ClosesOpen(tag)
  BY <1>1 DEF ClosesOpen
<1>6. Idle' /\ Entries' = Entries
  BY <1>1, <1>3, EntriesAre DEF Idle, Resting, Protected
<1>7. WorkInv'
  <2>1. Sends(out')
    BY <1>2 DEF Does
  <2>2. CASE out' = <<>>
    BY <1>6, <2>2 DEF WorkInv
  <2>3. ASSUME NEW tag \in Nat, NEW q \in Entries, out' = (<<CancelAll>> \o ClosesOpen(tag)) \o q
        PROVE  WorkInv'
    <3>1. out' = (<<CancelAll>> \o ClosesOpen(tag)') \o q /\ q \in Entries'
      BY <1>5, <1>6, <2>3
    <3> QED  BY <1>6, <3>1 DEF WorkInv, CancelAll
  <2> QED  BY <2>1, <2>2, <2>3 DEF Sends
<1>8. LogInv'
  <2>1. Logs(done, bar')
    BY <1>2 DEF Does
  <2> QED  BY <1>0, <1>2, <2>1, LogGrows, LogSame DEF Logs
<1>9. DeferInv'
  <2> SUFFICES ASSUME deferred'.exit, deferred'.at \notin flips'
               PROVE  /\ \A o \in book' : o.kind # "entry"
                      /\ Quiet'
                      /\ position'.net # 0 => position'.of = deferred'.saw
    BY DEF DeferInv
  <2>1. position.net # 0 /\ ~done.flip
    BY <1>1, <1>2
  <2>2. \A o \in book' : o.kind # "entry"
    <3>1. PICK side \in Sides : Protected(side, position.of)
      BY <1>3, <2>1 DEF Idle
    <3>2. \A o \in book : o.kind # "entry"
      BY <3>1 DEF Protected, Order
    <3> QED  BY <1>1, <3>2
  <2>3. out' = <<>> \/ \E tag \in Nat : out' = <<CancelAll>> \o ClosesOpen(tag)
    BY <1>2, <2>1 DEF Does, Hushed
  <2>4. Quiet'
    BY <1>5, <2>3 DEF Quiet, CancelAll
  <2> QED  BY <1>1, <2>2, <2>4
<1> QED  BY <1>4, <1>7, <1>8, <1>9 DEF StrategyInv

LEMMA DeliverKeeps ==
  ASSUME StrategyInv, Deliver  PROVE StrategyInv'
<1>0. StrategyTypes /\ WorkInv /\ LogInv /\ DeferInv
  BY DEF StrategyInv
<1>1. /\ out # <<>> /\ out' = Tail(out) /\ Takes(Head(out))
      /\ UNCHANGED <<spec, bar, bias, deferred, decisions, sent, flips, stopped>>
  BY DEF Deliver
<1>2. WorkInv' /\ position' \in [net : Int, of : Nat]
  BY <1>0, DeliverWork
<1>3. StrategyTypes' /\ LogInv'
  BY <1>0, <1>1, <1>2, LogSame DEF StrategyTypes
<1>4. DeferInv'
  <2> SUFFICES ASSUME deferred.exit, deferred.at \notin flips
               PROVE  /\ \A o \in book' : o.kind # "entry"
                      /\ Quiet'
                      /\ position'.net # 0 => position'.of = deferred.saw
    BY <1>1 DEF DeferInv
  <2>1. /\ \A o \in book : o.kind # "entry"
        /\ Quiet
        /\ position.net # 0 => position.of = deferred.saw
    BY <1>0 DEF DeferInv
  <2>2. ASSUME NEW tag \in Nat, out = <<CancelAll>> \o ClosesOpen(tag)
        PROVE  /\ \A o \in book' : o.kind # "entry"
               /\ Quiet'
               /\ position'.net # 0 => position'.of = deferred.saw
    <3>1. out = (<<CancelAll>> \o ClosesOpen(tag)) \o <<>> /\ <<>> \in Entries
      BY <2>2, OnlyCancelling
    <3>2. Head(out) = CancelAll /\ out' = IF position.net = 0 THEN <<>> ELSE <<CloseAll(tag)>> \o <<>>
      BY <1>1, <3>1, Cancelling
    <3>3. book' = {} /\ UNCHANGED position
      BY <1>1, <3>2, CommandEffects
    <3>4. <<CloseAll(tag)>> \o <<>> = <<CloseAll(tag)>>
      BY CommandTypes, ConcatEmptySeq
    <3>5. Quiet'
      BY <3>2, <3>4 DEF Quiet, CloseAll
    <3> QED  BY <2>1, <3>3, <3>5
  <2>3. ASSUME NEW tag \in Nat, out = <<CloseAll(tag)>>
        PROVE  /\ \A o \in book' : o.kind # "entry"
               /\ Quiet'
               /\ position'.net # 0 => position'.of = deferred.saw
    <3>1. Head(out) = CloseAll(tag) /\ out' = <<>>
      BY <1>1, <2>3
    <3>2. position' = Flat /\ UNCHANGED book
      BY <1>1, <3>1, CommandEffects
    <3> QED  BY <2>1, <3>1, <3>2 DEF Quiet, Flat
  <2> QED  BY <1>1, <2>1, <2>2, <2>3 DEF Quiet
<1> QED  BY <1>2, <1>3, <1>4 DEF StrategyInv

LEMMA ReachedKeeps ==
  ASSUME StrategyInv, Reached  PROVE StrategyInv'
<1>0. StrategyTypes /\ WorkInv /\ LogInv /\ DeferInv
  BY DEF StrategyInv
<1>1. out = <<>> /\ UNCHANGED <<spec, bar, bias, deferred, decisions, out, sent, flips, stopped>>
  BY DEF Reached
<1>2. /\ WorkInv' /\ position' \in [net : Int, of : Nat]
      /\ (\A o \in book : o.kind # "entry") => position' \in {Flat, position} /\ book' \subseteq book
  BY <1>0, ReachedWork
<1>3. StrategyTypes' /\ LogInv'
  BY <1>0, <1>1, <1>2, LogSame DEF StrategyTypes
<1>4. DeferInv'
  BY <1>0, <1>1, <1>2 DEF DeferInv, Quiet, Flat
<1> QED  BY <1>2, <1>3, <1>4 DEF StrategyInv

LEMMA StopKeeps ==
  ASSUME StrategyInv, OnStop  PROVE StrategyInv'
<1>0. StrategyTypes /\ WorkInv /\ LogInv /\ DeferInv
  BY DEF StrategyInv
<1>1. /\ out = <<>> /\ out' = <<CancelAll>> \o ClosesOpen(0)
      /\ UNCHANGED <<spec, bar, bias, deferred, decisions, book, position, sent, flips>>
  BY DEF OnStop
<1>2. out' = (<<CancelAll>> \o ClosesOpen(0)) \o <<>> /\ <<>> \in Entries /\ Entries' = Entries
  BY <1>1, OnlyCancelling, EntriesAre
<1>3. ClosesOpen(0)' = ClosesOpen(0) /\ Idle'
  BY <1>0, <1>1, AtRest DEF ClosesOpen, Idle, Resting, Protected
<1>4. WorkInv'
  BY <1>2, <1>3 DEF WorkInv, CancelAll
<1>5. StrategyTypes' /\ LogInv'
  BY <1>0, <1>1, LogSame DEF StrategyTypes
<1>6. Quiet'
  BY <1>1, <1>3 DEF Quiet, CancelAll
<1>7. DeferInv'
  BY <1>0, <1>1, <1>6 DEF DeferInv
<1> QED  BY <1>4, <1>5, <1>7 DEF StrategyInv

LEMMA OthersKeep ==
  ASSUME StrategyInv, OnTrendBar \/ UNCHANGED strategyVars  PROVE StrategyInv'
<1>1. UNCHANGED <<spec, bar, deferred, decisions, out, book, position, sent, flips, stopped>>
  BY DEF OnTrendBar, strategyVars
<1>2. StrategyTypes' /\ LogInv' /\ DeferInv' /\ Entries' = Entries
  BY <1>1, LogSame, EntriesAre DEF StrategyInv, StrategyTypes, DeferInv, Quiet, ClosesOpen, CancelAll, CloseAll
<1>3. WorkInv'
  <2>1. Idle' = Idle /\ \A tag : ClosesOpen(tag)' = ClosesOpen(tag)
    BY <1>1 DEF Idle, Resting, Protected, ClosesOpen
  <2>2. \A side, b : StopFollows(side, b)' = StopFollows(side, b)
    BY <1>1 DEF StopFollows
  <2> QED  BY <1>1, <1>2, <2>1, <2>2 DEF StrategyInv, WorkInv
<1> QED  BY <1>2, <1>3 DEF StrategyInv

LEMMA StrategySteps ==
  ASSUME StrategyInv, [StrategyNext]_strategyVars  PROVE StrategyInv'
BY BarKeeps, DeliverKeeps, ReachedKeeps, StopKeeps, OthersKeep DEF StrategyNext

(* Whatever fills, is reached or fails between the bars, what rests on the   *)
(* exchange belongs to the one entry at work, and every order is told by one *)
(* decision of the log (_submit_composed_entry, _cancel_working, on_bar).    *)
THEOREM TradesAlwaysAccountedFor == StrategySpec => []TradesAreAccountedFor
<1>1. StrategyInit => StrategyInv
  BY StrategyInitially
<1>2. StrategyInv /\ [StrategyNext]_strategyVars => StrategyInv'
  BY StrategySteps
<1>3. StrategyInv => TradesAreAccountedFor
  <2> SUFFICES ASSUME StrategyInv  PROVE TradesAreAccountedFor
    OBVIOUS
  <2>1. CASE out = <<>>
    BY <2>1, AtRest, IdleFits, LogTells DEF StrategyInv, TradesAreAccountedFor
  <2>2. CASE out # <<>>
    BY <2>2, LogTells DEF StrategyInv, TradesAreAccountedFor, BookFitsThePosition, OneEntryAtWork, ProtectionIsOfThePosition
  <2> QED  BY <2>1, <2>2
<1> QED  BY <1>1, <1>2, <1>3, PTL DEF StrategySpec

(* A deferred exit closes the position it was decided for, or one that the  *)
(* bar of its signal turned (on_bar, _pending_exit_reason).                 *)
THEOREM DeferredExitsAlwaysHit == StrategySpec => DeferredExitsHitTheirPosition
<1> DEFINE Hit == (OnBar /\ deferred.exit /\ position.net # 0) =>
       \/ position.of = deferred.saw
       \/ deferred.at \in flips
<1>1. StrategyInit => StrategyInv
  BY StrategyInitially
<1>2. StrategyInv /\ [StrategyNext]_strategyVars => StrategyInv'
  BY StrategySteps
<1>3. StrategyInv /\ [StrategyNext]_strategyVars => [Hit]_strategyVars
  BY DEF StrategyInv, DeferInv
<1> QED  BY <1>1, <1>2, <1>3, PTL DEF StrategySpec, DeferredExitsHitTheirPosition

-----------------------------------------------------------------------------
(* The calendar of walk-forward windows.                                    *)
FirstOf(m) == Day([month |-> m, day |-> 1])
Dates == {d \in [month : Nat, day : 1..31] : d.day <= MonthLength(d.month)}

(* Months follow each other, and n of them take about 30.4375 n days.       *)
LEMMA MonthFacts ==
  ASSUME NEW m \in Nat
  PROVE  /\ MonthLength(m) \in 28..31
         /\ FirstOf(m) \in Int
         /\ FirstOf(m + 1) = FirstOf(m) + MonthLength(m)
         /\ 487 * m - 26 <= 16 * FirstOf(m) /\ 16 * FirstOf(m) <= 487 * m + 21
<1> DEFINE q == m \div 48
           r == m % 48
<1>1. q \in Nat /\ r \in 0..47 /\ m = 48 * q + r
  OBVIOUS
<1>2. m % 12 = r % 12 /\ m \div 12 = 4 * q + r \div 12
  BY <1>1
<1>3. CASE r \in 0..11
  BY <1>1, <1>2, <1>3 DEF FirstOf, Day, MonthLength
<1>4. CASE r \in 12..23
  BY <1>1, <1>2, <1>4 DEF FirstOf, Day, MonthLength
<1>5. CASE r \in 24..35
  BY <1>1, <1>2, <1>5 DEF FirstOf, Day, MonthLength
<1>6. CASE r \in 36..47
  BY <1>1, <1>2, <1>6 DEF FirstOf, Day, MonthLength
<1> QED  BY <1>1, <1>3, <1>4, <1>5, <1>6

LEMMA DateFacts ==
  ASSUME NEW d \in Dates
  PROVE  /\ d.month \in Nat /\ d.day \in 1..31 /\ d.day <= MonthLength(d.month)
         /\ MonthLength(d.month) \in 28..31
<1>1. d.month \in Nat /\ d.day \in 1..31 /\ d.day <= MonthLength(d.month)
  BY DEF Dates
<1> QED  BY <1>1, MonthFacts

LEMMA MovedDate ==
  ASSUME NEW d \in Dates, NEW n \in Nat
  PROVE  /\ AddMonths(d, n) \in Dates
         /\ AddMonths(d, n).month = d.month + n
         /\ AddMonths(d, n).day = Lesser(d.day, MonthLength(d.month + n))
<1>1. d.month + n \in Nat /\ d.month \in Nat /\ d.day \in 1..31
  BY DateFacts
<1>2. MonthLength(d.month + n) \in 28..31
  BY <1>1, MonthFacts
<1>3. Lesser(d.day, MonthLength(d.month + n)) \in 1..31 /\ Lesser(d.day, MonthLength(d.month + n)) <= MonthLength(d.month + n)
  BY <1>1, <1>2 DEF Lesser
<1> QED  BY <1>1, <1>2, <1>3 DEF Dates, AddMonths

LEMMA MonthsLater ==
  ASSUME NEW m \in Nat, NEW k \in Nat
  PROVE  /\ FirstOf(m) \in Int /\ FirstOf(m + k) \in Int
         /\ 487 * k - 47 <= 16 * (FirstOf(m + k) - FirstOf(m))
         /\ 16 * (FirstOf(m + k) - FirstOf(m)) <= 487 * k + 47
<1>1. m + k \in Nat
  OBVIOUS
<1> QED  BY <1>1, MonthFacts

LEMMA DayOfMonth ==
  ASSUME NEW m \in Nat, NEW n \in Int
  PROVE  Day([month |-> m, day |-> n]) = FirstOf(m) + n - 1
BY DEF Day, FirstOf

LEMMA BoundsAre ==
  ASSUME NEW d \in Dates, plan.train \in Nat, plan.test \in Nat
  PROVE  LET m == d.month + plan.train
             e == Lesser(d.day, MonthLength(m))
         IN  /\ Day(Bounds(d).testStart) = FirstOf(m) + e + 1
             /\ \/ /\ e + 2 <= MonthLength(m)
                   /\ Day(Bounds(d).testEnd) = FirstOf(m + plan.test) + Lesser(e + 2, MonthLength(m + plan.test)) - 1
                \/ /\ e + 2 > MonthLength(m)
                   /\ Day(Bounds(d).testEnd) = FirstOf(m + plan.test + 1) + e + 1 - MonthLength(m)
<1> DEFINE m == d.month + plan.train
           e == Lesser(d.day, MonthLength(m))
<1>1. m \in Nat /\ MonthLength(m) \in 28..31 /\ MonthLength(m + plan.test) \in 28..31
      /\ MonthLength(m + 1 + plan.test) \in 28..31
  <2>1. m \in Nat /\ m + plan.test \in Nat /\ m + 1 + plan.test \in Nat
    BY DateFacts
  <2> QED  BY <2>1, MonthFacts
<1>2. e \in 1..31 /\ e <= MonthLength(m) /\ d.month \in Nat /\ d.day \in Nat
  BY <1>1, DateFacts DEF Lesser
<1>3. AddMonths(d, plan.train) = [month |-> m, day |-> e]
  BY DEF AddMonths
<1> HIDE DEF m, e
<1>4. CASE e + 2 <= MonthLength(m)
  <2>1. Bounds(d).testStart = [month |-> m, day |-> e + 2]
    BY <1>3, <1>4 DEF Bounds, AddDays, Embargo
  <2>2. Bounds(d).testEnd = [month |-> m + plan.test, day |-> Lesser(e + 2, MonthLength(m + plan.test))]
    BY <2>1 DEF Bounds, AddMonths
  <2>3. Lesser(e + 2, MonthLength(m + plan.test)) \in Int
    BY <1>1, <1>2 DEF Lesser
  <2>4. Day(Bounds(d).testStart) = FirstOf(m) + (e + 2) - 1
    BY <2>1, <1>1, <1>2, DayOfMonth
  <2>5. Day(Bounds(d).testEnd) = FirstOf(m + plan.test) + Lesser(e + 2, MonthLength(m + plan.test)) - 1
    <3>1. m + plan.test \in Nat
      BY <1>1
    <3> QED  BY <2>2, <2>3, <3>1, DayOfMonth
  <2>6. FirstOf(m) + (e + 2) - 1 = FirstOf(m) + e + 1
    BY <1>1, <1>2, MonthFacts
  <2> QED  BY <2>4, <2>5, <2>6, <1>4 DEF m, e
<1>5. CASE e + 2 > MonthLength(m)
  <2>1. Bounds(d).testStart = [month |-> m + 1, day |-> e + 2 - MonthLength(m)]
    BY <1>1, <1>2, <1>3, <1>5 DEF Bounds, AddDays, Embargo
  <2>2. Lesser(e + 2 - MonthLength(m), MonthLength(m + 1 + plan.test)) = e + 2 - MonthLength(m)
    BY <1>1, <1>2 DEF Lesser
  <2>3. Bounds(d).testEnd = [month |-> m + 1 + plan.test, day |-> e + 2 - MonthLength(m)]
    BY <2>1, <2>2 DEF Bounds, AddMonths
  <2>4. Day(Bounds(d).testStart) = FirstOf(m + 1) + (e + 2 - MonthLength(m)) - 1
    BY <2>1, <1>1, <1>2, DayOfMonth
  <2>5. Day(Bounds(d).testEnd) = FirstOf(m + 1 + plan.test) + (e + 2 - MonthLength(m)) - 1
    BY <2>3, <1>1, <1>2, DayOfMonth
  <2>6. FirstOf(m + 1) = FirstOf(m) + MonthLength(m) /\ FirstOf(m) \in Int /\ FirstOf(m + plan.test + 1) \in Int
        /\ m + 1 + plan.test = m + plan.test + 1
    <3>1. m + plan.test + 1 \in Nat /\ m + 1 + plan.test = m + plan.test + 1
      BY <1>1
    <3> QED  BY <1>1, <3>1, MonthFacts
  <2>7. /\ FirstOf(m + 1) + (e + 2 - MonthLength(m)) - 1 = FirstOf(m) + e + 1
        /\ FirstOf(m + plan.test + 1) + (e + 2 - MonthLength(m)) - 1 = FirstOf(m + plan.test + 1) + e + 1 - MonthLength(m)
    BY <2>6, <1>1, <1>2
  <2> QED  BY <2>4, <2>5, <2>6, <2>7, <1>5 DEF m, e
<1> QED  BY <1>1, <1>2, <1>4, <1>5

(* Two windows that follow each other.                                      *)
LEMMA NextTestIsLater ==
  ASSUME NEW d \in Dates, plan.train \in Nat, plan.test \in Nat, plan.step \in Nat, plan.step >= plan.test
  PROVE  LET shared == Day(Bounds(d).testEnd) - Day(Bounds(Moves(d)).testStart)
         IN  shared <= 3 /\ (plan.step = plan.test => shared >= -2)
<1> DEFINE m == d.month + plan.train
           n == m + plan.step
           e == Lesser(d.day, MonthLength(m))
           c == Moves(d)
           f == Lesser(c.day, MonthLength(n))
<1>1. /\ c \in Dates /\ c.month = d.month + plan.step
      /\ c.day = Lesser(d.day, MonthLength(d.month + plan.step))
  BY MovedDate DEF Moves
<1>2. /\ m \in Nat /\ n \in Nat /\ d.day \in 1..31 /\ c.month + plan.train = n
      /\ MonthLength(m) \in 28..31 /\ MonthLength(n) \in 28..31
      /\ MonthLength(d.month + plan.step) \in 28..31 /\ MonthLength(m + plan.test) \in 28..31
      /\ FirstOf(m + plan.test) \in Int /\ FirstOf(n) \in Int
      /\ FirstOf(m + plan.test + 1) = FirstOf(m + plan.test) + MonthLength(m + plan.test)
  <2>1. d.month \in Nat /\ MonthLength(d.month) \in 28..31 /\ d.day \in 1..MonthLength(d.month)
    BY DateFacts
  <2>2. m \in Nat /\ n \in Nat /\ c.month + plan.train = n /\ d.month + plan.step \in Nat /\ m + plan.test \in Nat
    BY <2>1, <1>1
  <2>3. d.day \in 1..31
    BY <2>1
  <2> HIDE DEF m, n, c
  <2> QED  BY <2>2, <2>3, MonthFacts
<1>3. /\ e \in 1..31 /\ e <= d.day /\ e <= MonthLength(m) /\ (e = d.day \/ e = MonthLength(m))
      /\ f \in 1..31 /\ f <= d.day /\ f <= MonthLength(n) /\ (f = d.day \/ f >= 28)
  BY <1>1, <1>2 DEF Lesser
<1>4. Day(Bounds(c).testStart) = FirstOf(n) + f + 1
  BY <1>1, <1>2, BoundsAre
<1>5. \/ /\ e + 2 <= MonthLength(m)
         /\ Day(Bounds(d).testEnd) = FirstOf(m + plan.test) + Lesser(e + 2, MonthLength(m + plan.test)) - 1
      \/ /\ e + 2 > MonthLength(m)
         /\ Day(Bounds(d).testEnd) = FirstOf(m + plan.test + 1) + e + 1 - MonthLength(m)
  BY BoundsAre
<1>6. n = m + plan.test \/ FirstOf(n) >= FirstOf(m + plan.test + 1)
  <2>1. CASE plan.step = plan.test
    BY <2>1
  <2>2. CASE plan.step > plan.test
    <3>1. PICK k \in Nat : n = (m + plan.test + 1) + k
      <4>1. plan.step - plan.test - 1 \in Nat /\ n = (m + plan.test + 1) + (plan.step - plan.test - 1)
        BY <2>2, <1>2
      <4> QED  BY <4>1
    <3>2. k = 0 \/ k = 1 \/ k >= 2
      BY <3>1
    <3>3. CASE k = 0
      BY <3>1, <3>3, <1>2
    <3>4. CASE k >= 1
      BY <3>1, <3>4, <1>2, MonthsLater
    <3> QED  BY <3>2, <3>3, <3>4
  <2> QED  BY <2>1, <2>2
<1> HIDE DEF m, n, e, c, f
<1>7. plan.step = plan.test => n = m + plan.test
  BY DEF m, n
<1>8. CASE e + 2 <= MonthLength(m)
  BY <1>2, <1>3, <1>4, <1>5, <1>6, <1>7, <1>8 DEF Lesser, c
<1>9. CASE e + 2 > MonthLength(m)
  BY <1>2, <1>3, <1>4, <1>5, <1>6, <1>7, <1>9 DEF c
<1> QED  BY <1>2, <1>3, <1>8, <1>9

-----------------------------------------------------------------------------
(* A plan by the candidate's pace keeps its proportions, and is widened only *)
(* as far as the number of windows allows.                                  *)
PlanInv ==
  \/ plan.by = "form" /\ plan.train \in Int /\ plan.test \in Int /\ plan.step = plan.test
  \/ /\ plan.by = "pace" /\ plan.test \in Nat /\ plan.test >= BaseTest
     /\ plan.train = TrainOf(plan.test) /\ plan.step = StepOf(plan.test)
     /\ plan.test > BaseTest => WindowsFor(plan.test) >= MinWindows

(* The cursor has moved once for each window.                               *)
CursorInv ==
  /\ cursor \in Dates /\ cursor.month = start.month + Len(windows) * plan.step
  /\ cursor.day <= start.day

Goes == plan.step > 0 /\ plan.train > 0 /\ plan.test > 0
Window == [trainEnd : Dates, testStart : Dates, testEnd : Dates]
PlacedInv ==
  /\ windows \in Seq(Window)
  /\ windows # <<>> =>
       Goes /\ \E d \in Dates : windows[Len(windows)] = Bounds(d) /\ cursor = Moves(d)
  /\ \A i \in 1..Len(windows) - 1 :
       \E d \in Dates : windows[i] = Bounds(d) /\ windows[i + 1] = Bounds(Moves(d))
  /\ complete => Goes /\ Day(Bounds(cursor).testEnd) > Day(start) + span

WindowsInv ==
  start \in Dates /\ span \in Nat /\ PlanInv /\ CursorInv /\ PlacedInv

(* a div b is at least k just when a is at least k times b.                 *)
LEMMA QuotientBound ==
  ASSUME NEW a \in Int, NEW b \in Nat \ {0}, NEW k \in Int, a \div b >= k
  PROVE  a >= b * k
<1> DEFINE t == a \div b
<1>1. t \in Int /\ a >= b * t
  OBVIOUS
<1>2. b * (t - k) >= 0 /\ b * (t - k) = b * t - b * k /\ b * k \in Int /\ b * t \in Int
  BY <1>1
<1> QED  BY <1>1, <1>2

LEMMA StepIsLonger ==
  ASSUME NEW t \in Nat, t >= BaseTest
  PROVE  StepOf(t) \in Nat /\ StepOf(t) >= t /\ StepOf(t) >= 3 /\ TrainOf(t) = 3 * t
BY DEF StepOf, TrainOf, BaseTest

(* The longest test is one of those that leave enough windows.              *)
LEMMA LongestTestIsEnough ==
  ASSUME NEW want \in Nat, want > BaseTest
  PROVE  LET t == LongestTest(want)
         IN  t \in BaseTest..want /\ (t = BaseTest \/ WindowsFor(t) >= MinWindows)
<1> DEFINE Enough == {t \in BaseTest..want : t = BaseTest \/ WindowsFor(t) >= MinWindows}
           Lacking == {want - t : t \in Enough}
<1>1. BaseTest \in Enough
  BY DEF BaseTest
<1>2. Lacking \subseteq Nat /\ Lacking # {}
  BY <1>1 DEF BaseTest
<1>3. PICK l \in Lacking : \A y \in Lacking : <<y, l>> \notin OpToRel(<, Nat)
  BY <1>2, NatLessThanWellFounded, WFMin
<1>4. \A y \in Lacking : ~(y < l)
  BY <1>2, <1>3 DEF OpToRel
<1>5. PICK t \in Enough : l = want - t
  OBVIOUS
<1>6. \A u \in Enough : u <= t
  <2> SUFFICES ASSUME NEW u \in Enough  PROVE u <= t
    OBVIOUS
  <2>1. want - u \in Lacking /\ ~(want - u < want - t)
    BY <1>4, <1>5
  <2>2. u \in Int /\ t \in Int
    BY DEF BaseTest
  <2> HIDE DEF Enough, Lacking
  <2> QED  BY <2>1, <2>2
<1>7. LongestTest(want) \in Enough
  BY <1>5, <1>6 DEF LongestTest
<1> QED  BY <1>7

LEMMA WindowsInitially ==
  ASSUME WindowsInit  PROVE WindowsInv
<1>1. start \in Dates /\ span \in Nat /\ cursor \in Dates /\ cursor = start
  BY WindowsAssumption DEF WindowsInit, Dates
<1>2. PlanInv
  <2>1. ASSUME NEW want \in Paces, plan = Widened(want)  PROVE PlanInv
    <3> DEFINE test == IF want <= BaseTest THEN BaseTest ELSE LongestTest(want)
    <3>1. want \in Nat
      BY WindowsAssumption
    <3>2. test \in Nat /\ test >= BaseTest /\ (test > BaseTest => WindowsFor(test) >= MinWindows)
      <4>1. CASE want <= BaseTest
        BY <4>1 DEF BaseTest
      <4>2. CASE want > BaseTest
        BY <3>1, <4>2, LongestTestIsEnough DEF BaseTest
      <4> QED  BY <3>1, <4>1, <4>2 DEF BaseTest
    <3>3. plan = [by |-> "pace", train |-> TrainOf(test), test |-> test, step |-> StepOf(test)]
      BY <2>1 DEF Widened
    <3> HIDE DEF test
    <3> QED  BY <3>2, <3>3 DEF PlanInv
  <2>2. ASSUME NEW form \in Forms, plan = Asked(form)  PROVE PlanInv
    BY <2>2, WindowsAssumption DEF PlanInv, Asked
  <2> QED  BY <2>1, <2>2 DEF WindowsInit
<1>3. plan.step \in Int
  <2>1. CASE plan.by = "pace"
    BY <1>2, <2>1, StepIsLonger DEF PlanInv
  <2>2. CASE plan.by # "pace"
    BY <1>2, <2>2 DEF PlanInv
  <2> QED  BY <2>1, <2>2
<1>4. CursorInv
  <2>1. Len(windows) * plan.step = 0
    <3>1. Len(windows) = 0
      BY DEF WindowsInit
    <3>2. 0 * plan.step = 0
      BY <1>3
    <3> QED  BY <3>1, <3>2
  <2>2. start.month \in Nat /\ start.day \in 1..31
    BY <1>1, DateFacts
  <2>3. cursor.month = start.month + Len(windows) * plan.step
    BY <1>1, <2>1, <2>2
  <2>4. cursor.day <= start.day
    BY <1>1, <2>2
  <2> QED  BY <1>1, <2>3, <2>4 DEF CursorInv
<1>5. PlacedInv
  BY DEF PlacedInv, WindowsInit
<1> QED  BY <1>1, <1>2, <1>4, <1>5 DEF WindowsInv

LEMMA PlanFacts ==
  ASSUME PlanInv, Goes
  PROVE  /\ plan.train \in Nat /\ plan.test \in Nat /\ plan.step \in Nat /\ plan.step >= plan.test
         /\ plan.step > 0
<1>1. CASE plan.by = "pace"
  BY <1>1, StepIsLonger DEF PlanInv, Goes
<1>2. CASE plan.by # "pace"
  BY <1>2 DEF PlanInv, Goes
<1> QED  BY <1>1, <1>2

LEMMA BoundsAreDates ==
  ASSUME NEW d \in Dates, plan.train \in Nat, plan.test \in Nat
  PROVE  Bounds(d) \in Window
<1> DEFINE e == AddMonths(d, plan.train)
           s == AddDays(e, Embargo)
<1>1. e \in Dates
  BY MovedDate
<1>2. s \in Dates
  <2>1. e.month \in Nat /\ e.day \in 1..31 /\ e.day <= MonthLength(e.month) /\ MonthLength(e.month) \in 28..31
        /\ e.month + 1 \in Nat /\ MonthLength(e.month + 1) \in 28..31
    <3>1. e.month \in Nat /\ e.day \in 1..31 /\ e.day <= MonthLength(e.month)
      BY <1>1, DateFacts
    <3>2. e.month + 1 \in Nat
      BY <3>1
    <3> HIDE DEF e
    <3> QED  BY <3>1, <3>2, MonthFacts
  <2>2. CASE e.day + Embargo <= MonthLength(e.month)
    BY <1>1, <2>1, <2>2 DEF AddDays, Embargo, Dates
  <2>3. CASE ~(e.day + Embargo <= MonthLength(e.month))
    <3>1. s = [month |-> e.month + 1, day |-> e.day + 2 - MonthLength(e.month)]
      BY <2>3 DEF AddDays, Embargo
    <3>2. e.day + 2 - MonthLength(e.month) \in 1..2
      BY <2>1, <2>3 DEF Embargo
    <3> QED  BY <2>1, <3>1, <3>2 DEF Dates
  <2> QED  BY <2>2, <2>3
<1>3. AddMonths(s, plan.test) \in Dates
  BY <1>2, MovedDate
<1> QED  BY <1>1, <1>2, <1>3 DEF Bounds, Window

LEMMA WindowsNextKeeps ==
  ASSUME WindowsInv, [WindowsNext]_windowsVars  PROVE WindowsInv'
<1>1. CASE UNCHANGED windowsVars
  <2>1. UNCHANGED <<start, span, plan, cursor, windows, complete>>
    BY <1>1 DEF windowsVars
  <2>2. PlanInv' /\ CursorInv'
    BY <2>1 DEF WindowsInv, PlanInv, CursorInv, WindowsFor
  <2>3. Goes' = Goes /\ (\A d : Bounds(d)' = Bounds(d) /\ Moves(d)' = Moves(d))
        /\ (\A d : Bounds(Moves(d))' = Bounds(Moves(d))) /\ Bounds(cursor)' = Bounds(cursor)
    BY <2>1 DEF Goes, Bounds, Moves
  <2>4. PlacedInv'
    BY <2>1, <2>3 DEF WindowsInv, PlacedInv
  <2> QED  BY <2>1, <2>2, <2>4 DEF WindowsInv
<1>2. CASE NextWindow
  <2>1. /\ Goes /\ ~complete
        /\ UNCHANGED <<start, span, plan>> /\ PlanInv /\ PlanInv' /\ CursorInv /\ PlacedInv
        /\ start \in Dates /\ span \in Nat
    BY <1>2 DEF NextWindow, Goes, WindowsInv, PlanInv, WindowsFor
  <2>2. /\ plan.train \in Nat /\ plan.test \in Nat /\ plan.step \in Nat /\ cursor \in Dates
    BY <2>1, PlanFacts DEF CursorInv
  <2>3. Goes' /\ (\A d : Bounds(d)' = Bounds(d) /\ Moves(d)' = Moves(d))
    BY <2>1 DEF Goes, Bounds, Moves
  <2>4. CASE complete' = TRUE /\ UNCHANGED <<cursor, windows>>
    <3>1. Day(Bounds(cursor).testEnd) > Day(start) + span
      BY <1>2, <2>1, <2>4 DEF NextWindow
    <3>2. CursorInv'
      BY <2>1, <2>4 DEF CursorInv
    <3>3. Bounds(cursor)' = Bounds(cursor)
      BY <2>1, <2>4 DEF Bounds
    <3>4. PlacedInv'
      BY <2>1, <2>3, <2>4, <3>1, <3>3 DEF PlacedInv, Goes, Moves, Bounds
    <3> QED  BY <2>1, <3>2, <3>4 DEF WindowsInv
  <2>5. CASE windows' = Append(windows, Bounds(cursor)) /\ cursor' = Moves(cursor) /\ UNCHANGED complete
    <3> DEFINE n == Len(windows)
    <3>1. Bounds(cursor) \in Window /\ windows \in Seq(Window) /\ n \in Nat
      BY <2>1, <2>2, BoundsAreDates DEF PlacedInv
    <3>2. /\ windows' \in Seq(Window) /\ Len(windows') = n + 1
          /\ windows'[n + 1] = Bounds(cursor)
          /\ \A i \in 1..n : windows'[i] = windows[i]
      BY <2>5, <3>1
    <3>3. CursorInv'
      <4>1. /\ cursor' \in Dates /\ cursor'.month = cursor.month + plan.step
            /\ cursor'.day = Lesser(cursor.day, MonthLength(cursor.month + plan.step))
        BY <2>2, <2>5, MovedDate DEF Moves
      <4>2. cursor'.day <= start.day
        <5>1. cursor.month + plan.step \in Nat /\ cursor.day \in Nat /\ start.day \in Nat /\ cursor.day <= start.day
          <6>1. cursor.month \in Nat /\ cursor.day \in 1..31 /\ start.day \in 1..31
            BY <2>1, <2>2, DateFacts
          <6>2. cursor.day <= start.day
            BY <2>1 DEF CursorInv
          <6> QED  BY <2>2, <6>1, <6>2
        <5>2. MonthLength(cursor.month + plan.step) \in 28..31
          BY <5>1, MonthFacts
        <5> QED  BY <4>1, <5>1, <5>2 DEF Lesser
      <4>3. cursor.month + plan.step = start.month + (n + 1) * plan.step
        <5>1. start.month \in Nat
          BY <2>1, DateFacts
        <5>2. (n + 1) * plan.step = n * plan.step + plan.step
          BY <2>2, <3>1
        <5>3. n * plan.step \in Int
          BY <2>2, <3>1
        <5>4. cursor.month = start.month + n * plan.step
          BY <2>1 DEF CursorInv
        <5> HIDE DEF n
        <5> QED  BY <5>1, <5>2, <5>3, <5>4, <2>2
      <4> QED  BY <2>1, <3>2, <4>1, <4>2, <4>3 DEF CursorInv
    <3>4. \E d \in Dates : windows'[n + 1] = Bounds(d)' /\ cursor' = Moves(d)'
      BY <2>2, <2>3, <2>5, <3>2
    <3>5. ASSUME NEW i \in 1..n
          PROVE  \E d \in Dates : windows'[i] = Bounds(d)' /\ windows'[i + 1] = Bounds(Moves(d))'
      <4>1. CASE i = n
        <5>1. windows # <<>>
          BY <3>1, <3>5
        <5>2. PICK d \in Dates : windows[n] = Bounds(d) /\ cursor = Moves(d)
          BY <2>1, <5>1 DEF PlacedInv
        <5>3. Bounds(Moves(d))' = Bounds(cursor)
          BY <2>1, <5>2 DEF Bounds, Moves
        <5> QED  BY <2>3, <3>2, <3>5, <4>1, <5>2, <5>3
      <4>2. CASE i # n
        <5>1. i \in 1..Len(windows) - 1 /\ i + 1 \in 1..n
          BY <3>1, <3>5, <4>2
        <5>2. PICK d \in Dates : windows[i] = Bounds(d) /\ windows[i + 1] = Bounds(Moves(d))
          BY <2>1, <5>1 DEF PlacedInv
        <5>3. Bounds(Moves(d))' = Bounds(Moves(d))
          BY <2>1 DEF Bounds, Moves
        <5> QED  BY <2>3, <3>2, <3>5, <5>1, <5>2, <5>3
      <4> QED  BY <4>1, <4>2
    <3>6. PlacedInv'
      <4>1. Len(windows') - 1 = n
        BY <3>1, <3>2
      <4> HIDE DEF n
      <4> QED  BY <2>1, <2>3, <2>5, <3>2, <3>4, <3>5, <4>1 DEF PlacedInv
    <3> QED  BY <2>1, <3>3, <3>6 DEF WindowsInv
  <2> QED  BY <1>2, <2>4, <2>5 DEF NextWindow
<1> QED  BY <1>1, <1>2 DEF WindowsNext

LEMMA TestDaysAreCountedOnce ==
  ASSUME WindowsInv  PROVE TestDaysCountOnce
<1> SUFFICES ASSUME NEW i \in 1..Len(windows) - 1
             PROVE  Shared(i) <= 3 /\ (plan.step = plan.test => Shared(i) >= -2)
  BY DEF TestDaysCountOnce
<1>1. PICK d \in Dates : windows[i] = Bounds(d) /\ windows[i + 1] = Bounds(Moves(d))
  BY DEF WindowsInv, PlacedInv
<1>2. windows # <<>>
  BY DEF WindowsInv, PlacedInv
<1>3. plan.train \in Nat /\ plan.test \in Nat /\ plan.step \in Nat /\ plan.step >= plan.test
  BY <1>2, PlanFacts DEF WindowsInv, PlacedInv
<1> QED  BY <1>1, <1>3, NextTestIsLater DEF Shared

LEMMA EnoughWindowsAreLeft ==
  ASSUME WindowsInv  PROVE WideningKeepsWindows
<1> SUFFICES ASSUME complete, plan.by = "pace", plan.test > BaseTest
             PROVE  Len(windows) >= MinWindows - 1
  BY DEF WideningKeepsWindows
<1> DEFINE n == Len(windows)
           t == plan.test
           p == n * plan.step
           x == start.month + (p + 4 * t)
<1>1. /\ Goes /\ PlanInv /\ start \in Dates /\ cursor \in Dates /\ span \in Nat /\ n \in Nat
      /\ Day(Bounds(cursor).testEnd) > Day(start) + span
      /\ cursor.month = start.month + n * plan.step /\ cursor.day <= start.day
  BY DEF WindowsInv, CursorInv, PlacedInv
<1>2. /\ t \in Nat /\ t >= 2 /\ plan.train = 3 * t /\ plan.step = StepOf(t) /\ plan.step \in Nat /\ plan.step >= 3
      /\ WindowsFor(t) >= MinWindows
  BY <1>1, StepIsLonger DEF PlanInv, BaseTest
<1>3. p \in Nat /\ MinWindows \in Nat
  BY <1>1, <1>2, WindowsAssumption
<1>4. SUFFICES ASSUME n + 2 <= MinWindows  PROVE FALSE
  BY <1>1, <1>3
<1>5. 100 * span >= 3044 * (4 * t + p + plan.step)
  <2> DEFINE a == 100 * span - 3044 * (TrainOf(t) + t)
             b == 3044 * StepOf(t)
  <2>1. a \in Int /\ b \in Nat \ {0} /\ a = 100 * span - 3044 * (4 * t) /\ b = 3044 * plan.step
    BY <1>1, <1>2 DEF TrainOf
  <2>2. a \div b >= n + 1
    <3>1. a \div b + 1 >= MinWindows
      BY <1>2 DEF WindowsFor
    <3> HIDE DEF a, b
    <3> QED  BY <1>1, <1>3, <1>4, <2>1, <3>1
  <2>3. a >= b * (n + 1)
    <3> HIDE DEF a, b
    <3> QED  BY <1>1, <2>1, <2>2, QuotientBound
  <2>4. b * (n + 1) = 3044 * (p + plan.step)
    <3>1. (3044 * plan.step) * (n + 1) = 3044 * (n * plan.step + plan.step)
      <4>1. \A i, j \in Nat : (3044 * j) * (i + 1) = 3044 * (i * j + j)
        OBVIOUS
      <4> HIDE DEF n
      <4> QED  BY <1>1, <1>2, <4>1
    <3> QED  BY <2>1, <3>1
  <2> HIDE DEF a, b, p, n, t
  <2>5. 100 * span - 3044 * (4 * t) >= 3044 * (p + plan.step)
    BY <2>1, <2>3, <2>4
  <2> QED  BY <1>1, <1>2, <1>3, <2>5
<1>6. /\ x \in Nat /\ start.month \in Nat /\ start.day \in 1..31
      /\ cursor.month + plan.train + plan.test = x /\ cursor.month + plan.train \in Nat
      /\ cursor.day \in 1..31
      /\ Day(start) = FirstOf(start.month) + start.day - 1
  <2>1. start.month \in Nat /\ start.day \in 1..31 /\ cursor.month \in Nat /\ cursor.day \in 1..31
        /\ start = [month |-> start.month, day |-> start.day]
    BY <1>1, DateFacts DEF Dates
  <2>2. Day(start) = FirstOf(start.month) + start.day - 1
    BY <2>1, DayOfMonth
  <2>3. cursor.month = start.month + p
    BY <1>1
  <2> HIDE DEF p, t
  <2>4. /\ x \in Nat /\ cursor.month + plan.train + t = x /\ cursor.month + plan.train \in Nat
    BY <1>2, <1>3, <2>1, <2>3
  <2> QED  BY <2>1, <2>2, <2>4 DEF t
<1>7. Day(Bounds(cursor).testEnd) \in Int /\ Day(Bounds(cursor).testEnd) <= FirstOf(x) + 32 + start.day
  <2> DEFINE m == cursor.month + plan.train
             e == Lesser(cursor.day, MonthLength(m))
  <2>1. /\ MonthLength(m) \in 28..31 /\ MonthLength(x) \in 28..31 /\ FirstOf(x) \in Int
        /\ FirstOf(x + 1) = FirstOf(x) + MonthLength(x)
    BY <1>6, MonthFacts
  <2>2. e \in 1..31 /\ e <= start.day /\ e <= MonthLength(m)
    <3>1. start.day \in Int /\ cursor.day <= start.day /\ cursor.day \in 1..31
      BY <1>1, <1>6
    <3> HIDE DEF m, x
    <3> QED  BY <2>1, <3>1 DEF Lesser
  <2>3. m + plan.test = x
    BY <1>6
  <2>4. \/ Day(Bounds(cursor).testEnd) = FirstOf(x) + Lesser(e + 2, MonthLength(x)) - 1
        \/ Day(Bounds(cursor).testEnd) = FirstOf(x + 1) + e + 1 - MonthLength(m)
    <3>1. plan.train \in Nat /\ plan.test \in Nat
      BY <1>1, PlanFacts
    <3> QED  BY <1>1, <2>3, <3>1, BoundsAre
  <2> HIDE DEF x, m, e
  <2> QED  BY <1>6, <2>1, <2>2, <2>4 DEF Lesser
<1>8. /\ FirstOf(start.month) \in Int /\ FirstOf(x) \in Int
      /\ 16 * (FirstOf(x) - FirstOf(start.month)) <= 487 * (p + 4 * t) + 47
  <2>1. p + 4 * t \in Nat
    BY <1>2, <1>3
  <2> HIDE DEF p
  <2> QED  BY <1>6, <2>1, MonthsLater
<1> HIDE DEF n, t, p, x
<1>9. span < FirstOf(x) - FirstOf(start.month) + 33
  BY <1>1, <1>6, <1>7, <1>8
<1> QED  BY <1>1, <1>2, <1>3, <1>5, <1>8, <1>9

(* Of the windows of a walk-forward run, from any date, of any length and   *)
(* at any pace, no bar but three is judged twice, none but two is left out, *)
(* and widening leaves as many as it may (backtest_robustness.              *)
(* _wfo_window_bounds, auto.robustness.wfo_window_months).                  *)
THEOREM WindowsAlwaysWhole == WindowsSpec => []WindowsAreWhole
<1>1. WindowsInit => WindowsInv
  BY WindowsInitially
<1>2. WindowsInv /\ [WindowsNext]_windowsVars => WindowsInv'
  BY WindowsNextKeeps
<1>3. WindowsInv => WindowsAreWhole
  BY TestDaysAreCountedOnce, EnoughWindowsAreLeft DEF WindowsAreWhole
<1> QED  BY <1>1, <1>2, <1>3, PTL DEF WindowsSpec

-----------------------------------------------------------------------------
(* The gate of a round: arithmetic and sets.                                *)
LEMMA LeastIsOne ==
  ASSUME NEW S \in SUBSET Nat, S # {}
  PROVE  Min(S) \in S /\ \A y \in S : Min(S) <= y
<1>1. PICK l \in S : \A y \in S : <<y, l>> \notin OpToRel(<, Nat)
  BY NatLessThanWellFounded, WFMin
<1>2. \A y \in S : l <= y
  <2> SUFFICES ASSUME NEW y \in S  PROVE l <= y
    OBVIOUS
  <2>1. l \in Nat /\ y \in Nat /\ ~(y < l)
    BY <1>1 DEF OpToRel
  <2> QED  BY <2>1
<1> QED  BY <1>2 DEF Min

LEMMA LargestIsOne ==
  ASSUME NEW S \in SUBSET Int, S # {}, NEW top \in Int, \A x \in S : x <= top
  PROVE  Max(S) \in S /\ \A y \in S : y <= Max(S)
<1> DEFINE Below == {top - x : x \in S}
<1>1. Below \subseteq Nat /\ Below # {}
  <2>1. \A x \in S : top - x \in Nat
    OBVIOUS
  <2>2. PICK x \in S : TRUE
    OBVIOUS
  <2> QED  BY <2>1, <2>2
<1>2. PICK l \in Below : \A y \in Below : <<y, l>> \notin OpToRel(<, Nat)
  BY <1>1, NatLessThanWellFounded, WFMin
<1>3. PICK m \in S : l = top - m
  OBVIOUS
<1>4. \A y \in S : m >= y
  <2> SUFFICES ASSUME NEW y \in S  PROVE m >= y
    OBVIOUS
  <2>1. top - y \in Below /\ ~(top - y < top - m)
    BY <1>1, <1>2, <1>3 DEF OpToRel
  <2> QED  BY <2>1
<1> HIDE DEF Below
<1> QED  BY <1>4 DEF Max

(* A finite set of numbers is bounded.                                      *)
LEMMA FiniteIsBounded ==
  ASSUME NEW S \in SUBSET Nat, IsFiniteSet(S)
  PROVE  \E top \in Nat : \A x \in S : x <= top
<1>1. PICK n \in Nat : ExistsSurjection(1..n, S)
  BY FS_NatSurjection
<1>2. PICK f \in Surjection(1..n, S) : TRUE
  BY <1>1 DEF ExistsSurjection
<1>3. f \in [1..n -> S] /\ \A x \in S : \E i \in 1..n : f[i] = x
  BY <1>2 DEF Surjection
<1> DEFINE U == {k \in 0..n : \E top \in Nat : \A i \in 1..n-k : f[i] <= top}
<1>4. n \in U
  OBVIOUS
<1>5. PICK u \in U : \A y \in U : u <= y
  <2>1. U \subseteq 0..n
    OBVIOUS
  <2>2. U # {}
    BY <1>4
  <2>3. 0..n \subseteq Nat
    OBVIOUS
  <2> HIDE DEF U
  <2> QED  BY <2>1, <2>2, <2>3, LeastIsOne
<1>6. u \in 0..n
  OBVIOUS
<1>7. PICK t \in Nat : \A i \in 1..n-u : f[i] <= t
  OBVIOUS
<1>8. u = 0
  <2> SUFFICES ASSUME u # 0  PROVE FALSE
    OBVIOUS
  <2>1. u - 1 \in 0..n /\ n - (u - 1) \in 1..n /\ n - (u - 1) = (n - u) + 1
    BY <1>6
  <2>2. f[n - (u - 1)] \in Nat
    BY <1>3, <2>1
  <2>3. PICK s \in Nat : s >= t /\ s >= f[n - (u - 1)]
    <3>1. CASE t >= f[n - (u - 1)]
      BY <3>1
    <3>2. CASE t < f[n - (u - 1)]
      BY <2>2, <3>2
    <3> QED  BY <2>2, <3>1, <3>2
  <2>4. \A i \in 1..n - (u - 1) : f[i] <= s
    <3> TAKE i \in 1..n - (u - 1)
    <3>1. f[i] \in Nat
      <4>1. i \in 1..n
        BY <1>6, <2>1
      <4> QED  BY <1>3, <4>1
    <3>2. i \in 1..n-u \/ i = n - (u - 1)
      BY <1>6
    <3> QED  BY <1>7, <2>2, <2>3, <3>1, <3>2
  <2>5. u - 1 \in U
    BY <2>1, <2>4
  <2>6. u <= u - 1
    BY <1>5, <2>5
  <2> QED  BY <1>1, <1>6, <2>6
<1>9. \A i \in 1..n : f[i] <= t
  <2>1. n - u = n
    BY <1>1, <1>8
  <2> QED  BY <1>7, <2>1
<1> HIDE DEF U
<1> QED  BY <1>3, <1>9

(* Of n things some are lost, the others won.                               *)
LEMMA WonAndLost ==
  ASSUME NEW T, IsFiniteSet(T), NEW W \in SUBSET T
  PROVE  /\ Cardinality(T) \in Nat /\ Cardinality(W) \in Nat /\ Cardinality(T \ W) \in Nat
         /\ Cardinality(W) + Cardinality(T \ W) = Cardinality(T)
         /\ Cardinality(T) = 0 <=> T = {}
<1>1. IsFiniteSet(W) /\ IsFiniteSet(T \ W) /\ IsFiniteSet(W \cup (T \ W))
  BY FS_Subset
<1>2. Cardinality(T) = Cardinality(W) + Cardinality(T \ W) - 0
  <2>1. Cardinality(W \cup (T \ W)) = Cardinality(W) + Cardinality(T \ W) - Cardinality(W \cap (T \ W))
    BY <1>1, FS_Union
  <2>2. W \cup (T \ W) = T /\ W \cap (T \ W) = {}
    OBVIOUS
  <2>3. Cardinality({}) = 0
    BY FS_EmptySet
  <2> QED  BY <2>1, <2>2, <2>3
<1>5. Cardinality(T) \in Nat /\ Cardinality(W) \in Nat /\ Cardinality(T \ W) \in Nat
  BY <1>1, FS_CardinalityType
<1>6. Cardinality(T) = 0 <=> T = {}
  BY FS_EmptySet
<1> QED  BY <1>2, <1>5, <1>6

(* What the stages report of a candidate is what their backtests said.      *)
LEMMA PeersAreFinite ==
  ASSUME NEW me  PROVE IsFiniteSet(Peers(me))
<1> DEFINE asked == {k \in DOMAIN Basket : Basket[k] \notin Excluded(me)}
           first == {k \in asked : Cardinality({j \in asked : j < k}) < PeerSample}
<1>1. IsFiniteSet(first)
  BY GateAssumption, FS_Subset
<1>2. IsFiniteSet({Basket[i] : i \in first})
  <2> DEFINE T == {Basket[i] : i \in first}
             f == [i \in first |-> Basket[i]]
  <2>1. f \in Surjection(first, T)
    BY DEF Surjection
  <2> QED  BY <1>1, <2>1, FS_Surjection
<1> QED  BY <1>2 DEF Peers

PeersAgree(label, say) ==
  /\ say \in {"silent", "against", "for"}
  /\ label = "insufficient" <=> say = "silent"
  /\ label = "symbol specific" <=> say = "against"

LEMMA PeersAgreeAlways ==
  ASSUME NEW me, NEW rows \in [Peers(me) -> PeerFigures \cup {Missing}]
  PROVE  /\ PeersAgree(PeerReport(rows).label, PeersSay(rows))
         /\ PeerReport(rows).rate \in Int
<1> DEFINE valid == {p \in DOMAIN rows : Counts(rows[p])}
           won == {p \in valid : Superior(rows[p])}
           n == Cardinality(valid)
           w == Cardinality(won)
           l == Cardinality(valid \ won)
<1>1. IsFiniteSet(valid)
  BY PeersAreFinite, FS_Subset
<1>2. n \in Nat /\ w \in Nat /\ l \in Nat /\ w + l = n /\ (n = 0 <=> valid = {})
  <2> HIDE DEF valid
  <2> QED  BY <1>1, WonAndLost
<1>3. PeersSay(rows) = IF valid = {} THEN "silent" ELSE IF 5 * l > 3 * n THEN "against" ELSE "for"
  <2>1. {p \in DOMAIN rows : rows[p] # Missing /\ rows[p].trades >= MinTrades /\ rows[p].excess # Missing} = valid
    BY DEF Counts
  <2>2. {p \in valid : ~Superior(rows[p])} = valid \ won
    OBVIOUS
  <2> HIDE DEF valid, won
  <2> QED  BY <2>1, <2>2 DEF PeersSay
<1> DEFINE rate == IF n = 0 THEN 0 ELSE (200 * w + n) \div (2 * n)
           label == IF n = 0 THEN "insufficient" ELSE IF 10 * w >= 7 * n THEN "generalizable"
                    ELSE IF 10 * w >= 4 * n THEN "limited" ELSE "symbol specific"
<1>4. PeerReport(rows).rate = rate /\ PeerReport(rows).label = label
  <2>1. PeerReport(rows) = [rate |-> rate, label |-> label]
    BY DEF PeerReport
  <2> HIDE DEF rate, label
  <2> QED  BY <2>1
<1> HIDE DEF valid, won, n, w, l
<1>5. PeerReport(rows).rate \in Int
  <2>1. CASE n = 0
    BY <1>4, <2>1
  <2>2. CASE n # 0
    <3>1. 2 * n \in Nat \ {0} /\ 200 * w + n \in Int
      BY <1>2, <2>2
    <3>2. (200 * w + n) \div (2 * n) \in Int
      BY <3>1
    <3> QED  BY <1>4, <2>2, <3>2
  <2> QED  BY <2>1, <2>2
<1>6. PeersAgree(PeerReport(rows).label, PeersSay(rows))
  <2>1. PeerReport(rows).label = label
    BY <1>4
  <2>2. 10 * w >= 4 * n <=> ~(5 * l > 3 * n)
    BY <1>2
  <2>3. 10 * w >= 7 * n => 10 * w >= 4 * n
    BY <1>2
  <2> QED  BY <1>2, <1>3, <2>1, <2>2, <2>3 DEF PeersAgree
<1> QED  BY <1>5, <1>6

SplitAgrees(label, say) ==
  /\ say \in {"silent", "against", "for"}
  /\ label \in {"skipped", "unmeasured"} <=> say = "silent"
  /\ label \in {"no edge", "overfitting"} <=> say = "against"

LEMMA SplitAgreesAlways ==
  ASSUME NEW is \in Ratios, NEW oos \in Ratios
  PROVE  SplitAgrees(SplitLabel(is, oos), SlicesSay(is, oos))
<1> DEFINE by == IF is.sharpe # Missing /\ oos.sharpe # Missing THEN "sharpe" ELSE "sortino"
           a == is[by]
           b == oos[by]
<1>1. /\ is = [sharpe |-> is.sharpe, sortino |-> is.sortino]
      /\ oos = [sharpe |-> oos.sharpe, sortino |-> oos.sortino]
      /\ a \in Int \cup {Missing} /\ b \in Int \cup {Missing} /\ IsSharpeMin \in Nat
  BY GateAssumption
<1>2. SplitLabel(is, oos) = SplitOf(a, b)
  BY <1>1 DEF SplitLabel
<1>3. SlicesSay(is, oos) =
        IF Missing \in {a, b} \/ a \in 1..IsSharpeMin - 1 THEN "silent"
        ELSE IF a <= 0 \/ 200 * b < 49 * a THEN "against" ELSE "for"
  BY DEF SlicesSay
<1> HIDE DEF by, a, b
<1>4. CASE a = Missing \/ b = Missing
  BY <1>2, <1>3, <1>4 DEF SplitAgrees, SplitOf
<1>5. CASE a # Missing /\ b # Missing
  <2>1. a \in Int /\ b \in Int
    BY <1>1, <1>5
  <2>2. CASE a < IsSharpeMin
    <3>1. CASE a <= 0
      <4>1. SplitOf(a, b) = "no edge"
        BY <1>5, <3>1 DEF SplitOf
      <4>2. SlicesSay(is, oos) = "against"
        BY <1>1, <1>3, <1>5, <2>1, <3>1
      <4> QED  BY <1>2, <4>1, <4>2 DEF SplitAgrees
    <3>2. CASE a > 0
      <4>1. SplitOf(a, b) = "unmeasured"
        BY <1>5, <2>1, <2>2, <3>2 DEF SplitOf
      <4>2. a \in 1..IsSharpeMin - 1
        BY <1>1, <2>1, <2>2, <3>2
      <4> QED  BY <1>2, <1>3, <4>1, <4>2 DEF SplitAgrees
    <3> QED  BY <2>1, <3>1, <3>2
  <2>3. CASE a >= IsSharpeMin
    <3>1. CASE a <= 0
      <4>1. SplitOf(a, b) = "no edge"
        BY <1>5, <3>1 DEF SplitOf
      <4>2. SlicesSay(is, oos) = "against"
        BY <1>1, <1>3, <1>5, <2>1, <3>1
      <4> QED  BY <1>2, <4>1, <4>2 DEF SplitAgrees
    <3>2. CASE a > 0
      <4> DEFINE s == SplitScore(a, b)
      <4>1. s \in Int /\ (s >= 25 <=> 200 * b >= 49 * a)
        <5>1. s = (200 * b + a) \div (2 * a) /\ 2 * a \in Nat \ {0} /\ 200 * b + a \in Int
          BY <2>1, <3>2 DEF SplitScore
        <5>2. s \in Int /\ (2 * a) * s <= 200 * b + a /\ 200 * b + a < (2 * a) * s + 2 * a
          <6>1. \A x \in Int, y \in Nat \ {0} : x \div y \in Int /\ y * (x \div y) <= x /\ x < y * (x \div y) + y
            OBVIOUS
          <6> QED  BY <5>1, <6>1
        <5>3. s >= 25 => (2 * a) * s >= 50 * a
          <6>1. s >= 25 => (2 * a) * (s - 25) >= 0 /\ (2 * a) * (s - 25) = (2 * a) * s - 50 * a
            BY <2>1, <3>2, <5>2
          <6> QED  BY <2>1, <3>2, <5>2, <6>1
        <5>4. s < 25 => (2 * a) * s <= 48 * a
          <6>1. s < 25 => (2 * a) * (24 - s) >= 0 /\ (2 * a) * (24 - s) = 48 * a - (2 * a) * s
            BY <2>1, <3>2, <5>2
          <6> QED  BY <2>1, <3>2, <5>2, <6>1
        <5> HIDE DEF s
        <5> QED  BY <2>1, <3>2, <5>2, <5>3, <5>4
      <4>2. SplitOf(a, b) = IF s >= 50 THEN "robust" ELSE IF s >= 25 THEN "caution" ELSE "overfitting"
        <5>1. ~(a <= 0) /\ ~(a < IsSharpeMin)
          BY <1>1, <2>1, <2>3, <3>2
        <5> QED  BY <1>5, <5>1 DEF SplitOf
      <4>3. SlicesSay(is, oos) = IF 200 * b < 49 * a THEN "against" ELSE "for"
        BY <1>1, <1>3, <1>5, <2>1, <2>3, <3>2
      <4> HIDE DEF s
      <4> QED  BY <1>2, <2>1, <4>1, <4>2, <4>3 DEF SplitAgrees
    <3> QED  BY <2>1, <3>1, <3>2
  <2> QED  BY <1>1, <2>1, <2>2, <2>3
<1> QED  BY <1>4, <1>5

WalkAgrees(verdict, say) ==
  /\ say \in {"silent", "against", "for"}
  /\ verdict \in {"skipped", "unmeasured"} <=> say = "silent"
  /\ verdict = "failed" <=> say = "against"

LEMMA WalkAgreesAlways ==
  ASSUME NEW n \in Nat, NEW ws \in [1..n -> WindowPairs]
  PROVE  WalkAgrees(WfoVerdict(ws), WindowsSay(ws))
<1> DEFINE valid == ValidWindows(ws)
           won == {i \in valid : BenchmarkRejection(WfoTest(ws[i])) = "none"}
           t == Cardinality(valid)
           w == Cardinality(won)
           l == Cardinality(valid \ won)
<1>1. IsFiniteSet(valid)
  <2>1. IsFiniteSet(1..n)
    BY FS_Interval
  <2>2. valid \subseteq 1..n
    BY DEF ValidWindows
  <2> QED  BY <2>1, <2>2, FS_Subset
<1>2. t \in Nat /\ w \in Nat /\ l \in Nat /\ w + l = t /\ (t = 0 <=> valid = {})
  <2> HIDE DEF valid
  <2> QED  BY <1>1, WonAndLost
<1>3. \A m : BenchmarkRejection(m) = "no_benchmark" <=> m.alpha = Missing /\ m.excess = Missing
  BY DEF BenchmarkRejection
<1> DEFINE dark == {i \in valid : BenchmarkRejection(WfoTest(ws[i])) = "no_benchmark"}
<1>4. WfoVerdict(ws) =
        IF valid = {} THEN "unmeasured" ELSE IF dark # {} THEN "failed"
        ELSE IF t < MinValidWindows THEN "failed"
        ELSE IF 2 * w < t \/ WindowsPenalized(ws) THEN "failed" ELSE "passed"
  BY DEF WfoVerdict
<1>5. WindowsSay(ws) =
        IF valid = {} THEN "silent"
        ELSE IF t < MinValidWindows \/ dark # {} \/ 2 * l > t \/ WindowsPenalized(ws) THEN "against" ELSE "for"
  <2>1. {i \in DOMAIN ws : WfoTest(ws[i]) # Missing /\ WfoTest(ws[i]).trades >= MinTrades} = valid
    BY DEF ValidWindows
  <2>2. {i \in valid : ~Superior(WfoTest(ws[i]))} = valid \ won
    BY DEF Superior
  <2>3. {i \in valid : WfoTest(ws[i]).alpha = Missing /\ WfoTest(ws[i]).excess = Missing} = dark
    BY <1>3
  <2> HIDE DEF valid, won, dark
  <2> QED  BY <2>1, <2>2, <2>3 DEF WindowsSay
<1> HIDE DEF valid, won, dark, t, w, l
<1> QED  BY <1>2, <1>4, <1>5 DEF WalkAgrees

-----------------------------------------------------------------------------
(* What was looked at, and what is sealed.                                  *)
LEMMA LargestOfTwo ==
  ASSUME NEW a \in Int, NEW b \in Int  PROVE Max({a, b}) \in {a, b} /\ Max({a, b}) >= a /\ Max({a, b}) >= b
<1>1. CASE a >= b
  BY <1>1, LargestIsOne
<1>2. CASE a < b
  BY <1>2, LargestIsOne
<1> QED  BY <1>1, <1>2

LEMMA LastOfDays ==
  ASSUME NEW S \in SUBSET Nat, IsFiniteSet(S), S # {}
  PROVE  LastDay(S) \in S /\ LastDay(S) \in Nat /\ \A d \in S : d <= LastDay(S)
<1>1. PICK top \in Nat : \A x \in S : x <= top
  BY FiniteIsBounded
<1>2. S \in SUBSET Int /\ top \in Int
  OBVIOUS
<1> QED  BY <1>1, <1>2, LargestIsOne DEF LastDay

LEMMA TrimmedDays ==
  ASSUME NEW days \in SUBSET Nat, IsFiniteSet(days), days # {}
  PROVE  /\ HoldoutWindow(days) \in Int
         /\ Trimmed(days) \subseteq days /\ IsFiniteSet(Trimmed(days))
         /\ Seals(days) => Trimmed(days) # {}
<1>1. LastDay(days) \in Nat /\ Min(days) \in Nat
  BY LastOfDays, LeastIsOne
<1>2. HoldoutDays \in Int /\ ((LastDay(days) - Min(days)) * HoldoutPercent) \div 100 \in Int
  <2>1. HoldoutDays \in Int /\ (LastDay(days) - Min(days)) * HoldoutPercent \in Int
    BY <1>1, GateAssumption
  <2> QED  BY <2>1
<1>3. HoldoutWindow(days) \in Int
  BY <1>2, LargestOfTwo DEF HoldoutWindow
<1>4. Trimmed(days) \subseteq days
  BY DEF Trimmed
<1>5. IsFiniteSet(Trimmed(days))
  BY <1>4, FS_Subset
<1>6. Seals(days) => Trimmed(days) # {}
  <2>1. Cardinality({}) = 0 /\ MinBars \in Nat \ {0}
    BY FS_EmptySet, GateAssumption
  <2>2. ~(0 >= MinBars)
    BY <2>1
  <2> QED  BY <2>1, <2>2 DEF Seals
<1> QED  BY <1>3, <1>4, <1>5, <1>6

LEMMA TrainingDays ==
  ASSUME NEW days \in SUBSET Nat, IsFiniteSet(days), days # {}
  PROVE  LastDay(Training(days)) \in Training(days) /\ LastDay(Training(days)) \in Nat
<1>1. Training(days) \in SUBSET Nat /\ IsFiniteSet(Training(days)) /\ Training(days) # {}
  BY TrimmedDays DEF Training
<1> QED  BY <1>1, LastOfDays

LEMMA SealedDaysAreLater ==
  ASSUME NEW days \in SUBSET Nat, IsFiniteSet(days), days # {},
         NEW d \in Sealed(days), NEW l \in {0, LastDay(Training(days))}
  PROVE  l + EmbargoDays < d
<1>1. Seals(days) /\ d \in days /\ d >= LastDay(days) - HoldoutWindow(days)
  BY DEF Sealed
<1>2. Training(days) = Trimmed(days)
  BY <1>1 DEF Training
<1> DEFINE t == LastDay(Training(days))
<1>3. t \in Trimmed(days) /\ t \in Nat
  BY <1>2, TrainingDays
<1>4. t < LastDay(days) - HoldoutWindow(days) - EmbargoDays
  BY <1>3 DEF Trimmed
<1>5. LastDay(days) \in Nat /\ HoldoutWindow(days) \in Int /\ EmbargoDays \in Nat /\ d \in Nat
  BY <1>1, LastOfDays, TrimmedDays, GateAssumption
<1>6. l \in {0, t}
  OBVIOUS
<1> HIDE DEF t
<1> QED  BY <1>1, <1>3, <1>4, <1>5, <1>6

(* Of two candidates with the same score the better on its peers is worth   *)
(* more.                                                                    *)
LEMMA WorthMore ==
  ASSUME NEW r \in Int, r # 0, NEW a \in Int, NEW b \in Int,
         Effective(r, 1500 + 85 * a) >= Effective(r, 1500 + 85 * b)
  PROVE  a >= b
<1> DEFINE p == IF r < 0 THEN -r ELSE r
<1>1. p \in Nat \ {0}
  OBVIOUS
<1>2. 10000 * r - (10000 - (1500 + 85 * a)) * p >= 10000 * r - (10000 - (1500 + 85 * b)) * p
  BY DEF Effective
<1> HIDE DEF p
<1>3. (10000 - (1500 + 85 * a)) * p = 8500 * p - 85 * (a * p) /\ a * p \in Int
  BY <1>1
<1>4. (10000 - (1500 + 85 * b)) * p = 8500 * p - 85 * (b * p) /\ b * p \in Int
  BY <1>1
<1>5. a * p >= b * p
  BY <1>1, <1>2, <1>3, <1>4
<1>6. a < b => (b - a) * p > 0 /\ (b - a) * p = b * p - a * p
  BY <1>1
<1> QED  BY <1>3, <1>4, <1>5, <1>6

-----------------------------------------------------------------------------
(* The invariant of the gate.                                               *)
Sections == {"peers", "split", "walk", "sims"}
Answers == {"unasked", "silent", "against", "for"}
Unheard == {"unasked", "silent"}

(* A report says of each section what its backtests said.                   *)
ReportInv ==
  /\ report = [peers |-> report.peers, rate |-> report.rate, split |-> report.split,
               walk |-> report.walk, sims |-> report.sims]
  /\ report.rate \in Int /\ answers \in [Sections -> Answers]
  /\ answers["peers"] \in Unheard <=> report.peers = "insufficient"
  /\ answers["peers"] = "against" <=> report.peers = "symbol specific"
  /\ answers["split"] \in Unheard <=> report.split \in {"skipped", "unmeasured"}
  /\ answers["split"] = "against" <=> report.split \in {"no edge", "overfitting"}
  /\ answers["walk"] \in Unheard <=> report.walk \in {"skipped", "unmeasured"}
  /\ answers["walk"] = "against" <=> report.walk = "failed"
  /\ answers["sims"] \in Unheard <=> report.sims = Missing
  /\ answers["sims"] = "against" <=> report.sims # Missing /\ SimsFailed(report)

(* The sections before a stage have been asked; a candidate judged without  *)
(* all of them has one against it.                                          *)
AskedBefore(stage) ==
  CASE stage \in {"family", "split"} -> {"peers"}
    [] stage = "walk" -> {"peers", "split"}
    [] stage = "sims" -> {"peers", "split", "walk"}
    [] OTHER -> {}
StageInv ==
  /\ \A s \in AskedBefore(scan.at) : answers[s] # "unasked"
  /\ At("judge") /\ (\E s \in Sections : answers[s] = "unasked") => \E s \in Sections : answers[s] = "against"

Stages == {"scan", "peers", "family", "split", "walk", "sims", "judge"}
ScanInv ==
  /\ scan = [at |-> scan.at, rank |-> scan.rank] /\ scan.at \in Stages \cup {"pick", "promote", "over"}
  /\ scan.at \in Stages => scan.rank \in Nat \ {0}
  /\ scan.at \in Stages \ {"scan"} => scan.rank <= Len(Scores)

Passer == [raw : Int, rate : Int, known : BOOLEAN, effective : Int]
Share(p) == IF p.known THEN p.rate ELSE 50
PassersInv ==
  /\ passers \in Seq(Passer)
  /\ \A j \in DOMAIN passers :
       passers[j].effective = Effective(passers[j].raw, 1500 + 85 * Share(passers[j]))
  /\ At("promote") => scan.rank \in DOMAIN passers /\ Best(scan.rank)

(* Nothing was looked at but the days that are not sealed.                  *)
LookInv == looked \in {0, LastDay(Training(candidateOf.days))}

GateInv ==
  candidateOf \in Candidates /\ GateIsSound /\ ReportInv /\ StageInv /\ ScanInv /\ PassersInv /\ LookInv

LEMMA GateInitially ==
  ASSUME GateInit  PROVE GateInv
<1>1. candidateOf \in Candidates /\ GateIsSound /\ LookInv
  BY DEF GateInit, GateIsSound, LookInv
<1>2. ReportInv
  BY DEF GateInit, ReportInv, NoReport, Unasked, Sections, Answers, Unheard
<1>3. scan = [at |-> "scan", rank |-> 1]
  BY DEF GateInit
<1>4. StageInv /\ ScanInv
  BY <1>3 DEF StageInv, AskedBefore, At, ScanInv, Stages
<1>5. PassersInv
  BY <1>3 DEF GateInit, PassersInv, At
<1> QED  BY <1>1, <1>2, <1>4, <1>5 DEF GateInv

(* Verdicts follow from what was heard.                                     *)
LEMMA TallyIsSound ==
  ASSUME ReportInv
  PROVE  Tally(report) <=> /\ {s \in DOMAIN answers : answers[s] = "against"} = {}
                           /\ Cardinality({s \in DOMAIN answers : answers[s] = "for"}) >= Required
<1> DEFINE evaluated == {s \in {"split", "walk", "peers", "sims"} :
                           CASE s = "split" -> SplitEvaluated(report)
                             [] s = "walk"  -> report.walk \notin {"skipped", "unmeasured"}
                             [] s = "peers" -> PeersEvaluated(report)
                             [] s = "sims"  -> report.sims # Missing}
           failed == {s \in evaluated :
                        CASE s = "split" -> SplitFailed(report)
                          [] s = "walk"  -> report.walk = "failed"
                          [] s = "peers" -> report.peers = "symbol specific"
                          [] s = "sims"  -> SimsFailed(report)}
           against == {s \in DOMAIN answers : answers[s] = "against"}
           for == {s \in DOMAIN answers : answers[s] = "for"}
<1>1. answers \in [Sections -> Answers] /\ DOMAIN answers = Sections
  BY DEF ReportInv
<1>2. /\ "split" \in evaluated <=> answers["split"] \notin Unheard
      /\ "walk" \in evaluated <=> answers["walk"] \notin Unheard
      /\ "peers" \in evaluated <=> answers["peers"] \notin Unheard
      /\ "sims" \in evaluated <=> answers["sims"] \notin Unheard
      /\ evaluated \subseteq Sections
  BY DEF ReportInv, SplitEvaluated, PeersEvaluated, Sections
<1>3. /\ "split" \in failed <=> answers["split"] = "against"
      /\ "walk" \in failed <=> answers["walk"] = "against"
      /\ "peers" \in failed <=> answers["peers"] = "against"
      /\ "sims" \in failed <=> answers["sims"] = "against"
      /\ failed \subseteq evaluated
  <2> HIDE DEF evaluated
  <2> QED  BY <1>2 DEF ReportInv, SplitFailed, Unheard
<1>4. Tally(report) <=> failed = {} /\ Cardinality(evaluated) >= Required
  BY DEF Tally
<1> HIDE DEF evaluated, failed
<1>5. failed = against
  BY <1>1, <1>2, <1>3 DEF Sections
<1>6. failed = {} => evaluated = for
  <2> SUFFICES ASSUME failed = {}  PROVE evaluated = for
    OBVIOUS
  <2>1. \A s \in Sections : answers[s] \in Answers /\ answers[s] # "against"
    BY <1>1, <1>5
  <2>2. \A s \in Sections : s \in evaluated <=> answers[s] \notin Unheard
    BY <1>2 DEF Sections
  <2>3. \A s \in Sections : s \in evaluated <=> answers[s] = "for"
    BY <2>1, <2>2 DEF Answers, Unheard
  <2> QED  BY <1>1, <1>2, <2>3
<1> QED  BY <1>4, <1>5, <1>6

LEMMA InvGivesSelection ==
  ASSUME GateInv  PROVE SelectionIsSound
<1>1. EvidenceDecides
  <2> SUFFICES ASSUME At("promote"), NEW j \in DOMAIN passers,
                      passers[scan.rank].raw = passers[j].raw, passers[scan.rank].raw # 0
               PROVE  Share(passers[scan.rank]) >= Share(passers[j])
    BY DEF EvidenceDecides, Share
  <2> DEFINE won == passers[scan.rank]
             other == passers[j]
  <2>1. scan.rank \in DOMAIN passers /\ other.effective <= won.effective
    BY DEF GateInv, PassersInv, Best
  <2>2. won \in Passer /\ other \in Passer
    BY <2>1, ElementOfSeq DEF GateInv, PassersInv
  <2>3. /\ won.effective = Effective(won.raw, 1500 + 85 * Share(won))
        /\ other.effective = Effective(other.raw, 1500 + 85 * Share(other))
    BY <2>1 DEF GateInv, PassersInv
  <2>4. Share(won) \in Int /\ Share(other) \in Int /\ won.raw \in Int /\ won.effective \in Int /\ other.effective \in Int
    BY <2>2 DEF Passer, Share
  <2>5. won.effective >= other.effective
    BY <2>1, <2>4
  <2> DEFINE r == won.raw
  <2>6. Effective(r, 1500 + 85 * Share(won)) >= Effective(r, 1500 + 85 * Share(other))
    BY <2>3, <2>5
  <2>7. r \in Int /\ r # 0
    BY <2>4
  <2>8. Share(won) >= Share(other)
    <3> DEFINE a == Share(won)
               b == Share(other)
    <3>1. a \in Int /\ b \in Int /\ Effective(r, 1500 + 85 * a) >= Effective(r, 1500 + 85 * b)
      BY <2>4, <2>6
    <3> HIDE DEF a, b, r
    <3>2. a >= b
      BY <2>7, <3>1, WorthMore
    <3> QED  BY <3>2 DEF a, b
  <2> QED  BY <2>8
<1>2. SealIsKept
  BY GateAssumption, SealedDaysAreLater DEF GateInv, LookInv, SealIsKept
<1> QED  BY <1>1, <1>2 DEF GateInv, SelectionIsSound

-----------------------------------------------------------------------------
(* Its steps.                                                               *)
gateRest == <<candidateOf, passers, judged, promotion>>

LEMMA GateConstants ==
  ASSUME GateInv
  PROVE  /\ candidateOf.days \in SUBSET Nat /\ IsFiniteSet(candidateOf.days) /\ candidateOf.days # {}
         /\ LastDay(Training(candidateOf.days)) \in Nat
BY GateAssumption, TrainingDays DEF GateInv

(* A stage looks at the days that are not sealed, and no further.           *)
LEMMA LookKeeps ==
  ASSUME GateInv, UNCHANGED candidateOf,
         UNCHANGED looked \/ Looks(LastDay(Training(candidateOf.days)))
  PROVE  LookInv'
<1> DEFINE last == LastDay(Training(candidateOf.days))
<1>1. last \in Nat /\ looked \in {0, last} /\ LookInv' = (looked' \in {0, last})
  BY GateConstants DEF GateInv, LookInv, LastDay, Training, Seals, Trimmed, HoldoutWindow
<1> HIDE DEF last
<1>2. Max({looked, last}) \in {looked, last}
  BY <1>1, LargestOfTwo
<1>3. looked' \in {looked, last}
  BY <1>2 DEF Looks, last
<1> QED  BY <1>1, <1>3

(* Between the stages only the report and the scan move.                    *)
LEMMA StageKeeps ==
  ASSUME GateInv, UNCHANGED gateRest, ReportInv', StageInv', scan.at \in Stages \ {"scan"},
         NEW stage \in Stages \ {"scan"}, GoTo(stage),
         UNCHANGED looked \/ Looks(LastDay(Training(candidateOf.days)))
  PROVE  GateInv'
<1>1. UNCHANGED <<candidateOf, passers, judged, promotion>>
  BY DEF gateRest
<1>2. GateIsSound'
  BY <1>1 DEF GateInv, GateIsSound, Heard, Required
<1>3. scan' = [at |-> stage, rank |-> scan.rank]
  BY DEF GateInv, ScanInv, GoTo
<1>4. ScanInv'
  BY <1>3 DEF GateInv, ScanInv, Stages
<1>5. PassersInv'
  BY <1>1, <1>3 DEF GateInv, PassersInv, At, Stages
<1>6. LookInv'
  BY <1>1, LookKeeps
<1> QED  BY <1>1, <1>2, <1>4, <1>5, <1>6 DEF GateInv

LEMMA TestPeersKeeps ==
  ASSUME GateInv, TestPeers  PROVE GateInv'
<1>1. PICK t \in PeerTests[candidateOf.me] :
        /\ report' = [report EXCEPT !.peers = t.report.label, !.rate = t.report.rate]
        /\ answers' = [answers EXCEPT !["peers"] = t.say]
  BY DEF TestPeers, Said
<1>2. PeersAgree(t.report.label, t.say) /\ t.report.rate \in Int
  <2>1. candidateOf.me \in {c.me : c \in Candidates}
    BY DEF GateInv
  <2>2. PICK rows \in [Peers(candidateOf.me) -> PeerFigures \cup {Missing}] :
          t = [report |-> PeerReport(rows), say |-> PeersSay(rows)]
    BY <2>1 DEF PeerTests
  <2> QED  BY <2>2, PeersAgreeAlways
<1>3. UNCHANGED gateRest /\ ReportInv /\ StageInv /\ At("peers") /\ Looks(PeerEnd)
      /\ GoTo(IF report'.peers = "symbol specific" THEN "judge" ELSE "family")
  BY DEF TestPeers, gateRest, GateInv
<1>4. /\ report' = [peers |-> t.report.label, rate |-> t.report.rate, split |-> report.split,
                    walk |-> report.walk, sims |-> report.sims]
      /\ answers' \in [Sections -> Answers] /\ answers'["peers"] = t.say
      /\ \A s \in Sections \ {"peers"} : answers'[s] = answers[s]
  BY <1>1, <1>2, <1>3 DEF ReportInv, PeersAgree, Sections, Answers
<1>5. SimsFailed(report)' = SimsFailed(report)
  BY <1>3, <1>4 DEF SimsFailed, gateRest, TailFails
<1>6. ReportInv'
  BY <1>2, <1>3, <1>4, <1>5 DEF ReportInv, PeersAgree, Sections, Unheard
<1> DEFINE stage == IF report'.peers = "symbol specific" THEN "judge" ELSE "family"
<1>7. stage \in Stages \ {"scan"} /\ scan.at \in Stages \ {"scan"} /\ scan'.at = stage
  BY <1>3 DEF Stages, At, GoTo, GateInv, ScanInv
<1>8. StageInv'
  BY <1>2, <1>4, <1>7 DEF StageInv, AskedBefore, At, PeersAgree, Sections
<1> QED  BY <1>3, <1>6, <1>7, <1>8, StageKeeps DEF PeerEnd

LEMMA FamilyMedianKeeps ==
  ASSUME GateInv, FamilyMedian  PROVE GateInv'
<1>1. UNCHANGED gateRest /\ UNCHANGED <<report, answers>> /\ scan.at = "family" /\ GoTo("split")
      /\ Looks(LastDay(Training(candidateOf.days)))
  BY DEF FamilyMedian, gateRest, At
<1>2. ReportInv'
  BY <1>1 DEF GateInv, ReportInv, SimsFailed, TailFails, gateRest
<1>3. scan.at \in Stages \ {"scan"} /\ "split" \in Stages \ {"scan"} /\ scan'.at = "split"
  BY <1>1 DEF Stages, GoTo, GateInv, ScanInv
<1>4. StageInv'
  BY <1>1, <1>3 DEF GateInv, StageInv, AskedBefore, At
<1> QED  BY <1>1, <1>2, <1>3, <1>4, StageKeeps

LEMMA TestSlicesKeeps ==
  ASSUME GateInv, TestSlices  PROVE GateInv'
<1>1. PICK t \in SplitTests :
        /\ report' = [report EXCEPT !.split = t.label]
        /\ answers' = [answers EXCEPT !["split"] = t.say]
  BY DEF TestSlices, Said
<1>2. SplitAgrees(t.label, t.say)
  BY SplitAgreesAlways DEF SplitTests
<1>3. UNCHANGED gateRest /\ ReportInv /\ StageInv /\ scan.at = "split"
      /\ Looks(LastDay(Training(candidateOf.days)))
      /\ GoTo(IF SplitFailed(report') THEN "judge" ELSE "walk")
  BY DEF TestSlices, gateRest, GateInv, At
<1>4. /\ report' = [peers |-> report.peers, rate |-> report.rate, split |-> t.label,
                    walk |-> report.walk, sims |-> report.sims]
      /\ answers' \in [Sections -> Answers] /\ answers'["split"] = t.say
      /\ \A s \in Sections \ {"split"} : answers'[s] = answers[s]
  BY <1>1, <1>2, <1>3 DEF ReportInv, SplitAgrees, Sections, Answers
<1>5. SimsFailed(report)' = SimsFailed(report)
  BY <1>3, <1>4 DEF SimsFailed, gateRest, TailFails
<1>6. ReportInv'
  BY <1>2, <1>3, <1>4, <1>5 DEF ReportInv, SplitAgrees, Sections, Unheard
<1> DEFINE stage == IF SplitFailed(report') THEN "judge" ELSE "walk"
<1>7. stage \in Stages \ {"scan"} /\ scan.at \in Stages \ {"scan"} /\ scan'.at = stage
  BY <1>3 DEF Stages, GoTo, GateInv, ScanInv
<1>8. StageInv'
  BY <1>2, <1>3, <1>4, <1>7 DEF StageInv, AskedBefore, At, SplitAgrees, Sections, SplitFailed
<1> QED  BY <1>3, <1>6, <1>7, <1>8, StageKeeps

LEMMA WalkForwardTestKeeps ==
  ASSUME GateInv, WalkForwardTest  PROVE GateInv'
<1>1. PICK t \in WalkTests :
        /\ report' = [report EXCEPT !.walk = t.verdict]
        /\ answers' = [answers EXCEPT !["walk"] = t.say]
  BY DEF WalkForwardTest, Said
<1>2. WalkAgrees(t.verdict, t.say)
  <2>1. PICK ws \in UNION {[1..n -> WindowPairs] : n \in 0..MaxWindows} :
          t = [verdict |-> WfoVerdict(ws), say |-> WindowsSay(ws)]
    BY DEF WalkTests
  <2>2. PICK n \in 0..MaxWindows : ws \in [1..n -> WindowPairs]
    OBVIOUS
  <2>3. n \in Nat
    BY GateAssumption
  <2> QED  BY <2>1, <2>2, <2>3, WalkAgreesAlways
<1>3. UNCHANGED gateRest /\ ReportInv /\ StageInv /\ scan.at = "walk"
      /\ Looks(LastDay(Training(candidateOf.days))) /\ GoTo("sims")
  BY DEF WalkForwardTest, gateRest, GateInv, At
<1>4. /\ report' = [peers |-> report.peers, rate |-> report.rate, split |-> report.split,
                    walk |-> t.verdict, sims |-> report.sims]
      /\ answers' \in [Sections -> Answers] /\ answers'["walk"] = t.say
      /\ \A s \in Sections \ {"walk"} : answers'[s] = answers[s]
  BY <1>1, <1>2, <1>3 DEF ReportInv, WalkAgrees, Sections, Answers
<1>5. SimsFailed(report)' = SimsFailed(report)
  BY <1>3, <1>4 DEF SimsFailed, gateRest, TailFails
<1>6. ReportInv'
  BY <1>2, <1>3, <1>4, <1>5 DEF ReportInv, WalkAgrees, Sections, Unheard
<1>7. "sims" \in Stages \ {"scan"} /\ scan.at \in Stages \ {"scan"} /\ scan'.at = "sims"
  BY <1>3 DEF Stages, GoTo, GateInv, ScanInv
<1>8. StageInv'
  BY <1>2, <1>3, <1>4, <1>7 DEF StageInv, AskedBefore, At, WalkAgrees, Sections
<1> QED  BY <1>3, <1>6, <1>7, <1>8, StageKeeps

LEMMA MonteCarloKeeps ==
  ASSUME GateInv, MonteCarlo  PROVE GateInv'
<1>1. PICK sims \in Simulated \cup {Missing} :
        /\ report' = [report EXCEPT !.sims = sims]
        /\ answers' = [answers EXCEPT !["sims"] = SimsSay(sims)]
  BY DEF MonteCarlo, Said
<1>2. UNCHANGED gateRest /\ ReportInv /\ StageInv /\ scan.at = "sims" /\ UNCHANGED looked /\ GoTo("judge")
  BY DEF MonteCarlo, gateRest, GateInv, At
<1>3. SimsSay(sims) \in {"silent", "against", "for"}
  BY DEF SimsSay
<1>4. /\ report' = [peers |-> report.peers, rate |-> report.rate, split |-> report.split,
                    walk |-> report.walk, sims |-> sims]
      /\ answers' \in [Sections -> Answers] /\ answers'["sims"] = SimsSay(sims)
      /\ \A s \in Sections \ {"sims"} : answers'[s] = answers[s]
  BY <1>1, <1>2, <1>3 DEF ReportInv, Sections, Answers
<1>5. SimsSay(sims) = IF sims = Missing THEN "silent" ELSE IF SimsFailed(report)' THEN "against" ELSE "for"
  BY <1>2, <1>4 DEF SimsFailed, SimsSay, TailFails, gateRest
<1>6. ReportInv'
  BY <1>2, <1>3, <1>4, <1>5 DEF ReportInv, Sections, Unheard
<1>7. "judge" \in Stages \ {"scan"} /\ scan.at \in Stages \ {"scan"} /\ scan'.at = "judge"
  BY <1>2 DEF Stages, GoTo, GateInv, ScanInv
<1>8. StageInv'
  BY <1>2, <1>3, <1>4, <1>7 DEF StageInv, AskedBefore, At, Sections
<1> QED  BY <1>2, <1>6, <1>7, <1>8, StageKeeps

(* Where nothing of a candidate is known yet.                               *)
LEMMA FreshReport ==
  ASSUME report' = NoReport, answers' = Unasked, scan'.at \in {"scan", "peers", "pick"}
  PROVE  ReportInv' /\ StageInv'
<1>1. ReportInv'
  BY DEF ReportInv, NoReport, Unasked, Sections, Answers, Unheard
<1>2. StageInv'
  BY DEF StageInv, AskedBefore, At
<1> QED  BY <1>1, <1>2

LEMMA BeginKeeps ==
  ASSUME GateInv, Begin  PROVE GateInv'
<1>1. /\ UNCHANGED <<candidateOf, passers, looked, promotion>> /\ judged' = {}
      /\ scan.at = "scan" /\ scan.rank <= Len(Scores) /\ scan' = [at |-> "peers", rank |-> scan.rank]
      /\ report' = NoReport /\ answers' = Unasked
  BY DEF Begin, GoTo, At, GateInv, ScanInv
<1>2. ReportInv' /\ StageInv'
  BY <1>1, FreshReport
<1>3. ScanInv' /\ GateIsSound'
  BY <1>1 DEF GateInv, ScanInv, Stages, GateIsSound
<1>4. PassersInv' /\ LookInv'
  BY <1>1, LookKeeps DEF GateInv, PassersInv, At
<1> QED  BY <1>1, <1>2, <1>3, <1>4 DEF GateInv

(* To the next candidate, or to the choice.                                 *)
LEMMA ScanMoves ==
  ASSUME GateInv, UNCHANGED <<candidateOf, passers, looked, promotion>>, judged' \in SUBSET judged,
         report' = NoReport /\ answers' = Unasked,
         (NextCandidate /\ scan.at \in Stages) \/ scan' = [at |-> "pick", rank |-> 0]
  PROVE  GateInv'
<1>1. scan'.at \in {"scan", "pick"} /\ ScanInv'
  <2>1. CASE NextCandidate /\ scan.at \in Stages
    <3>1. scan.rank + 1 \in Nat \ {0}
      BY <2>1 DEF GateInv, ScanInv
    <3> QED  BY <2>1, <3>1 DEF NextCandidate, ScanInv, Stages
  <2>2. CASE scan' = [at |-> "pick", rank |-> 0]
    BY <2>2 DEF ScanInv, Stages
  <2> QED  BY <2>1, <2>2
<1>2. ReportInv' /\ StageInv'
  BY <1>1, FreshReport
<1>3. GateIsSound'
  BY DEF GateInv, GateIsSound, Heard, Required
<1>4. PassersInv' /\ LookInv'
  BY <1>1, LookKeeps DEF GateInv, PassersInv, At
<1> QED  BY <1>1, <1>2, <1>3, <1>4 DEF GateInv

LEMMA SkipDegradedKeeps ==
  ASSUME GateInv, SkipDegraded  PROVE GateInv'
<1>1. UNCHANGED <<candidateOf, report, answers, passers, judged, looked, promotion>> /\ scan.at = "scan"
      /\ scan' = [at |-> "scan", rank |-> scan.rank + 1]
  BY DEF SkipDegraded, NextCandidate, At
<1>2. scan.rank + 1 \in Nat \ {0}
  BY <1>1 DEF GateInv, ScanInv, Stages
<1>3. ScanInv'
  BY <1>1, <1>2 DEF ScanInv, Stages
<1>4. ReportInv' /\ StageInv'
  BY <1>1 DEF GateInv, ReportInv, SimsFailed, TailFails, StageInv, At, AskedBefore
<1>5. GateIsSound'
  BY <1>1 DEF GateInv, GateIsSound, Heard, Required
<1>6. PassersInv' /\ LookInv'
  BY <1>1, LookKeeps DEF GateInv, PassersInv, At
<1> QED  BY <1>1, <1>3, <1>4, <1>5, <1>6 DEF GateInv

LEMMA SuiteFailsKeeps ==
  ASSUME GateInv, SuiteFails  PROVE GateInv'
BY ScanMoves DEF SuiteFails, Stages

LEMMA EndScanKeeps ==
  ASSUME GateInv, EndScan  PROVE GateInv'
BY ScanMoves DEF EndScan

LEMMA JudgeKeeps ==
  ASSUME GateInv, Judge  PROVE GateInv'
<1>1. /\ UNCHANGED <<candidateOf, looked, promotion>> /\ scan.at = "judge"
      /\ scan' = [at |-> "scan", rank |-> scan.rank + 1]
      /\ judged' = {[passed |-> Tally(report), heard |-> answers]}
      /\ report' = NoReport /\ answers' = Unasked
  BY DEF Judge, NextCandidate, At
<1>2. scan.rank \in 1..Len(Scores) /\ Scores \in Seq(Int) /\ scan.rank + 1 \in Nat \ {0}
  BY <1>1, GateAssumption DEF GateInv, ScanInv, Stages
<1>3. ScanInv'
  BY <1>1, <1>2 DEF ScanInv, Stages
<1>4. ReportInv' /\ StageInv'
  BY <1>1, FreshReport
<1>5. GateIsSound'
  <2> DEFINE e == [passed |-> Tally(report), heard |-> answers]
  <2>1. judged' = {e} /\ e.heard = answers /\ (e.passed <=> Tally(report)) /\ Required' = Required
    BY <1>1 DEF Required
  <2>2. /\ Heard(e, "against") = {s \in DOMAIN answers : answers[s] = "against"}
        /\ Heard(e, "for") = {s \in DOMAIN answers : answers[s] = "for"}
        /\ Heard(e, "unasked") = {s \in DOMAIN answers : answers[s] = "unasked"}
    BY DEF Heard
  <2>3. Tally(report) <=> /\ {s \in DOMAIN answers : answers[s] = "against"} = {}
                          /\ Cardinality({s \in DOMAIN answers : answers[s] = "for"}) >= Required
    BY TallyIsSound DEF GateInv
  <2>4. Heard(e, "unasked") # {} => Heard(e, "against") # {}
    BY <1>1, <2>2 DEF GateInv, StageInv, ReportInv, At
  <2>5. /\ e.passed <=> Heard(e, "against") = {} /\ Cardinality(Heard(e, "for")) >= Required
        /\ Heard(e, "unasked") # {} => Heard(e, "against") # {}
    BY <2>1, <2>2, <2>3, <2>4
  <2>6. \A x \in judged' : x = e
    BY <2>1
  <2> HIDE DEF e
  <2> QED  BY <2>1, <2>5, <2>6 DEF GateIsSound, Heard
<1>6. PassersInv'
  <2> DEFINE new == [raw |-> Scores[scan.rank], rate |-> report.rate,
                     known |-> report.peers # "insufficient",
                     effective |-> Effective(Scores[scan.rank], MsScoreFactor(report))]
  <2>1. CASE ~Tally(report)
    BY <1>1, <2>1 DEF Judge, GateInv, PassersInv, At
  <2>2. CASE Tally(report)
    <3>1. passers' = Append(passers, new) /\ passers \in Seq(Passer)
      BY <2>2 DEF Judge, GateInv, PassersInv
    <3>2. Scores[scan.rank] \in Int /\ report.rate \in Int
      BY <1>2, ElementOfSeq DEF GateInv, ReportInv
    <3>3. MsScoreFactor(report) = 1500 + 85 * Share(new) /\ MsScoreFactor(report) \in Int
      <4>1. (new.known <=> report.peers # "insufficient") /\ new.rate = report.rate
        OBVIOUS
      <4> HIDE DEF new
      <4>2. CASE report.peers = "insufficient"
        <5>1. MsScoreFactor(report) = 5750
          BY <4>2 DEF MsScoreFactor
        <5>2. Share(new) = 50
          BY <4>1, <4>2, Zenon DEF Share
        <5> QED  BY <5>1, <5>2
      <4>3. CASE report.peers # "insufficient"
        <5>1. MsScoreFactor(report) = 1500 + 85 * report.rate
          BY <4>3 DEF MsScoreFactor
        <5>2. Share(new) = report.rate
          BY <4>1, <4>3, Zenon DEF Share
        <5> QED  BY <3>2, <5>1, <5>2
      <4> QED  BY <4>2, <4>3
    <3>4. Effective(Scores[scan.rank], MsScoreFactor(report)) \in Int
      BY <3>2, <3>3 DEF Effective
    <3>5. new \in Passer /\ new.effective = Effective(new.raw, 1500 + 85 * Share(new))
      BY <3>2, <3>3, <3>4 DEF Passer
    <3> HIDE DEF new
    <3>6. passers' \in Seq(Passer)
      BY <3>1, <3>5
    <3>7. ASSUME NEW j \in DOMAIN passers'
          PROVE  passers'[j].effective = Effective(passers'[j].raw, 1500 + 85 * Share(passers'[j]))
      <4>1. (j \in DOMAIN passers /\ passers'[j] = passers[j]) \/ passers'[j] = new
        BY <3>1
      <4> QED  BY <3>5, <4>1 DEF GateInv, PassersInv
    <3> QED  BY <1>1, <3>6, <3>7 DEF PassersInv, At
  <2> QED  BY <2>1, <2>2
<1>7. LookInv'
  BY <1>1, LookKeeps
<1> QED  BY <1>1, <1>3, <1>4, <1>5, <1>6, <1>7 DEF GateInv

(* One of those that passed is worth no less than any.                      *)
LEMMA SomeBest ==
  ASSUME PassersInv, passers # <<>>  PROVE \E i \in DOMAIN passers : Best(i)
<1>1. passers \in Seq(Passer) /\ Len(passers) \in Nat \ {0}
  BY DEF PassersInv
<1> DEFINE Worth == {passers[j].effective : j \in DOMAIN passers}
<1>2. \A j \in DOMAIN passers : passers[j].effective \in Int
  <2>1. \A j \in DOMAIN passers : passers[j] \in Passer
    BY <1>1, ElementOfSeq
  <2> QED  BY <2>1 DEF Passer
<1>3. \E top \in Int : \A w \in Worth : w <= top
  <2> DEFINE U == {k \in 0..Len(passers) : \E top \in Int : \A j \in 1..Len(passers) - k : passers[j].effective <= top}
  <2>1. Len(passers) \in U
    BY <1>1
  <2>2. U \subseteq Nat
    BY <1>1
  <2>3. PICK u \in U : \A y \in U : u <= y
    <3> HIDE DEF U
    <3> QED  BY <2>1, <2>2, LeastIsOne
  <2>4. PICK t \in Int : \A j \in 1..Len(passers) - u : passers[j].effective <= t
    OBVIOUS
  <2>5. u \in 0..Len(passers)
    OBVIOUS
  <2>6. u = 0
    <3> SUFFICES ASSUME u # 0  PROVE FALSE
      OBVIOUS
    <3> DEFINE k == Len(passers) - (u - 1)
    <3>1. u - 1 \in 0..Len(passers) /\ k \in 1..Len(passers) /\ k = (Len(passers) - u) + 1
      BY <1>1, <2>5
    <3>2. passers[k].effective \in Int
      BY <1>1, <1>2, <3>1
    <3>3. PICK s \in Int : s >= t /\ s >= passers[k].effective
      <4>1. CASE t >= passers[k].effective
        BY <4>1
      <4>2. CASE t < passers[k].effective
        BY <3>2, <4>2
      <4> QED  BY <3>2, <4>1, <4>2
    <3>4. \A j \in 1..k : passers[j].effective <= s
      <4> TAKE j \in 1..k
      <4>1. j \in 1..Len(passers) /\ (j = k \/ j \in 1..Len(passers) - u)
        <5>1. k \in Int /\ k <= Len(passers) /\ j \in 1..k
          BY <3>1
        <5>2. \A a, b \in Int : a \in 1..b => a = b \/ a <= b - 1
          OBVIOUS
        <5>3. k - 1 = Len(passers) - u
          BY <1>1, <2>5, <3>1
        <5> HIDE DEF k
        <5>4. j = k \/ j <= k - 1
          BY <5>1, <5>2
        <5> QED  BY <1>1, <5>1, <5>3, <5>4
      <4>2. passers[j].effective \in Int
        BY <1>1, <1>2, <4>1
      <4> HIDE DEF k
      <4> QED  BY <2>4, <3>2, <3>3, <4>1, <4>2
    <3>5. u - 1 \in U
      BY <3>1, <3>4
    <3>6. u <= u - 1
      BY <2>3, <3>5
    <3> QED  BY <1>1, <2>5, <3>6
  <2>7. \A j \in 1..Len(passers) : passers[j].effective <= t
    <3>1. Len(passers) - u = Len(passers)
      BY <1>1, <2>6
    <3> QED  BY <2>4, <3>1
  <2> HIDE DEF U
  <2> QED  BY <1>1, <2>7
<1>4. Worth \in SUBSET Int /\ Worth # {}
  <2>1. 1 \in DOMAIN passers
    BY <1>1
  <2> QED  BY <1>2, <2>1
<1>5. Max(Worth) \in Worth /\ \A w \in Worth : w <= Max(Worth)
  <2> HIDE DEF Worth
  <2> QED  BY <1>3, <1>4, LargestIsOne
<1>6. PICK i \in DOMAIN passers : passers[i].effective = Max(Worth)
  BY <1>5
<1> QED  BY <1>5, <1>6 DEF Best

LEMMA PickKeeps ==
  ASSUME GateInv, Pick  PROVE GateInv'
<1> DEFINE Bests == {i \in DOMAIN passers : Best(i)}
<1>1. /\ UNCHANGED <<candidateOf, report, answers, passers, judged, looked, promotion>>
      /\ passers # <<>> /\ scan' = [at |-> "promote", rank |-> Min(Bests)]
  BY DEF Pick
<1>2. Bests \in SUBSET Nat /\ Bests # {}
  <2>1. DOMAIN passers \subseteq Nat
    BY DEF GateInv, PassersInv
  <2> QED  BY <1>1, <2>1, SomeBest DEF GateInv
<1>3. Min(Bests) \in Bests
  <2> HIDE DEF Bests
  <2> QED  BY <1>2, LeastIsOne
<1>4. PassersInv'
  BY <1>1, <1>3 DEF GateInv, PassersInv, Best, At
<1>5. ScanInv' /\ StageInv'
  BY <1>1 DEF ScanInv, Stages, StageInv, AskedBefore, At
<1>6. ReportInv'
  BY <1>1 DEF GateInv, ReportInv, SimsFailed, TailFails
<1>7. GateIsSound'
  BY <1>1 DEF GateInv, GateIsSound, Heard, Required
<1>8. LookInv'
  BY <1>1, LookKeeps
<1> QED  BY <1>1, <1>4, <1>5, <1>6, <1>7, <1>8 DEF GateInv

LEMMA PromoteKeeps ==
  ASSUME GateInv, Promote  PROVE GateInv'
<1>1. /\ UNCHANGED <<candidateOf, report, answers, passers, judged, looked>>
      /\ scan' = [at |-> "over", rank |-> scan.rank]
  BY DEF Promote, GoTo, GateInv, ScanInv
<1>2. ScanInv' /\ StageInv' /\ PassersInv'
  BY <1>1 DEF ScanInv, Stages, StageInv, AskedBefore, At, GateInv, PassersInv
<1>3. ReportInv'
  BY <1>1 DEF GateInv, ReportInv, SimsFailed, TailFails
<1>4. GateIsSound'
  BY <1>1 DEF GateInv, GateIsSound, Heard, Required
<1>5. LookInv'
  BY <1>1, LookKeeps
<1> QED  BY <1>1, <1>2, <1>3, <1>4, <1>5 DEF GateInv

LEMMA GateNextKeeps ==
  ASSUME GateInv, [GateNext]_gateVars  PROVE GateInv'
<1>1. CASE UNCHANGED gateVars
  <2>1. UNCHANGED <<candidateOf, scan, report, answers, passers, judged, looked, promotion>>
    BY <1>1 DEF gateVars
  <2>2. ScanInv' /\ StageInv' /\ PassersInv'
    BY <2>1 DEF ScanInv, StageInv, AskedBefore, At, GateInv, PassersInv, Best
  <2>3. ReportInv'
    BY <2>1 DEF GateInv, ReportInv, SimsFailed, TailFails
  <2>4. GateIsSound'
    BY <2>1 DEF GateInv, GateIsSound, Heard, Required
  <2>5. LookInv'
    BY <2>1, LookKeeps
  <2> QED  BY <2>1, <2>2, <2>3, <2>4, <2>5 DEF GateInv
<1>2. CASE GateNext
  BY <1>2, BeginKeeps, SkipDegradedKeeps, TestPeersKeeps, FamilyMedianKeeps, TestSlicesKeeps,
     WalkForwardTestKeeps, MonteCarloKeeps, SuiteFailsKeeps, JudgeKeeps, EndScanKeeps, PickKeeps,
     PromoteKeeps DEF GateNext
<1> QED  BY <1>1, <1>2

(* Whatever the backtests give, lose or leave out: a candidate passes just  *)
(* when nothing measured is against it and enough could be measured, among  *)
(* equals the one better on its peers wins, and what is sealed was not      *)
(* looked at (_robustness_tally, _ms_score_factor, _split_holdout).         *)
THEOREM SelectionAlwaysSound == GateSpec => []SelectionIsSound
<1>1. GateInit => GateInv
  BY GateInitially
<1>2. GateInv /\ [GateNext]_gateVars => GateInv'
  BY GateNextKeeps
<1>3. GateInv => SelectionIsSound
  BY InvGivesSelection
<1> QED  BY <1>1, <1>2, <1>3, PTL DEF GateSpec

-----------------------------------------------------------------------------
(* A search with and without the pool.                                      *)
(* What a search without the pool computes, one generation from another.    *)
LEMMA GenerationFollows ==
  ASSUME NEW folds, NEW first, NEW draws, NEW last \in Nat \ {0}
  PROVE  LET s == Searched(folds, first, draws, last)
             next(g) == NextPopulation(s[g].pop, Tried(folds, s[g].pop), draws[g + 1])
         IN  /\ s[1] = Generated(folds, first, NoBest)
             /\ \A g \in 1..last - 1 : s[g + 1] = Generated(folds, next(g), s[g].best)
<1> DEFINE From(x, g) == Generated(folds, NextPopulation(x.pop, Tried(folds, x.pop), draws[g]), x.best)
           Step(h, g) == IF g = 1 THEN Generated(folds, first, NoBest) ELSE From(h[g - 1], g)
           Exists(n) == \E h : h = [g \in 1..n |-> Step(h, g)]
           Fails == {n \in 1..last : ~Exists(n)}
<1> HIDE DEF From
<1>1. Fails = {}
  <2> SUFFICES ASSUME Fails # {}  PROVE FALSE
    OBVIOUS
  <2>1. PICK n \in Fails : \A m \in Fails : n <= m
    <3>1. Fails \in SUBSET Nat
      OBVIOUS
    <3> HIDE DEF Fails
    <3> QED  BY <3>1, LeastIsOne
  <2>2. n \in 1..last /\ ~Exists(n)
    OBVIOUS
  <2>3. CASE n = 1
    <3> DEFINE h == [g \in 1..1 |-> Generated(folds, first, NoBest)]
    <3>1. h = [g \in 1..1 |-> Step(h, g)]
      <4>1. \A g \in 1..1 : Step(h, g) = Generated(folds, first, NoBest)
        OBVIOUS
      <4> QED  BY <4>1
    <3> HIDE DEF h
    <3>2. Exists(1)
      BY <3>1
    <3> QED  BY <2>2, <2>3, <3>2
  <2>4. CASE n # 1
    <3>1. n - 1 \in 1..last /\ n - 1 < n
      BY <2>2, <2>4
    <3>2. Exists(n - 1)
      BY <2>1, <3>1
    <3>3. PICK h : h = [g \in 1..n - 1 |-> Step(h, g)]
      BY <3>2
    <3> DEFINE k == [g \in 1..n |-> IF g = n THEN From(h[n - 1], n) ELSE h[g]]
    <3>4. ASSUME NEW g \in 1..n  PROVE k[g] = Step(k, g)
      <4>1. CASE g = n
        <5>1. k[n - 1] = h[n - 1] /\ k[n] = From(h[n - 1], n)
          BY <2>2, <3>1
        <5> QED  BY <2>4, <4>1, <5>1
      <4>2. CASE g # n
        <5>1. g \in 1..n - 1
          BY <2>2, <4>2
        <5>2. k[g] = h[g] /\ h[g] = Step(h, g)
          BY <3>3, <4>2, <5>1
        <5>3. g # 1 => g - 1 \in 1..n /\ g - 1 # n /\ k[g - 1] = h[g - 1]
          BY <2>2, <5>1
        <5> QED  BY <5>2, <5>3
      <4> QED  BY <4>1, <4>2
    <3>5. k = [g \in 1..n |-> Step(k, g)]
      BY <3>4
    <3> HIDE DEF k
    <3>6. Exists(n)
      BY <3>5
    <3> QED  BY <2>2, <3>6
  <2> QED  BY <2>3, <2>4
<1>2. Exists(last)
  BY <1>1
<1> DEFINE s == Searched(folds, first, draws, last)
<1>3. s = CHOOSE h : h = [g \in 1..last |-> Step(h, g)]
  BY Zenon DEF Searched, From
<1>4. s = [g \in 1..last |-> Step(s, g)]
  <2> HIDE DEF s, Step
  <2> QED  BY <1>2, <1>3
<1>5. s[1] = Generated(folds, first, NoBest)
  <2> HIDE DEF s
  <2> QED  BY <1>4
<1>6. ASSUME NEW g \in 1..last - 1
      PROVE  s[g + 1] = From(s[g], g + 1)
  <2>1. g + 1 \in 1..last /\ g + 1 # 1 /\ (g + 1) - 1 = g
    OBVIOUS
  <2> HIDE DEF s
  <2>2. s[g + 1] = Step(s, g + 1)
    BY <1>4, <2>1
  <2> QED  BY <2>1, <2>2
<1> QED  BY <1>5, <1>6 DEF From

(* A score is a number: there are folds enough, and not too many.           *)
LEMMA ScoreIsInt ==
  ASSUME NEW folds \in Seq(0..2), Len(folds) <= MaxFolds, NEW of \in Nat
  PROVE  Score(folds, of) \in Int
<1> DEFINE S == Scored(folds)
           f == [x \in S |-> folds[x]]
           n == Cardinality(DOMAIN f)
           Ones == {x \in DOMAIN f : f[x] = 1}
           k == Cardinality(Ones)
<1>1. CASE S = {} \/ 5 * Cardinality(S) < 3 * of
  BY <1>1 DEF Score, Rejected
<1>2. CASE ~(S = {} \/ 5 * Cardinality(S) < 3 * of)
  <2>1. S \subseteq 1..3 /\ S # {} /\ DOMAIN f = S
    BY <1>2 DEF Scored, MaxFolds
  <2>2. Ones \subseteq S
    OBVIOUS
  <2> HIDE DEF S, Ones
  <2>3. IsFiniteSet(1..3) /\ Cardinality(1..3) = 3
    <3>1. \A a, b \in Int : IsFiniteSet(a..b) /\ Cardinality(a..b) = IF a > b THEN 0 ELSE b - a + 1
      BY FS_Interval
    <3>2. IsFiniteSet(1..3) /\ Cardinality(1..3) = IF 1 > 3 THEN 0 ELSE 3 - 1 + 1
      <4>1. 1 \in Int /\ 3 \in Int
        OBVIOUS
      <4> QED  BY <3>1, <4>1, Zenon
    <3> QED  BY <3>2
  <2>4. IsFiniteSet(S) /\ Cardinality(S) <= 3 /\ Cardinality(S) \in Nat /\ Cardinality(S) # 0
    <3>1. IsFiniteSet(S) /\ Cardinality(S) <= Cardinality(1..3)
      BY <2>1, <2>3, FS_Subset
    <3>2. Cardinality(S) \in Nat
      BY <3>1, FS_CardinalityType
    <3>3. Cardinality(S) # 0
      BY <2>1, <3>1, FS_EmptySet
    <3> QED  BY <2>3, <3>1, <3>2, <3>3
  <2>5. k \in Nat /\ k <= Cardinality(S)
    BY <2>2, <2>4, FS_Subset, FS_CardinalityType
  <2>6. n \in 1..3 /\ k \in 0..n
    BY <2>1, <2>4, <2>5
  <2> HIDE DEF n, k
  <2>7. k * (n - k) \in {0, 1, 2}
    <3>1. n = 1 \/ n = 2 \/ n = 3
      BY <2>6
    <3>2. k = 0 \/ k = 1 \/ k = 2 \/ k = 3
      BY <2>6
    <3> QED  BY <2>6, <3>1, <3>2
  <2>8. Root(k * (n - k)) \in {0, 1000, 1414}
    BY <2>7 DEF Root
  <2>9. (1000 * k - Root(k * (n - k)) \div 2) \div n \in Int
    <3> DEFINE r == Root(k * (n - k))
    <3>1. r \div 2 \in Int
      BY <2>8
    <3>2. n = 1 \/ n = 2 \/ n = 3
      BY <2>6
    <3>3. 1000 * k - r \div 2 \in Int
      BY <2>6, <3>1
    <3> DEFINE m == 1000 * k - r \div 2
    <3> HIDE DEF m
    <3>4. m \in Int
      BY <3>3 DEF m
    <3>5. m \div n \in Int
      BY <3>2, <3>4
    <3> QED  BY <3>5 DEF m
  <2>10. Penalized(f) \in Int
    BY <2>9 DEF Penalized, n, k, Ones
  <2> QED  BY <1>2, <2>10 DEF Score, S
<1> QED  BY <1>1, <1>2

Populations == {pop \in Seq(Values) : Len(pop) \in 1..2}

(* One of the candidates is the elite.                                      *)
LEMMA EliteIsOne ==
  ASSUME NEW told, NEW n \in 1..2, DOMAIN told = 1..n, \A i \in 1..n : told[i].objective \in Int
  PROVE  Elite(told, DOMAIN told) \in 1..n
<1>1. \E i \in 1..n : \A j \in 1..n :
        \/ told[j].objective < told[i].objective
        \/ (told[j].objective = told[i].objective /\ i <= j)
  <2>1. CASE n = 1
    BY <2>1
  <2>2. CASE n = 2
    <3>1. CASE told[1].objective >= told[2].objective
      <4>1. \A j \in 1..n : \/ told[j].objective < told[1].objective
                            \/ (told[j].objective = told[1].objective /\ 1 <= j)
        BY <2>2, <3>1
      <4> QED  BY <4>1
    <3>2. CASE told[1].objective < told[2].objective
      <4>1. \A j \in 1..n : \/ told[j].objective < told[2].objective
                            \/ (told[j].objective = told[2].objective /\ 2 <= j)
        BY <2>2, <3>2
      <4> QED  BY <2>2, <4>1
    <3> QED  BY <2>2, <3>1, <3>2
  <2> QED  BY <2>1, <2>2
<1> QED  BY <1>1 DEF Elite

(* Populations breed populations.                                           *)
LEMMA NextIsPopulation ==
  ASSUME NEW pop \in Populations, NEW told, DOMAIN told = DOMAIN pop, NEW child \in Values,
         \A i \in DOMAIN pop : told[i].objective \in Int
  PROVE  NextPopulation(pop, told, child) \in Populations
<1>1. pop \in Seq(Values) /\ Len(pop) \in 1..2 /\ DOMAIN pop = 1..Len(pop)
  BY DEF Populations
<1>2. Elite(told, DOMAIN told) \in 1..Len(pop)
  BY <1>1, EliteIsOne
<1>3. pop[Elite(told, DOMAIN told)] \in Values
  BY <1>1, <1>2, ElementOfSeq
<1> QED  BY <1>3 DEF NextPopulation, Populations

(* What the draws and the market are, and that neither changes.             *)
WalkTypes ==
  /\ trains \in SUBSET Windows /\ tunable \in BOOLEAN
  /\ measured \in [trains -> [Values -> Folds]] /\ drawn \in [trains -> [1..Generations -> Values]]
  /\ gen \in 1..LastGeneration + 1
  /\ population \in [trains -> Populations]
  /\ DOMAIN best = Windows

SearchOf(w) == Searched(measured[w], First(w), drawn[w], LastGeneration)

(* A window that lost no unit is where the search without a pool is.        *)
InStep ==
  \A w \in trains \ lost :
    /\ best[w] = IF gen = 1 THEN NoBest ELSE SearchOf(w)[gen - 1].best
    /\ gen <= LastGeneration => population[w] = SearchOf(w)[gen].pop

WalkInv == WalkTypes /\ InStep /\ SameWinner

LEMMA WalkInitially ==
  WalkInit => WalkInv
<1> SUFFICES ASSUME WalkInit  PROVE WalkInv
  OBVIOUS
<1>1. LastGeneration \in Nat \ {0} /\ LastGeneration <= Generations
  BY WalkAssumption DEF WalkInit, LastGeneration
<1>2. ASSUME NEW w \in trains  PROVE First(w) \in Populations
  <2>1. drawn[w][1] \in Values /\ 1 \in Values
    BY WalkAssumption DEF WalkInit
  <2> QED  BY <2>1 DEF First, Populations
<1>3. WalkTypes
  BY <1>1, <1>2 DEF WalkInit, WalkTypes
<1>4. ASSUME NEW w \in trains  PROVE best[w] = NoBest /\ population[w] = SearchOf(w)[1].pop
  <2>1. SearchOf(w)[1] = Generated(measured[w], First(w), NoBest)
    BY <1>1, GenerationFollows DEF SearchOf
  <2> QED  BY <2>1 DEF WalkInit, Generated
<1>5. InStep
  BY <1>4 DEF WalkInit, InStep
<1> QED  BY <1>3, <1>5 DEF WalkInit, WalkInv, SameWinner

(* Without a loss the units of a candidate are its folds.                   *)
LEMMA UnitsComeBack ==
  ASSUME WalkTypes, NEW w \in trains, NEW gone, \A u \in gone : u[1] # w
  PROVE  Replies(w, gone) = Tried(measured[w], population[w])
<1>1. ASSUME NEW c \in DOMAIN population[w]
      PROVE  Reply(w, c, gone) = Candidate(population[w][c], measured[w][population[w][c]],
                                           Len(measured[w][population[w][c]]))
  <2> DEFINE folds == measured[w][population[w][c]]
  <2>1. population[w][c] \in Values
    BY ElementOfSeq DEF WalkTypes, Populations
  <2>2. folds \in Seq(0..2)
    BY <2>1, WalkAssumption DEF WalkTypes
  <2>3. \A f : <<w, c, f>> \notin gone
    OBVIOUS
  <2>4. Payload(w, c, gone) = [f \in DOMAIN folds |-> folds[f]]
    BY <2>3 DEF Payload
  <2>5. [f \in DOMAIN folds |-> folds[f]] = folds
    BY <2>2
  <2> QED  BY <2>4, <2>5 DEF Reply
<1> QED  BY <1>1 DEF Replies, Tried

(* Whatever was lost, a reply has a score.                                  *)
LEMMA RepliesAreScored ==
  ASSUME WalkTypes, NEW w \in trains, NEW gone, NEW c \in DOMAIN population[w]
  PROVE  Replies(w, gone)[c].objective \in Int
<1> DEFINE folds == measured[w][population[w][c]]
<1>1. population[w][c] \in Values
  BY ElementOfSeq DEF WalkTypes, Populations
<1>2. folds \in Seq(0..2) /\ Len(folds) <= MaxFolds /\ Len(folds) \in Nat
  BY <1>1, WalkAssumption DEF WalkTypes
<1>3. Payload(w, c, gone) = [f \in 1..Len(folds) |-> IF <<w, c, f>> \in gone THEN NoScore ELSE folds[f]]
  BY <1>2 DEF Payload
<1>4. \A f \in 1..Len(folds) : folds[f] \in 0..2
  BY <1>2, ElementOfSeq
<1> DEFINE p == Payload(w, c, gone)
<1>5. p \in Seq(0..2) /\ Len(p) = Len(folds)
  <2>1. \A f \in 1..Len(folds) : (IF <<w, c, f>> \in gone THEN NoScore ELSE folds[f]) \in 0..2
    BY <1>4 DEF NoScore
  <2>2. p \in [1..Len(folds) -> 0..2]
    BY <1>3, <2>1
  <2> HIDE DEF p
  <2> QED  BY <1>2, <2>2
<1>6. Score(p, Len(folds)) \in Int
  <2> HIDE DEF p, folds
  <2> QED  BY <1>2, <1>5, ScoreIsInt
<1> QED  BY <1>6 DEF Replies, Reply, Candidate

LEMMA GenerationKeeps ==
  ASSUME WalkInv, Generation  PROVE WalkInv'
<1>1. /\ gen <= LastGeneration /\ gen' = gen + 1
      /\ UNCHANGED <<measured, drawn, trains, tunable, entries>>
  BY DEF Generation
<1>2. PICK gone :
        /\ lost' = lost \cup {u[1] : u \in gone}
        /\ best' = [w \in Windows |-> IF w \in trains THEN Reduced(w, gone) ELSE best[w]]
        /\ population' = [w \in trains |->
             IF gen < LastGeneration
             THEN NextPopulation(population[w], Replies(w, gone), drawn[w][gen + 1])
             ELSE population[w]]
  BY DEF Generation
<1>3. /\ LastGeneration' = LastGeneration /\ \A w : First(w)' = First(w)
      /\ \A w : SearchOf(w)' = SearchOf(w)
  BY <1>1 DEF LastGeneration, First, SearchOf
<1>4. gen \in 1..LastGeneration /\ gen + 1 \in 1..LastGeneration + 1
      /\ LastGeneration \in Nat \ {0} /\ LastGeneration <= Generations
  BY <1>1, WalkAssumption DEF WalkInv, WalkTypes, LastGeneration
<1>5. ASSUME NEW w \in trains  PROVE population'[w] \in Populations
  <2>1. population[w] \in Populations
    BY DEF WalkInv, WalkTypes
  <2>2. CASE gen < LastGeneration
    <3>1. drawn[w][gen + 1] \in Values
      <4>1. gen + 1 \in 1..Generations
        BY <1>4, <2>2, WalkAssumption
      <4>2. drawn[w] \in [1..Generations -> Values]
        BY DEF WalkInv, WalkTypes
      <4> QED  BY <4>1, <4>2
    <3>2. DOMAIN Replies(w, gone) = DOMAIN population[w]
      BY DEF Replies
    <3>3. \A c \in DOMAIN population[w] : Replies(w, gone)[c].objective \in Int
      BY RepliesAreScored DEF WalkInv
    <3>4. NextPopulation(population[w], Replies(w, gone), drawn[w][gen + 1]) \in Populations
      BY <2>1, <3>1, <3>2, <3>3, NextIsPopulation
    <3> QED  BY <1>2, <2>2, <3>4
  <2>3. CASE ~(gen < LastGeneration)
    BY <1>2, <2>1, <2>3
  <2> QED  BY <2>2, <2>3
<1>6. WalkTypes'
  BY <1>1, <1>2, <1>3, <1>4, <1>5 DEF WalkInv, WalkTypes
<1>7. ASSUME NEW w \in trains, w \notin lost'
      PROVE  /\ best'[w] = SearchOf(w)[gen].best
             /\ gen < LastGeneration => population'[w] = SearchOf(w)[gen + 1].pop
  <2> DEFINE s == SearchOf(w)
             told == Tried(measured[w], population[w])
  <2>1. w \notin lost /\ w \in Windows /\ \A u \in gone : u[1] # w
    BY <1>2, <1>7 DEF WalkInv, WalkTypes
  <2>2. Replies(w, gone) = told
    BY <2>1, UnitsComeBack DEF WalkInv
  <2>3. /\ population[w] = s[gen].pop
        /\ best[w] = IF gen = 1 THEN NoBest ELSE s[gen - 1].best
    BY <1>1, <2>1 DEF WalkInv, InStep
  <2>4. /\ s[1] = Generated(measured[w], First(w), NoBest)
        /\ \A g \in 1..LastGeneration - 1 :
             s[g + 1] = Generated(measured[w], NextPopulation(s[g].pop, Tried(measured[w], s[g].pop),
                                                             drawn[w][g + 1]), s[g].best)
    BY <1>4, GenerationFollows DEF SearchOf
  <2> HIDE DEF s, told
  <2>5. s[gen] = Generated(measured[w], population[w], best[w])
    <3>1. CASE gen = 1
      BY <2>3, <2>4, <3>1 DEF Generated
    <3>2. CASE gen # 1
      <4>1. gen - 1 \in 1..LastGeneration - 1 /\ (gen - 1) + 1 = gen
        BY <1>4, <3>2
      <4>2. s[gen] = Generated(measured[w], NextPopulation(s[gen - 1].pop,
                       Tried(measured[w], s[gen - 1].pop), drawn[w][gen]), s[gen - 1].best)
        BY <2>4, <4>1
      <4> QED  BY <2>3, <3>2, <4>2 DEF Generated
    <3> QED  BY <3>1, <3>2
  <2>6. s[gen].best = KeptBest(best[w], told)
    BY <2>5 DEF Generated, told
  <2>7. best'[w] = s[gen].best
    BY <1>2, <2>1, <2>2, <2>6 DEF Reduced
  <2>8. ASSUME gen < LastGeneration  PROVE population'[w] = s[gen + 1].pop
    <3>1. gen \in 1..LastGeneration - 1
      BY <1>4, <2>8
    <3>2. s[gen + 1].pop = NextPopulation(s[gen].pop, Tried(measured[w], s[gen].pop), drawn[w][gen + 1])
      <4>1. s[gen + 1] = Generated(measured[w], NextPopulation(s[gen].pop, Tried(measured[w], s[gen].pop),
                                                             drawn[w][gen + 1]), s[gen].best)
        BY <2>4, <3>1
      <4> QED  BY <4>1 DEF Generated
    <3> QED  BY <1>2, <2>2, <2>3, <2>8, <3>2 DEF told
  <2> QED  BY <2>7, <2>8 DEF s
<1>8. InStep'
  <2>1. gen' # 1 /\ gen' - 1 = gen /\ (gen' <= LastGeneration => gen < LastGeneration)
    BY <1>1, <1>4
  <2> QED  BY <1>1, <1>3, <1>7, <2>1 DEF InStep
<1>9. SameWinner'
  <2>1. \A w : Optimised(w)' = Optimised(w)
    BY <1>1, <1>3 DEF Optimised, SearchOf
  <2> QED  BY <1>1, <1>2, <2>1 DEF WalkInv, SameWinner
<1> QED  BY <1>6, <1>8, <1>9 DEF WalkInv

LEMMA TestsKeep ==
  ASSUME WalkInv, Tests  PROVE WalkInv'
<1>1. /\ gen = LastGeneration + 1
      /\ UNCHANGED <<measured, drawn, trains, tunable, gen, population, best, lost>>
      /\ \A w \in Windows : entries'[w].best = Fallback(w)
  BY DEF Tests
<1>2. /\ LastGeneration' = LastGeneration /\ \A w : First(w)' = First(w)
      /\ \A w : SearchOf(w)' = SearchOf(w) /\ Optimised(w)' = Optimised(w)
  BY <1>1 DEF LastGeneration, First, SearchOf, Optimised
<1>3. LastGeneration \in Nat \ {0}
  BY WalkAssumption DEF WalkInv, WalkTypes, LastGeneration
<1>4. WalkTypes' /\ InStep'
  BY <1>1, <1>2 DEF WalkInv, WalkTypes, InStep
<1>5. ASSUME NEW w \in trains \ lost  PROVE entries'[w].best = Optimised(w)
  <2>1. gen # 1 /\ gen - 1 = LastGeneration
    BY <1>1, <1>3
  <2>2. w \in trains /\ w \in Windows
    BY DEF WalkInv, WalkTypes
  <2>3. best[w] = SearchOf(w)[LastGeneration].best
    BY <2>1 DEF WalkInv, InStep
  <2> QED  BY <1>1, <2>2, <2>3 DEF Fallback, Optimised, SearchOf
<1>6. SameWinner'
  BY <1>1, <1>2, <1>5 DEF SameWinner
<1> QED  BY <1>4, <1>6 DEF WalkInv

LEMMA WalkNextKeeps ==
  ASSUME WalkInv, [WalkNext]_walkVars  PROVE WalkInv'
<1>1. CASE Generation
  BY <1>1, GenerationKeeps
<1>2. CASE Tests
  BY <1>2, TestsKeep
<1>3. CASE UNCHANGED walkVars
  <2>1. UNCHANGED <<measured, drawn, trains, tunable, gen, population, best, lost, entries>>
    BY <1>3 DEF walkVars
  <2> QED  BY <2>1 DEF WalkInv, WalkTypes, InStep, SameWinner, SearchOf, Optimised, First, LastGeneration
<1> QED  BY <1>1, <1>2, <1>3 DEF WalkNext

(* Whatever a batch loses of the others, a window that lost no unit is      *)
(* entered with what the search without a pool finds (backtest_robustness.  *)
(* _run_walk_forward_parallel, wfo_optimizer.optimize_window).              *)
THEOREM WinnerAlwaysTheSame == WalkSpec => []SameWinner
<1>1. WalkInit => WalkInv
  BY WalkInitially
<1>2. WalkInv /\ [WalkNext]_walkVars => WalkInv'
  BY WalkNextKeeps
<1>3. WalkInv => SameWinner
  BY DEF WalkInv
<1> QED  BY <1>1, <1>2, <1>3, PTL DEF WalkSpec
=============================================================================
