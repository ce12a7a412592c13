------------------------------ MODULE BarCache ------------------------------
(***************************************************************************)
(* One series of the exchange's bars on disk (data.load_bybit_bars): a     *)
(* parquet file that grows at both ends, a sidecar of the holes the        *)
(* exchange has nothing for, a lock file for whoever writes, and the       *)
(* engine's own catalog that every fetch is copied to afterwards under     *)
(* another lock.  Readers take no lock.  A bar is the number of its open,  *)
(* the bar now is still forming, and a bar fetched while it forms is half  *)
(* a bar.  The exchange is external.                                       *)
(***************************************************************************)
EXTENDS Integers, FiniteSetsExt, Functions

CONSTANTS
  Loaders,     \* threads and processes that load the series
  Requests,    \* from where to where bars are asked for
  Outages,     \* the sets of bars the exchange may lack
  FirstNow,    \* the forming bar at the start
  Horizon,     \* bound: the last bar that forms
  MaxLoads,    \* bound: loads and exports
  MaxFaults    \* bound: copies that fail and callers that die
ASSUME BarAssumption ==
  /\ Horizon \in Nat /\ FirstNow \in 0..Horizon /\ MaxLoads \in Nat /\ MaxFaults \in Nat
  /\ \A o \in Outages : o \subseteq 0..Horizon
  /\ Requests \subseteq Nat \X Nat
  /\ Loaders \cap {"nobody", "dead"} = {}

VARIABLES
  missing,      \* bars the exchange lacks
  now,          \* the bar that forms
  cache,        \* the parquet file: "half" or "final" for each of its bars
  knownEmpty,   \* the sidecar: pairs of first and last
  cacheLock, catalogLock,   \* who holds the lock file, if anybody
  catalog,      \* the engine's catalog, as cache
  call,         \* what each caller is at
  calls, faults,
  buried,       \* half bars a forced refresh of later bars left behind
  contended     \* two copies to the catalog have waited at once

barVars == <<missing, now, cache, knownEmpty, cacheLock, catalogLock, catalog, call, calls, faults,
             buried, contended>>

Nobody == "nobody"
Dead == "dead"          \* the file of a holder that died
NoBars == <<>>
Idle ==
  [at |-> "idle", start |-> 0, end |-> 0, force |-> FALSE, since |-> 0,
   old |-> NoBars, new |-> NoBars, got |-> NoBars]

BarInit ==
  /\ missing \in Outages /\ now = FirstNow /\ calls = 0 /\ faults = 0
  /\ cache = NoBars /\ knownEmpty = {} /\ catalog = NoBars
  /\ cacheLock = Nobody /\ catalogLock = Nobody
  /\ call = [c \in Loaders |-> Idle] /\ buried = {} /\ contended = FALSE

-----------------------------------------------------------------------------
(* Bars.                                                                    *)
FirstBar(bars) == Min(DOMAIN bars)
LastBar(bars) == Max(DOMAIN bars)
Has(bars) == DOMAIN bars # {}

(* What the exchange answers for the bars from one to another, both         *)
(* included.                                                                *)
Fetch(from, to) ==
  [t \in {t \in from..to : t <= now /\ t \notin missing} |-> IF t = now THEN "half" ELSE "final"]

(* The holes between two of its bars, first and last.                       *)
Gaps(bars) ==
  {g \in (1..Horizon) \X (1..Horizon) :
     /\ g[1] <= g[2] /\ g[1] - 1 \in DOMAIN bars /\ g[2] + 1 \in DOMAIN bars
     /\ \A t \in g[1]..g[2] : t \notin DOMAIN bars}
PendingGaps(bars) ==
  {g \in Gaps(bars) : ~\E k \in knownEmpty : k[1] <= g[1] /\ g[2] <= k[2]}

(* Mutant: a file with holes covers what it spans. *)
CoversGaps(bars, start, end) ==
  Has(bars) /\ FirstBar(bars) <= start /\ end <= LastBar(bars)
Covers(bars, start, end) ==
  Has(bars) /\ FirstBar(bars) <= start /\ end <= LastBar(bars) /\ PendingGaps(bars) = {}

(* The newer of two versions of a bar counts.                               *)
Over(newer, older) ==
  [t \in DOMAIN newer \cup DOMAIN older |-> IF t \in DOMAIN newer THEN newer[t] ELSE older[t]]

Within(bars, start, end) == Restrict(bars, {t \in DOMAIN bars : start <= t /\ t < end})

-----------------------------------------------------------------------------
(* load_bybit_bars.                                                         *)
To(c, at) == call' = [call EXCEPT ![c].at = at]

(* A request is answered from the file alone, or has to fetch.              *)
Load(c, start, end, force) ==
  LET asked == [Idle EXCEPT !.start = start, !.end = end, !.force = force, !.since = now]
  IN
  /\ call[c].at = "idle" /\ calls < MaxLoads /\ calls' = calls + 1
  /\ call' = [call EXCEPT ![c] =
       IF ~force /\ Covers(cache, start, end)
       THEN [asked EXCEPT !.at = "read", !.got = Within(cache, start, end)]
       ELSE [asked EXCEPT !.at = "wants"]]
  /\ UNCHANGED <<missing, now, cache, knownEmpty, cacheLock, catalogLock, catalog, faults, buried, contended>>

(* The lock's file is created by one; what a dead holder left is broken     *)
(* once it is old.  The file is read again under the lock.                  *)
(* Mutant: nobody waits for it. *)
LocksAnyway(c) ==
  /\ call[c].at = "wants"
  /\ cacheLock' = c
  /\ call' = [call EXCEPT ![c].at = IF call[c].force \/ ~Has(cache) THEN "window" ELSE "head",
                          ![c].old = cache]
  /\ UNCHANGED <<missing, now, cache, knownEmpty, catalogLock, catalog, calls, faults, buried, contended>>
Locks(c) ==
  /\ call[c].at = "wants" /\ cacheLock \in {Nobody, Dead}
  /\ cacheLock' = c
  /\ call' = [call EXCEPT ![c].at = IF call[c].force \/ ~Has(cache) THEN "window" ELSE "head",
                          ![c].old = cache]
  /\ UNCHANGED <<missing, now, cache, knownEmpty, catalogLock, catalog, calls, faults, buried, contended>>

Gets(c, bars, next) ==
  call' = [call EXCEPT ![c].new = Over(bars, call[c].new), ![c].at = next]

(* A forced refresh, or the first load: the window alone.                   *)
FetchWindow(c) ==
  /\ call[c].at = "window"
  /\ Gets(c, Fetch(call[c].start, call[c].end), "merge")
  /\ UNCHANGED <<missing, now, cache, knownEmpty, cacheLock, catalogLock, catalog, calls, faults, buried, contended>>

(* Otherwise what is older than the file,                                   *)
FetchHead(c) ==
  /\ call[c].at = "head"
  /\ IF call[c].start < FirstBar(call[c].old)
     THEN Gets(c, Fetch(call[c].start, FirstBar(call[c].old)), "gaps")
     ELSE To(c, "gaps")
  /\ UNCHANGED <<missing, now, cache, knownEmpty, cacheLock, catalogLock, catalog, calls, faults, buried, contended>>

(* the holes inside it, those the exchange has nothing for being noted,     *)
FetchGaps(c) ==
  LET pending == PendingGaps(call[c].old)
      Got(g) == Fetch(g[1], g[2])
      filled == {g \in pending : Has(Got(g))}
  IN
  /\ call[c].at = "gaps"
  /\ Gets(c, [t \in UNION {DOMAIN Got(g) : g \in filled} |-> Fetch(t, t)[t]], "tail")
  /\ knownEmpty' = knownEmpty \cup (pending \ filled)
  /\ UNCHANGED <<missing, now, cache, cacheLock, catalogLock, catalog, calls, faults, buried, contended>>

(* and what follows it, its last bar again, which may have been half.       *)
(* Mutant: the bar after the last one is the first to be fetched. *)
FetchTailAfter(c) ==
  /\ call[c].at = "tail"
  /\ IF LastBar(call[c].old) < call[c].end
     THEN Gets(c, Fetch(LastBar(call[c].old) + 1, call[c].end), "merge")
     ELSE To(c, "merge")
  /\ UNCHANGED <<missing, now, cache, knownEmpty, cacheLock, catalogLock, catalog, calls, faults, buried, contended>>
FetchTail(c) ==
  /\ call[c].at = "tail"
  /\ IF LastBar(call[c].old) < call[c].end
     THEN Gets(c, Fetch(LastBar(call[c].old), call[c].end), "merge")
     ELSE To(c, "merge")
  /\ UNCHANGED <<missing, now, cache, knownEmpty, cacheLock, catalogLock, catalog, calls, faults, buried, contended>>

(* A page that fails for good ends the call, and so does a lock that is not *)
(* released in time.                                                        *)
Fails(c) ==
  /\ call[c].at \in {"wants", "window", "head", "gaps", "tail"}
  /\ call[c].at = "wants" => cacheLock # Nobody
  /\ call' = [call EXCEPT ![c] = Idle]
  /\ cacheLock' = IF cacheLock = c THEN Nobody ELSE cacheLock
  /\ UNCHANGED <<missing, now, cache, knownEmpty, catalogLock, catalog, calls, faults, buried, contended>>

(* The new bars over the old ones; the last is left out while it forms.     *)
Merged(c) ==
  LET all == Over(call[c].new, call[c].old)
  IN  IF Has(all) /\ LastBar(all) >= now THEN Restrict(all, DOMAIN all \ {LastBar(all)}) ELSE all

Buried(bars) == {t \in DOMAIN bars : bars[t] = "half" /\ t < LastBar(bars)}

OtherCopies(c) == \E d \in Loaders \ {c} : call[d].at \in {"copies", "exports", "rewrites"}

Merge(c) ==
  /\ call[c].at = "merge" /\ cacheLock' = Nobody
  /\ IF Has(call[c].new)
     THEN /\ cache' = Merged(c) /\ contended' = (contended \/ OtherCopies(c))
          /\ buried' = IF call[c].force THEN buried \cup Buried(Merged(c)) ELSE buried
          /\ call' = [call EXCEPT ![c].at = IF Has(Merged(c)) THEN "copies" ELSE "fetched",
                                  ![c].old = Merged(c),
                                  ![c].got = Within(Merged(c), call[c].start, call[c].end)]
     ELSE /\ call' = [call EXCEPT ![c].at = "fetched",
                                  ![c].got = Within(call[c].old, call[c].start, call[c].end)]
          /\ UNCHANGED <<cache, buried, contended>>
  /\ UNCHANGED <<missing, now, knownEmpty, catalogLock, catalog, calls, faults>>

HandsOver(c) ==
  /\ call[c].at \in {"read", "fetched"}
  /\ call' = [call EXCEPT ![c] = Idle]
  /\ UNCHANGED <<missing, now, cache, knownEmpty, cacheLock, catalogLock, catalog, calls, faults, buried, contended>>

-----------------------------------------------------------------------------
(* The catalog.                                                             *)

(* The button that writes the whole file to the catalog.                    *)
Export(c) ==
  /\ call[c].at = "idle" /\ calls < MaxLoads /\ calls' = calls + 1 /\ Has(cache)
  /\ call' = [call EXCEPT ![c] = [Idle EXCEPT !.at = "exports", !.old = cache, !.since = now]]
  /\ contended' = (contended \/ OtherCopies(c))
  /\ UNCHANGED <<missing, now, cache, knownEmpty, cacheLock, catalogLock, catalog, faults, buried>>

(* What a fetch brought is appended when the catalog has no gaps and starts *)
(* no later; otherwise everything is written again.                         *)
(* Mutant: the gaps are not looked at. *)
MayAppendToGaps(bars) ==
  Has(catalog) /\ FirstBar(bars) >= FirstBar(catalog)
MayAppend(bars) ==
  Has(catalog) /\ FirstBar(bars) >= FirstBar(catalog)
  /\ Cardinality(DOMAIN catalog) = LastBar(catalog) - FirstBar(catalog) + 1

Appended(bars) ==
  Over(catalog, Restrict(bars, {t \in DOMAIN bars : t > LastBar(catalog)}))

Copies(c) ==
  /\ call[c].at \in {"copies", "exports"} /\ catalogLock \in {Nobody, Dead}
  /\ IF call[c].at = "copies" /\ MayAppend(call[c].old)
     THEN /\ catalog' = Appended(call[c].old) /\ To(c, "fetched") /\ UNCHANGED catalogLock
     ELSE /\ catalog' = NoBars /\ To(c, "rewrites") /\ catalogLock' = c
  /\ UNCHANGED <<missing, now, cache, knownEmpty, cacheLock, calls, faults, buried, contended>>

Rewrites(c) ==
  /\ call[c].at = "rewrites"
  /\ catalog' = call[c].old /\ catalogLock' = Nobody /\ To(c, "fetched")
  /\ UNCHANGED <<missing, now, cache, knownEmpty, cacheLock, calls, faults, buried, contended>>

(* A copy that fails, before it starts or between deleting and writing,     *)
(* does not fail the load.                                                  *)
CopyFails(c) ==
  /\ call[c].at \in {"copies", "exports", "rewrites"} /\ faults < MaxFaults /\ faults' = faults + 1
  /\ To(c, "fetched") /\ catalogLock' = IF catalogLock = c THEN Nobody ELSE catalogLock
  /\ UNCHANGED <<missing, now, cache, knownEmpty, cacheLock, catalog, calls, buried, contended>>

-----------------------------------------------------------------------------
(* A process dies with its locks held; a bar closes and the next one forms. *)
Dies(c) ==
  /\ call[c].at # "idle" /\ faults < MaxFaults /\ faults' = faults + 1
  /\ call' = [call EXCEPT ![c] = Idle]
  /\ cacheLock' = IF cacheLock = c THEN Dead ELSE cacheLock
  /\ catalogLock' = IF catalogLock = c THEN Dead ELSE catalogLock
  /\ UNCHANGED <<missing, now, cache, knownEmpty, catalog, calls, buried, contended>>

Ticks ==
  /\ now < Horizon /\ now' = now + 1
  /\ UNCHANGED <<missing, cache, knownEmpty, cacheLock, catalogLock, catalog, call, calls, faults, buried, contended>>

LoadStep(c) ==
  \/ Locks(c) \/ FetchWindow(c) \/ FetchHead(c) \/ FetchGaps(c) \/ FetchTail(c) \/ Merge(c)
  \/ Copies(c) \/ Rewrites(c) \/ HandsOver(c)

BarNext ==
  \/ \E c \in Loaders :
       \/ \E r \in Requests, force \in BOOLEAN : r[2] <= now + 1 /\ Load(c, r[1], r[2], force)
       \/ LoadStep(c) \/ Fails(c) \/ CopyFails(c) \/ Export(c) \/ Dies(c)
  \/ Ticks

BarSpec == BarInit /\ [][BarNext]_barVars

-----------------------------------------------------------------------------
(* Properties.                                                              *)

(* Nothing that was fetched is lost or spoilt, whoever writes at the same   *)
(* time and wherever a writer dies: the read, merge and write of            *)
(* data.load_bybit_bars under _cache_lock.                                  *)
FetchedIsKept ==
  [][\A t \in DOMAIN cache : t \in DOMAIN cache' /\ (cache[t] = "final" => cache'[t] = "final")]_barVars

(* What is read without the lock is finished bars only: half a bar can only *)
(* be the last of the file, which no request answered from it reaches, but  *)
(* where a forced refresh of later bars has left it behind.                 *)
ReadBarsAreFinal ==
  \A c \in Loaders : call[c].at = "read" =>
    \A t \in DOMAIN call[c].got : call[c].got[t] = "final" \/ t \in buried

(* A load, from the file or from the exchange, lacks no bar that was        *)
(* finished when it was asked for and that the exchange has: gaps are       *)
(* filled, and only empty ones are given up.                                *)
LoadsAreComplete ==
  \A c \in Loaders : call[c].at \in {"read", "copies", "fetched"} =>
    \A t \in call[c].start..call[c].end - 1 :
      t < call[c].since /\ t \notin missing => t \in DOMAIN call[c].got

(* An answer is right: finished bars only, and every one there is.          *)
AnswersAreSound == ReadBarsAreFinal /\ LoadsAreComplete

(* Once the calls are over the catalog has the bars of the file, unless a   *)
(* copy failed or two were under way at once, when the older may come last: *)
(* data._auto_write_bybit_catalog and data.write_to_nautilus_catalog, which *)
(* copy what they read before they had the catalog's lock.                  *)
CatalogFollows ==
  (\A c \in Loaders : call[c].at = "idle") /\ faults = 0 /\ ~contended
    => DOMAIN catalog = DOMAIN cache

(* What a backtest is given: right bars from the file, and from the catalog  *)
(* those of the file.                                                        *)
BarsAreSound == AnswersAreSound /\ CatalogFollows
=============================================================================
