---------------------------- MODULE ExternalBars ----------------------------
(***************************************************************************)
(* How the application reads the catalogs that the scripts of EquityIngest *)
(* write while it runs (data.load_external_bars, _external_manifest,       *)
(* _external_catalog_rows).  Nothing locks the scripts out.  A decoded     *)
(* series is kept on disk beside the signature its source had, the         *)
(* manifest in memory beside its own, and the rows of the data page for as *)
(* long as a window lasts.  One series is modelled; a version stands for   *)
(* the names, sizes and times of its files.                                *)
(***************************************************************************)
EXTENDS Integers

CONSTANTS
  Readers,       \* threads that load the series or render the page
  MaxVersions,   \* bound: times a script rewrites the series
  MaxAsks,       \* bound: calls
  Window,        \* _EXTERNAL_ROWS_TTL_S, in ticks
  LastTick,      \* bound: the clock's last tick
  MaxBreaks      \* bound: reads and writes that fail, callers that die

ASSUME ExternalAssumption ==
  /\ MaxVersions \in Nat /\ MaxAsks \in Nat /\ MaxBreaks \in Nat
  /\ Window \in Nat \ {0} /\ LastTick \in Nat
  /\ Readers \cap {"unlocked", "gone"} = {}

VARIABLES
  serving,     \* what the callers of this behaviour read: the caches share nothing
  series,      \* its version in the catalog, None while moved away
  aside,       \* the version a script moved away and may yet put back
  written,     \* versions written so far
  frame, signature,    \* the decoded series on disk and its sidecar
  decodeLock,
  remembered,  \* the manifest in memory: what was read, beside its signature
  roots,       \* the catalogs searched: one appears with the first ingest
  clock,
  page,        \* the rows' window: since when, of which roots, what it holds
  asks,        \* what each caller is at
  called, breaks

sourceVars == <<serving, series, aside, written>>
diskVars == <<frame, signature, decodeLock>>
pageVars == <<roots, clock, page>>
externalVars == <<sourceVars, diskVars, remembered, pageVars, asks, called, breaks>>

None == 0
NoPage == [since |-> -1]
NoRow == -1
Unlocked == "unlocked"
Gone == "gone"            \* the lock file of a caller that died
Rest == [at |-> "rest"]

ExternalInit ==
  /\ serving \in {"series", "manifest", "page"}
  /\ series = 1 /\ aside = None /\ written = 1 /\ roots = 1 /\ clock = 0
  /\ frame = None /\ signature = None /\ decodeLock = Unlocked
  /\ remembered = [sig |-> None, read |-> None] /\ page = NoPage
  /\ asks = [c \in Readers |-> Rest] /\ called = 0 /\ breaks = 0

-----------------------------------------------------------------------------
(* The scripts.  A series is written anew, moved away to make room for     *)
(* another, or put back when that fails; the manifest follows.             *)

(* Whoever has asked may be answered from what there has been since.       *)
Seen(v) ==
  asks' = [c \in Readers |->
    IF asks[c].at = "rest" THEN Rest ELSE [asks[c] EXCEPT !.since = @ \cup {v}]]

WritesSeries == written < MaxVersions /\ written' = written + 1 /\ Seen(written')

ScriptStep ==
  /\ serving # "page" /\ UNCHANGED <<serving, diskVars, remembered, pageVars, called, breaks>>
  /\ \/ WritesSeries /\ series' = written' /\ aside' = None
     \/ /\ serving = "series"
        /\ \/ series # None /\ aside = None /\ series' = None /\ aside' = series
              /\ UNCHANGED <<written, asks>>
           \/ series = None /\ aside # None /\ series' = aside /\ aside' = None
              /\ UNCHANGED written /\ Seen(aside)

-----------------------------------------------------------------------------
(* load_external_bars.                                                      *)
Turns(c, at) == asks' = [asks EXCEPT ![c].at = at]
Leaves(c) == asks' = [asks EXCEPT ![c] = Rest]
Serves(c, got) == asks' = [asks EXCEPT ![c].at = "answered", ![c].got = got]

Calls(c, call) ==
  /\ asks[c].at = "rest" /\ called < MaxAsks /\ called' = called + 1
  /\ asks' = [asks EXCEPT ![c] = call]

(* The files are listed and their signature taken before anything is read; *)
(* with none the caller is refused.                                        *)
LoadSeries(c) ==
  /\ serving = "series" /\ series # None
  /\ Calls(c, [at |-> "compares", sig |-> series, got |-> None, since |-> {series}])
  /\ UNCHANGED <<sourceVars, diskVars, pageVars, remembered, breaks>>

(* _read_cache, without the lock and again under it: the sidecar first.    *)
Compares(c) ==
  /\ \/ /\ asks[c].at = "compares"
        /\ Turns(c, IF frame # None /\ signature = asks[c].sig THEN "reads" ELSE "waits")
     \/ /\ asks[c].at = "compares again"
        /\ Turns(c, IF frame # None /\ signature = asks[c].sig THEN "reads again" ELSE "decodes")
  /\ UNCHANGED <<sourceVars, diskVars, pageVars, remembered, called, breaks>>

Reads(c) ==
  /\ \/ asks[c].at = "reads" /\ UNCHANGED decodeLock
     \/ asks[c].at = "reads again" /\ decodeLock' = Unlocked
  /\ Serves(c, frame)
  /\ UNCHANGED <<sourceVars, pageVars, frame, signature, remembered, called, breaks>>

(* Mutant: decoding waits for nobody. *)
TakesLockAnyway(c) ==
  /\ asks[c].at = "waits"
  /\ decodeLock' = c /\ Turns(c, "compares again")
  /\ UNCHANGED <<sourceVars, pageVars, frame, signature, remembered, called, breaks>>
TakesLock(c) ==
  /\ asks[c].at = "waits" /\ decodeLock \in {Unlocked, Gone}
  /\ decodeLock' = c /\ Turns(c, "compares again")
  /\ UNCHANGED <<sourceVars, pageVars, frame, signature, remembered, called, breaks>>

(* What is decoded is what the catalog has by now; the signature stays the *)
(* one taken at the start.                                                  *)
(* Mutant: the signature of what was decoded is taken once it is decoded. *)
DecodesThenSigns(c) ==
  /\ \/ asks[c].at = "decodes" /\ series # None
        /\ asks' = [asks EXCEPT ![c].got = series, ![c].at = "signs"]
     \/ asks[c].at = "signs" /\ asks' = [asks EXCEPT ![c].sig = series, ![c].at = "writes"]
  /\ UNCHANGED <<sourceVars, diskVars, pageVars, remembered, called, breaks>>
Decodes(c) ==
  /\ asks[c].at = "decodes"
  /\ \/ series # None /\ asks' = [asks EXCEPT ![c].got = series, ![c].at = "writes"]
        /\ UNCHANGED decodeLock
     \/ series = None /\ decodeLock' = Unlocked /\ Leaves(c)
  /\ UNCHANGED <<sourceVars, pageVars, frame, signature, remembered, called, breaks>>

(* The frame is written, then its sidecar; a write that fails leaves the   *)
(* answer as it is.                                                        *)
(* Mutant: the sidecar first. *)
KeepsSignatureFirst(c) ==
  /\ \/ /\ asks[c].at = "writes" /\ signature' = asks[c].sig /\ Turns(c, "seals")
        /\ UNCHANGED <<frame, decodeLock, breaks>>
     \/ /\ asks[c].at = "seals" /\ frame' = asks[c].got /\ Serves(c, asks[c].got)
        /\ decodeLock' = Unlocked /\ UNCHANGED <<signature, breaks>>
  /\ UNCHANGED <<sourceVars, pageVars, remembered, called>>
Keeps(c) ==
  /\ \/ /\ asks[c].at = "writes" /\ frame' = asks[c].got /\ Turns(c, "seals")
        /\ UNCHANGED <<signature, decodeLock, breaks>>
     \/ /\ asks[c].at = "seals" /\ signature' = asks[c].sig /\ Serves(c, asks[c].got)
        /\ decodeLock' = Unlocked /\ UNCHANGED <<frame, breaks>>
     \/ /\ asks[c].at \in {"writes", "seals"} /\ breaks < MaxBreaks /\ breaks' = breaks + 1
        /\ Serves(c, asks[c].got) /\ decodeLock' = Unlocked /\ UNCHANGED <<frame, signature>>
  /\ UNCHANGED <<sourceVars, pageVars, remembered, called>>

Returns(c) ==
  /\ asks[c].at = "answered" /\ Leaves(c)
  /\ UNCHANGED <<sourceVars, diskVars, pageVars, remembered, called, breaks>>

(* A process dies with the lock file in place: it is broken once old.      *)
CallerDies(c) ==
  /\ decodeLock = c /\ breaks < MaxBreaks /\ breaks' = breaks + 1
  /\ decodeLock' = Gone /\ Leaves(c)
  /\ UNCHANGED <<sourceVars, pageVars, frame, signature, remembered, called>>

-----------------------------------------------------------------------------
(* _external_manifest: the signature of the file first, then the file.     *)
OpenManifest(c) ==
  /\ serving = "manifest"
  /\ Calls(c, [at |-> "recalls", sig |-> series, got |-> None, since |-> {series}])
  /\ UNCHANGED <<sourceVars, diskVars, remembered, pageVars, breaks>>

Recalls(c) ==
  /\ asks[c].at = "recalls"
  /\ IF remembered.sig = asks[c].sig THEN Serves(c, remembered.read)
     ELSE asks' = [asks EXCEPT ![c].got = series, ![c].at = "remembers"]
  /\ UNCHANGED <<sourceVars, diskVars, remembered, pageVars, called, breaks>>

(* A file the system refuses to read is answered as unknown and not kept.   *)
ManifestUnread(c) ==
  /\ asks[c].at = "recalls" /\ remembered.sig # asks[c].sig
  /\ breaks < MaxBreaks /\ breaks' = breaks + 1 /\ Leaves(c)
  /\ UNCHANGED <<sourceVars, diskVars, remembered, pageVars, called>>

Remembers(c) ==
  /\ asks[c].at = "remembers" /\ Serves(c, asks[c].got)
  /\ remembered' = [sig |-> asks[c].sig, read |-> asks[c].got]
  /\ UNCHANGED <<sourceVars, diskVars, pageVars, called, breaks>>

-----------------------------------------------------------------------------
(* _external_catalog_rows, a window at a time.                              *)
OpenPage(c) ==
  /\ serving = "page"
  /\ Calls(c, [at |-> "looks", began |-> clock, stamp |-> clock, roots |-> roots,
              scanned |-> NoRow, row |-> NoRow])
  /\ UNCHANGED <<sourceVars, diskVars, pageVars, remembered, breaks>>

Lasts(since) == clock - since < Window

(* _external_catalog_window: the one there is, or a scan outside the lock  *)
(* for another one that counts from before the scan.                       *)
Looks(c) ==
  /\ asks[c].at = "looks"
  /\ asks' = [asks EXCEPT ![c] =
       IF page # NoPage /\ page.roots = roots /\ Lasts(page.since)
       THEN [@ EXCEPT !.at = "rows", !.stamp = page.since, !.row = page.row,
                      !.scanned = page.scanned]
       ELSE [@ EXCEPT !.at = "scans", !.stamp = clock, !.roots = roots]]
  /\ UNCHANGED <<sourceVars, diskVars, pageVars, remembered, called, breaks>>

Scans(c) ==
  /\ asks[c].at = "scans"
  /\ asks' = [asks EXCEPT ![c].at = "opens", ![c].scanned = clock]
  /\ UNCHANGED <<sourceVars, diskVars, pageVars, remembered, called, breaks>>

(* Mutant: a window counts from when it is stored. *)
OpensNow(c) ==
  /\ asks[c].at = "opens"
  /\ page' = [since |-> clock, roots |-> asks[c].roots, scanned |-> asks[c].scanned, row |-> NoRow]
  /\ asks' = [asks EXCEPT ![c].at = "rows", ![c].stamp = clock]
  /\ UNCHANGED <<sourceVars, diskVars, roots, clock, remembered, called, breaks>>
Opens(c) ==
  /\ asks[c].at = "opens"
  /\ page' = [since |-> asks[c].stamp, roots |-> asks[c].roots, scanned |-> asks[c].scanned, row |-> NoRow]
  /\ Turns(c, "rows")
  /\ UNCHANGED <<sourceVars, diskVars, roots, clock, remembered, called, breaks>>

(* A row not among the window's is read from its files and the manifest.   *)
Row(c) ==
  /\ asks[c].at = "rows"
  /\ IF asks[c].row # NoRow THEN Turns(c, "answered")
     ELSE asks' = [asks EXCEPT ![c].row = clock, ![c].at = "adds"]
  /\ UNCHANGED <<sourceVars, diskVars, pageVars, remembered, called, breaks>>

(* The row joins the window it was read for, if that is still the one.     *)
(* Mutant: it joins whichever there is. *)
AddsToAny(c) ==
  /\ asks[c].at = "adds" /\ Turns(c, "answered")
  /\ page' = IF page # NoPage
             THEN [page EXCEPT !.row = asks[c].row] ELSE page
  /\ UNCHANGED <<sourceVars, diskVars, roots, clock, remembered, called, breaks>>
Adds(c) ==
  /\ asks[c].at = "adds" /\ Turns(c, "answered")
  /\ page' = IF page.since = asks[c].stamp
             THEN [page EXCEPT !.row = asks[c].row] ELSE page
  /\ UNCHANGED <<sourceVars, diskVars, roots, clock, remembered, called, breaks>>

-----------------------------------------------------------------------------
Passes ==
  /\ serving = "page"
  /\ \/ clock < LastTick /\ clock' = clock + 1 /\ roots' = roots
     \/ roots = 1 /\ roots' = 2 /\ clock' = clock
  /\ UNCHANGED <<sourceVars, diskVars, remembered, page, asks, called, breaks>>

ExternalStep(c) ==
  \/ LoadSeries(c) \/ Compares(c) \/ Reads(c) \/ TakesLock(c) \/ Decodes(c) \/ Keeps(c) \/ CallerDies(c)
  \/ OpenManifest(c) \/ Recalls(c) \/ ManifestUnread(c) \/ Remembers(c)
  \/ OpenPage(c) \/ Looks(c) \/ Scans(c) \/ Opens(c) \/ Row(c) \/ Adds(c) \/ Returns(c)

ExternalNext == ScriptStep \/ Passes \/ \E c \in Readers : ExternalStep(c)

ExternalSpec == ExternalInit /\ [][ExternalNext]_externalVars

-----------------------------------------------------------------------------
Served(c) == asks[c].at = "answered"

(* A series answered, decoded then or long before, is one the catalog held *)
(* at some moment since the caller looked at its files: neither a slower   *)
(* writer of the cache nor one that died between the frame and its sidecar *)
(* passes an older series off under a newer signature; the same goes for   *)
(* what the manifest said (data._external_manifest).                       *)
CachesNeverLag ==
  serving # "page" => \A c \in Readers : Served(c) => asks[c].got \in asks[c].since

(* The data page shows nothing read before the window the call found began *)
(* counting, so never older than a window, however slowly another call     *)
(* scanned or read for an earlier one (the contract above                  *)
(* data._EXTERNAL_ROWS_TTL_S).                                             *)
RowsOfTheirWindow ==
  serving = "page" => \A c \in Readers : Served(c) =>
    /\ asks[c].row > asks[c].began - Window /\ asks[c].scanned > asks[c].began - Window
=============================================================================
