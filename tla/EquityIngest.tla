---------------------------- MODULE EquityIngest ----------------------------
(***************************************************************************)
(* The scripts that fill a catalog of equity bars while the application    *)
(* reads it: ingest_equities (flat files), download_massive (the           *)
(* provider's API, through a staging directory), repair_massive_intraday   *)
(* (one day of one ticker), stitch_ticker (one series out of several) and  *)
(* the rebuilding of the coarser series.  They run one at a time and may   *)
(* be killed at any step; no lock keeps their readers out.  A bar is its   *)
(* label, the file it is in and the runs of scripts its prices are from.   *)
(* Files, tickers and the provider are external.                           *)
(***************************************************************************)
EXTENDS Integers, Sequences, FiniteSets, FiniteSetsExt

CONSTANTS
  Tickers,      \* tickers the scripts fetch
  Stitched,     \* the name a stitched series gets
  Parts,        \* the tickers it is stitched from, in order
  Minutes,      \* minutes of each day the provider has, of each ticker
  LastDay,      \* days there are
  DaysPerYear,
  MinGap,       \* GAP_MIN_SESSIONS
  MaxRuns,      \* bound: scripts started
  MaxDiskFaults \* bound: renames refused

ASSUME IngestAssumption ==
  /\ LastDay \in Nat /\ DaysPerYear \in Nat \ {0} /\ MinGap \in Nat \ {0}
  /\ MaxRuns \in Nat /\ MaxDiskFaults \in Nat
  /\ Stitched \notin Tickers /\ Parts \in Seq(Tickers)
  /\ Minutes \in [Tickers -> [1..LastDay -> SUBSET (1..4)]]

VARIABLES
  bars,        \* the catalog: the bars of every series of every ticker
  manifest,    \* what _manifest.json says of a ticker
  script,      \* the script that runs, if any
  runs, diskFaults,
  unfinished,  \* tickers a script was killed or gave up over
  astray       \* tickers a repair changed another file of

ingestVars == <<bars, manifest, script, runs, diskFaults, unfinished, astray>>

Symbols == Tickers \cup {Stitched}
Days == 1..LastDay
Years == 1..((LastDay - 1) \div DaysPerYear + 1)
Year(d) == (d - 1) \div DaysPerYear + 1
TFs == {"bucket", "day"}        \* 4-HOUR, grouped within the session, and 1-DAY
Specs == {"minute"} \cup TFs
NoEntry == [run |-> 0]
NoScript == [kind |-> "none", at |-> "none"]

-----------------------------------------------------------------------------
(* Labels.  A day is five minutes long: one before the session, three of   *)
(* it and midnight.  A bar is labelled with where it ends.                 *)
DayLength == 5
Opening == 1
DayOf(label) == (label - 1) \div DayLength + 1
MinuteOf(label) == ((label - 1) % DayLength) + 1
Label(d, m) == (d - 1) * DayLength + m
InSession(b) == MinuteOf(b.at) \in Opening + 1 .. DayLength - 1

Bar(file, label, run) == [file |-> file, at |-> label, from |-> {run}]
DaysOf(series) == {DayOf(b.at) : b \in series}

(* resample_tf: a session's bucket of two minutes ends with the session at *)
(* the latest, its day at midnight.                                        *)
EndOf(tf, b, rows) ==
  LET d == DayOf(b.at)
      last == Max({r.at : r \in {r \in rows : DayOf(r.at) = d}})
      bucket == (MinuteOf(b.at) - Opening - 1) \div 2
      end == Label(d, Opening + 2 * (bucket + 1))
  IN  IF tf = "day" THEN Label(d, DayLength) ELSE Min({end, last})

Resampled(rows, tf) ==
  {[file |-> 0, at |-> l, from |-> UNION {b.from : b \in {b \in rows : EndOf(tf, b, rows) = l}}] :
    l \in {EndOf(tf, b, rows) : b \in rows}}

Session(minutes) == {b \in minutes : InSession(b)}
Derived(minutes, tf) == Resampled(Session(minutes), tf)

(* What the provider has of a ticker's year.                               *)
Offered(tk, y, run) ==
  {Bar(y, Label(m[1], m[2]), run) :
     m \in {m \in Days \X (1..4) : Year(m[1]) = y /\ m[2] \in Minutes[tk][m[1]]}}

-----------------------------------------------------------------------------
(* compute_coverage_gaps: sessions of the others that a ticker lacks       *)
(* between its first and its last, from the daily series.                  *)
Calendar(cat) == UNION {DaysOf(cat[tk]["day"]) : tk \in Symbols}

GapsOf(cat, tk) ==
  LET own == DaysOf(cat[tk]["day"])
      Between(d) == Min(own) < d /\ d < Max(own)
      step[d \in 0..LastDay] ==
        IF d = 0 THEN [run |-> <<>>, out |-> {}]
        ELSE LET s == step[d - 1] IN
             IF d \notin Calendar(cat) \/ d < Min(own) \/ d > Max(own) THEN s
             ELSE IF d \in own
                  THEN [run |-> <<>>,
                        out |-> s.out \cup
                          IF Len(s.run) >= MinGap THEN {<<s.run[1], s.run[Len(s.run)]>>} ELSE {}]
                  ELSE [s EXCEPT !.run = Append(@, d)]
  IN  IF own = {} THEN {} ELSE step[LastDay].out

WithGaps(entries, cat) ==
  [tk \in Symbols |->
    IF entries[tk] = NoEntry \/ DaysOf(cat[tk]["day"]) = {} THEN entries[tk]
    ELSE [entries[tk] EXCEPT !.gaps = GapsOf(cat, tk)]]

-----------------------------------------------------------------------------
NoSeries == [spec \in Specs |-> {}]
NoneFetched == [tk \in Symbols |-> {}]

(* A catalog as an ingest of every ticker leaves it, or none.              *)
Ingested ==
  [tk \in Symbols |->
    IF tk = Stitched THEN NoSeries
    ELSE LET minutes == UNION {Offered(tk, y, 1) : y \in Years}
         IN [spec \in Specs |-> IF spec = "minute" THEN minutes ELSE Derived(minutes, spec)]]
Described(cat) ==
  WithGaps([tk \in Symbols |-> IF cat[tk]["minute"] = {} THEN NoEntry
            ELSE [run |-> 1, bars |-> cat[tk]["minute"], gaps |-> {}]], cat)

IngestInit ==
  /\ bars \in {[tk \in Symbols |-> NoSeries], Ingested}
  /\ manifest = Described(bars)
  /\ script = NoScript /\ runs = 1 /\ diskFaults = 0 /\ unfinished = {} /\ astray = {}

StartScript(kind, targets, day, at, todo) ==
  /\ script = NoScript /\ runs <= MaxRuns /\ runs' = runs + 1
  /\ script' = [kind |-> kind, at |-> at, targets |-> targets, todo |-> todo, now |-> <<>>,
                day |-> day, run |-> runs + 1, before |-> bars, fetched |-> NoneFetched,
                aside |-> <<>>, failed |-> {}]
  /\ UNCHANGED <<bars, manifest, diskFaults, unfinished, astray>>

ScriptAt(at) == script' = [script EXCEPT !.at = at]
Series(tk, spec, rows) == bars' = [bars EXCEPT ![tk][spec] = rows]

WithBars == {tk \in Symbols : script.fetched[tk] # {}}

(* The tickers a script ended well over are whole again.                   *)
Finishes ==
  /\ ScriptAt("done")
  /\ LET written == IF script.kind = "ingest" THEN script.targets ELSE WithBars \ script.failed
     IN  astray' = astray \ written /\
         unfinished' = unfinished \ (IF script.kind # "rebuild" THEN written
                          ELSE {tk \in script.targets : Session(bars[tk]["minute"]) # {}})

-----------------------------------------------------------------------------
(* ingest_equities.ingest.  What the catalog has of the tickers goes       *)
(* first,                                                                  *)
StartIngest ==
  \E targets \in SUBSET Tickers \ {{}} :
    StartScript("ingest", targets, 0, "clears", Years \X targets)

(* Mutant: what the tickers had stays. *)
ClearsNothing ==
  /\ script.at = "clears" /\ ScriptAt("fetches")
  /\ UNCHANGED <<bars, manifest, runs, diskFaults, unfinished, astray>>
Clears ==
  /\ script.at = "clears" /\ ScriptAt("fetches")
  /\ bars' = [tk \in Symbols |-> IF tk \in script.targets THEN NoSeries ELSE bars[tk]]
  /\ UNCHANGED <<manifest, runs, diskFaults, unfinished, astray>>

(* then a year after the other is written,                                 *)
IngestYear ==
  /\ script.kind = "ingest" /\ script.at = "fetches" /\ script.todo # {}
  /\ \E w \in script.todo :
       /\ \A o \in script.todo : w[1] <= o[1]
       /\ LET rows == Offered(w[2], w[1], script.run) IN
          /\ Series(w[2], "minute", bars[w[2]]["minute"] \cup rows)
          /\ script' = [script EXCEPT !.todo = @ \ {w}, !.fetched[w[2]] = @ \cup rows]
  /\ UNCHANGED <<manifest, runs, diskFaults, unfinished, astray>>

-----------------------------------------------------------------------------
(* download_massive.download: a ticker after the other, each a year after  *)
(* the other, into the staging directory.                                  *)
StartDownload ==
  \E targets \in SUBSET Tickers \ {{}} :
    StartScript("download", targets, 0, "fetches", targets)

NextTicker ==
  /\ script.kind = "download" /\ script.at = "fetches" /\ script.now = <<>>
  /\ \E tk \in script.todo :
       script' = [script EXCEPT !.now = <<tk, 1>>, !.todo = @ \ {tk}]
  /\ UNCHANGED <<bars, manifest, runs, diskFaults, unfinished, astray>>

(* A year has rows, none, none in this plan, or fails for good: then the   *)
(* ticker is passed over and what it had stays.                            *)
GetsYear(tk, y, got) ==
  script' = IF y + 1 \in Years
            THEN [script EXCEPT !.now = <<tk, y + 1>>, !.fetched[tk] = got]
            ELSE IF got = {} THEN [script EXCEPT !.now = <<>>]
            ELSE [script EXCEPT !.fetched[tk] = got, !.at = "swaps"]

(* Mutant: what came before the failure is taken for the ticker. *)
PassedOverWithPart(tk) ==
  script' = IF script.fetched[tk] = {} THEN [script EXCEPT !.failed = @ \cup {tk}, !.now = <<>>]
            ELSE [script EXCEPT !.failed = @ \cup {tk}, !.at = "swaps"]
PassedOver(tk) == script' = [script EXCEPT !.failed = @ \cup {tk}, !.now = <<>>]

FetchYear ==
  /\ script.kind = "download" /\ script.at = "fetches" /\ script.now # <<>>
  /\ LET tk == script.now[1]
         y == script.now[2]
     IN \/ GetsYear(tk, y, script.fetched[tk] \cup Offered(tk, y, script.run))
        \/ GetsYear(tk, y, script.fetched[tk])
        \/ PassedOver(tk)
  /\ UNCHANGED <<bars, manifest, runs, diskFaults, unfinished, astray>>

(* _swap_ticker_bars: a ticker's directories are moved out one by one and  *)
(* the staged one moved in.                                                *)
Present(tk) == {spec \in Specs : bars[tk][spec] # {}}

MovesOut ==
  /\ script.at = "swaps"
  /\ LET tk == script.now[1] IN
     \E spec \in Present(tk) :
       /\ Series(tk, spec, {})
       /\ script' = [script EXCEPT !.aside = Append(@, <<spec, bars[tk][spec]>>)]
  /\ UNCHANGED <<manifest, runs, diskFaults, unfinished, astray>>

MovesIn ==
  /\ script.at = "swaps" /\ Present(script.now[1]) = {}
  /\ Series(script.now[1], "minute", script.fetched[script.now[1]])
  /\ script' = [script EXCEPT !.at = "fetches", !.now = <<>>, !.aside = <<>>]
  /\ UNCHANGED <<manifest, runs, diskFaults, unfinished, astray>>

(* A rename is refused: what was moved out goes back and the script ends,  *)
(* tickers swapped before with no coarser series left.                     *)
PutBack(tk, aside) ==
  [bars EXCEPT ![tk] = [spec \in Specs |->
     IF \E k \in DOMAIN aside : aside[k][1] = spec
     THEN (CHOOSE p \in {aside[k] : k \in DOMAIN aside} : p[1] = spec)[2] ELSE bars[tk][spec]]]

GivesUp(cat) ==
  /\ bars' = cat /\ ScriptAt("gave up")
  /\ unfinished' = unfinished \cup {tk \in Symbols : cat[tk] # script.before[tk]}

(* Mutant: the last directory moved is the only one put back. *)
RenameRefusedLast ==
  /\ script.at = "swaps" /\ diskFaults < MaxDiskFaults /\ diskFaults' = diskFaults + 1
  /\ GivesUp(PutBack(script.now[1],
       SubSeq(script.aside, Max({1, Len(script.aside)}), Len(script.aside))))
  /\ UNCHANGED <<manifest, runs, astray>>
RenameRefused ==
  /\ script.at = "swaps" /\ diskFaults < MaxDiskFaults /\ diskFaults' = diskFaults + 1
  /\ GivesUp(PutBack(script.now[1], script.aside))
  /\ UNCHANGED <<manifest, runs, astray>>

-----------------------------------------------------------------------------
(* build_tf_bars: the series of each ticker are dropped and built again    *)
(* from its minutes, unless none of these is in session.                   *)
StartRebuild ==
  LET targets == {tk \in Symbols : bars[tk]["minute"] # {}} IN
  /\ targets # {} /\ StartScript("rebuild", targets, 0, "builds", targets \X TFs)

ToBuild ==
  /\ script.at = "fetches" /\ script.todo = {} /\ script.now = <<>>
  /\ \/ script.kind = "download" /\ WithBars = {} /\ Finishes
     \/ /\ script.kind # "download" \/ WithBars # {}
        /\ script' = [script EXCEPT !.at = "builds", !.todo = WithBars \X TFs]
        /\ UNCHANGED <<unfinished, astray>>
  /\ UNCHANGED <<bars, manifest, runs, diskFaults>>

(* Mutant: what was there before is not dropped. *)
BuildsOnto ==
  /\ script.at = "builds" /\ script.now = <<>>
  /\ \E w \in script.todo :
       /\ script' = [script EXCEPT !.todo = @ \ {w},
                        !.now = IF Session(bars[w[1]]["minute"]) = {} THEN <<>> ELSE w]
       /\ UNCHANGED bars
  /\ UNCHANGED <<manifest, runs, diskFaults, unfinished, astray>>
Drops ==
  /\ script.at = "builds" /\ script.now = <<>>
  /\ \E w \in script.todo :
       IF Session(bars[w[1]]["minute"]) = {}
       THEN script' = [script EXCEPT !.todo = @ \ {w}] /\ UNCHANGED bars
       ELSE script' = [script EXCEPT !.todo = @ \ {w}, !.now = w] /\ Series(w[1], w[2], {})
  /\ UNCHANGED <<manifest, runs, diskFaults, unfinished, astray>>

Builds ==
  /\ script.at = "builds" /\ script.now # <<>>
  /\ LET tk == script.now[1] IN
     Series(tk, script.now[2], bars[tk][script.now[2]] \cup Derived(bars[tk]["minute"], script.now[2]))
  /\ script' = [script EXCEPT !.now = <<>>]
  /\ UNCHANGED <<manifest, runs, diskFaults, unfinished, astray>>

(* write_manifest, last but for the gaps, which it keeps.                  *)
Entry(tk) ==
  [run |-> script.run, bars |-> script.fetched[tk],
   gaps |-> IF manifest[tk] = NoEntry THEN {} ELSE manifest[tk].gaps]

Describes ==
  /\ script.at = "builds" /\ script.todo = {} /\ script.now = <<>> /\ script.kind # "rebuild"
  /\ manifest' = [tk \in Symbols |-> IF tk \in WithBars THEN Entry(tk) ELSE manifest[tk]]
  /\ IF script.kind = "ingest" THEN ScriptAt("gaps") /\ UNCHANGED <<unfinished, astray>> ELSE Finishes
  /\ UNCHANGED <<bars, runs, diskFaults>>

(* write_coverage_gaps, of every ticker the catalog has.                   *)
WritesGaps ==
  /\ \/ script.at = "gaps"
     \/ script.kind = "rebuild" /\ script.at = "builds" /\ script.todo = {} /\ script.now = <<>>
  /\ manifest' = WithGaps(manifest, bars)
  /\ Finishes /\ UNCHANGED <<bars, runs, diskFaults>>

-----------------------------------------------------------------------------
(* repair_massive_intraday.repair_day, once the whole of the session came: *)
(* its minutes, then what follows from them, a file at a time, each set    *)
(* aside before the new one takes its name.                                *)
StartRepair ==
  \E tk \in Tickers, d \in Days :
    /\ Minutes[tk][d] \ {Opening} # {}
    /\ StartScript("repair", {tk}, d, "sets aside", {"minute"})

Repaired == CHOOSE tk \in script.targets : TRUE
Spec == CHOOSE spec \in Specs : spec \in script.todo
AfterSpec(spec) == [minute |-> {"bucket"}, bucket |-> {"day"}, day |-> {}][spec]

(* _find_parquet takes one file of the series, whichever comes first.      *)
SetsAside ==
  /\ script.kind = "repair" /\ script.at = "sets aside"
  /\ LET tk == Repaired
         rows == bars[tk][Spec]
     IN \/ rows = {} /\ GivesUp(bars) /\ UNCHANGED astray
        \/ \E file \in {b.file : b \in rows} :
             LET old == {b \in rows : b.file = file} IN
             /\ Series(tk, Spec, rows \ old)
             /\ script' = [script EXCEPT !.aside = <<file, old>>, !.at = "replaces"]
             /\ astray' = IF \E b \in rows \ old : DayOf(b.at) = script.day
                          THEN astray \cup {tk} ELSE astray
             /\ UNCHANGED unfinished
  /\ UNCHANGED <<manifest, runs, diskFaults>>

(* session_label_bounds_ns: from after midnight to midnight.               *)
(* Mutant: the calendar's day, from midnight on. *)
OutsideCalendarDay(old, d) == {b \in old : b.at \div DayLength + 1 # d}
Outside(old, d) == {b \in old : DayOf(b.at) # d}

NewRows(tk, spec, file) ==
  LET minutes == {Bar(file, Label(script.day, m), script.run) : m \in Minutes[tk][script.day]}
  IN  IF spec = "minute" THEN Session(minutes) ELSE Derived(minutes, spec)

Replaces ==
  /\ script.at = "replaces"
  /\ LET tk == Repaired
         file == script.aside[1]
     IN Series(tk, Spec, bars[tk][Spec] \cup Outside(script.aside[2], script.day)
                           \cup NewRows(tk, Spec, file))
  /\ LET rest == AfterSpec(Spec) IN
     script' = [script EXCEPT !.todo = rest, !.aside = <<>>,
                              !.at = IF rest = {} THEN "done" ELSE "sets aside"]
  /\ UNCHANGED <<manifest, runs, diskFaults, unfinished, astray>>

-----------------------------------------------------------------------------
(* stitch_ticker.stitch, the seams being even enough: part after part from *)
(* the one that begins first, a label taken once.                          *)
FirstDay(tk) == Min(DaysOf(bars[tk]["day"]))

StartStitch ==
  /\ \A k \in DOMAIN Parts : bars[Parts[k]]["day"] # {}
  /\ StartScript("stitch", {Stitched}, 0, "clears", DOMAIN Parts)

(* What a part has of a label nobody has had before.                       *)
(* Mutant: labels of an earlier part are taken again. *)
LabelsOfPart(k) ==
  LET tk == Parts[k] IN
  {[b EXCEPT !.file = 10 * k + Year(DayOf(b.at))] :
    b \in {b \in bars[tk]["minute"] :
             Year(DayOf(b.at)) \in Year(FirstDay(tk)) .. Year(Max(DaysOf(bars[tk]["day"])))}}
FreshLabels(k) ==
  LET tk == Parts[k]
      minutes == bars[tk]["minute"]
      labels == {b.at : b \in {b \in minutes :
                   Year(DayOf(b.at)) \in Year(FirstDay(tk)) .. Year(Max(DaysOf(bars[tk]["day"])))}}
                \ {b.at : b \in bars[Stitched]["minute"]}
  IN {[(CHOOSE b \in minutes : b.at = l) EXCEPT !.file = 10 * k + Year(DayOf(l))] : l \in labels}

Joins ==
  /\ script.kind = "stitch" /\ script.at = "fetches" /\ script.todo # {}
  /\ \E k \in script.todo :
       /\ \A o \in script.todo \ {k} :
            \/ FirstDay(Parts[k]) < FirstDay(Parts[o])
            \/ FirstDay(Parts[k]) = FirstDay(Parts[o]) /\ k < o
       /\ Series(Stitched, "minute", bars[Stitched]["minute"] \cup FreshLabels(k))
       /\ script' = [script EXCEPT !.todo = @ \ {k}, !.fetched[Stitched] = @ \cup FreshLabels(k)]
  /\ UNCHANGED <<manifest, runs, diskFaults, unfinished, astray>>

-----------------------------------------------------------------------------
Ended == script.at \in {"done", "gave up"}

Rests ==
  /\ Ended /\ script' = NoScript
  /\ UNCHANGED <<bars, manifest, runs, diskFaults, unfinished, astray>>

(* A script is killed: what it had changed so far stays.                   *)
Killed ==
  /\ script # NoScript /\ ~Ended /\ script' = NoScript
  /\ unfinished' = unfinished \cup {tk \in Symbols : bars[tk] # script.before[tk]}
  /\ UNCHANGED <<bars, manifest, runs, diskFaults, astray>>

IngestNext ==
  \/ StartIngest \/ Clears \/ IngestYear
  \/ StartDownload \/ NextTicker \/ FetchYear \/ MovesOut \/ MovesIn \/ RenameRefused
  \/ StartRebuild \/ ToBuild \/ Drops \/ Builds \/ Describes \/ WritesGaps
  \/ StartRepair \/ SetsAside \/ Replaces \/ StartStitch \/ Joins \/ Rests \/ Killed
IngestSpec == IngestInit /\ [][IngestNext]_ingestVars

-----------------------------------------------------------------------------
(* A ticker no script was killed over has, between scripts, coarser series *)
(* that follow from the minutes it has now, whichever scripts wrote these, *)
(* and never two bars of one label (ingest_equities.build_tf_bars,         *)
(* repair_massive_intraday.repair_day, stitch_ticker.stitch); a repair of  *)
(* the wrong file aside.                                                   *)
SeriesAgree ==
  \A tk \in Symbols \ astray :
    /\ \A spec \in Specs : \A b, c \in bars[tk][spec] : b.at = c.at => b = c
    /\ script = NoScript /\ tk \notin unfinished =>
         \A tf \in TFs : bars[tk][tf] = Derived(bars[tk]["minute"], tf)

(* A download that ends, the provider failing over a ticker and a disk     *)
(* refusing a rename included, leaves each ticker the minutes it had or    *)
(* all of those that came, never some of both and never none, and one the  *)
(* provider failed over what it had                                        *)
(* (download_massive._swap_ticker_bars, download_minute_bars).             *)
OldOrNew ==
  script.kind = "download" /\ Ended =>
    \A tk \in script.targets :
      \/ bars[tk]["minute"] = script.before[tk]["minute"]
      \/ tk \notin script.failed /\ bars[tk]["minute"] = script.fetched[tk]

(* A repair replaces the bars of its day, midnight's included, and touches *)
(* no other day of any series (ingest_equities.session_label_bounds_ns).   *)
RepairsOneDay ==
  script.kind = "repair" /\ script.at = "done" =>
    \A tk \in script.targets, spec \in Specs :
      /\ {b \in bars[tk][spec] : DayOf(b.at) # script.day} =
           {b \in script.before[tk][spec] : DayOf(b.at) # script.day}
      /\ tk \notin astray =>
           \A b \in bars[tk][spec] : DayOf(b.at) = script.day => b.from = {script.run}

(* A script that has ended has changed what it was asked to change, whole,   *)
(* and nothing else.                                                         *)
ScriptsChangeTheirOwn == OldOrNew /\ RepairsOneDay

(* The message of a download with failures: only tickers with new bars     *)
(* enter the manifest (download_massive.py:351).  It does not hold: what a *)
(* ticker had fetched before the provider failed over it is described,     *)
(* though it was thrown away with the staging directory.                   *)
OnlyNewBarsEnter ==
  script.kind = "download" /\ script.at = "done" =>
    \A tk \in Tickers : manifest[tk].run = script.run => manifest[tk].bars = bars[tk]["minute"]
=============================================================================
