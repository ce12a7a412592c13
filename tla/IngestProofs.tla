---------------------------- MODULE IngestProofs ----------------------------
(***************************************************************************)
(* Proofs about the scripts that fill a catalog of equity bars             *)
(* (EquityIngest): the series of a ticker agree, and a script changes what *)
(* it was asked to.  IngestInv says, for each stage of each script, what   *)
(* of a ticker is as it was before, what is new and what is still to come; *)
(* between scripts only what is settled matters.  A repair needs more:     *)
(* coarser bars of a day follow from the minutes of that day alone         *)
(* (DerivedTogether, DerivedOutside), in whichever files these are         *)
(* (DerivedOfOneRun).                                                      *)
(***************************************************************************)
EXTENDS EquityIngest, SequenceTheorems, WellFoundedInduction, TLAPS

-----------------------------------------------------------------------------
(* Types, and what the invariant is made of.                                *)
Labels == 1 .. LastDay * DayLength
Rows == SUBSET [file : Int, at : Labels, from : SUBSET Nat]
Catalogs == [Symbols -> [Specs -> Rows]]
OneOfEach(rows) == \A b, c \in rows : b.at = c.at => b = c
Follows(cat) == \A tf \in TFs : cat[tf] = Derived(cat["minute"], tf)

(* What a provider's rows of one run look like.                             *)
Plain(rows, run) == \A b \in rows : b = Bar(Year(DayOf(b.at)), b.at, run)

ScriptTypes ==
  /\ script = [kind |-> script.kind, at |-> script.at, targets |-> script.targets,
               todo |-> script.todo, now |-> script.now, day |-> script.day, run |-> script.run,
               before |-> script.before, fetched |-> script.fetched, aside |-> script.aside,
               failed |-> script.failed]
  /\ script.kind \in {"ingest", "download", "rebuild", "repair", "stitch"}
  /\ script.targets \subseteq Symbols /\ script.run \in Nat /\ script.before \in Catalogs
  /\ script.fetched \in [Symbols -> Rows] /\ script.failed \subseteq script.targets
  /\ \A tk \in Symbols \ script.targets : script.fetched[tk] = {} /\ bars[tk] = script.before[tk]

(* Where the minutes of a ticker are from: they are those it had, or all    *)
(* those that came for it.                                                  *)
HasOld(tk) ==
  /\ bars[tk]["minute"] = script.before[tk]["minute"] /\ script.kind # "ingest"
  /\ tk \in script.failed \/ script.fetched[tk] = {}
HasNew(tk) ==
  /\ bars[tk]["minute"] = script.fetched[tk] /\ OneOfEach(script.fetched[tk])
  /\ tk \notin script.failed /\ script.kind \in {"ingest", "download", "stitch"}

Swapped(tk) ==
  \/ HasOld(tk) /\ bars[tk] = script.before[tk]
  \/ HasNew(tk) /\ script.fetched[tk] # {} /\ \A tf \in TFs : bars[tk][tf] = {}
Current == IF script.now = <<>> THEN {} ELSE {script.now[1]}

Clearing ==
  /\ script.kind \in {"ingest", "stitch"} /\ script.now = <<>> /\ script.failed = {}
  /\ script.kind = "stitch" => (script.targets = {Stitched} /\ script.todo \subseteq DOMAIN Parts)
  /\ script.kind = "ingest" => (script.targets \subseteq Tickers /\ script.todo \subseteq Years \X script.targets)
Loading ==
  /\ Clearing
  /\ \A tk \in script.targets :
       /\ HasNew(tk) /\ \A tf \in TFs : bars[tk][tf] = {}
       /\ script.kind = "ingest" => Plain(script.fetched[tk], script.run)
Downloading ==
  /\ script.kind = "download" /\ script.targets \subseteq Tickers
  /\ script.todo \subseteq script.targets \ script.failed
  /\ \/ script.now = <<>>
     \/ /\ script.now[1] \in script.targets \ (script.todo \cup script.failed)
        /\ script.now[2] \in Int
  /\ \A tk \in script.targets : Plain(script.fetched[tk], script.run)
  /\ \A tk \in script.todo : script.fetched[tk] = {} /\ bars[tk] = script.before[tk]
  /\ \A tk \in script.targets \ Current : Swapped(tk)

(* A ticker's series are moved out one after the other.                     *)
MovedOut == {script.aside[k][1] : k \in DOMAIN script.aside}
Moving(tk) ==
  /\ script.fetched[tk] # {} /\ script.aside \in Seq(Specs \X Rows)
  /\ \A k \in DOMAIN script.aside : script.aside[k][2] = script.before[tk][script.aside[k][1]]
  /\ \A spec \in Specs : bars[tk][spec] = IF spec \in MovedOut THEN {} ELSE script.before[tk][spec]

(* A coarser series is the one there was, dropped, or built.                *)
ToCome(tk, tf) ==
  \/ <<tk, tf>> \in script.todo
  \/ Session(bars[tk]["minute"]) = {}
  \/ script.kind # "rebuild" /\ script.fetched[tk] = {}
Stands(tk, tf, old) ==
  \/ script.now = <<tk, tf>> /\ bars[tk][tf] = {}
  \/ <<tk, tf>> \notin script.todo /\ bars[tk][tf] = Derived(bars[tk]["minute"], tf)
  \/ ToCome(tk, tf) /\ bars[tk][tf] = old
Building ==
  /\ script.kind # "repair"
  /\ script.todo \subseteq script.targets \X TFs
  /\ \/ script.now = <<>>
     \/ /\ script.now \in (script.targets \X TFs) \ script.todo
        /\ bars[script.now[1]][script.now[2]] = {}
  /\ \A tk \in script.targets :
       \/ HasOld(tk) /\ \A tf \in TFs : Stands(tk, tf, script.before[tk][tf])
       \/ HasNew(tk) /\ \A tf \in TFs : Stands(tk, tf, {})

(* A repair works on one series after the other: of those behind it, the    *)
(* day is new and whole, unless it went astray.                             *)
Behind(spec) ==
  \E later \in script.todo :
    <<spec, later>> \in {<<"minute", "bucket">>, <<"minute", "day">>, <<"bucket", "day">>}
InHand(spec) == script.at = "replaces" /\ script.todo = {spec}
OfTheDay(rows) == {b \in rows : DayOf(b.at) = script.day}
Renewed(tk, spec) ==
  /\ Outside(bars[tk][spec], script.day) = Outside(script.before[tk][spec], script.day)
  /\ tk \notin astray => \E f \in Int : OfTheDay(bars[tk][spec]) = NewRows(tk, spec, f)
Repairs(tk, spec) ==
  /\ Behind(spec) => Renewed(tk, spec)
  /\ InHand(spec) =>
       /\ bars[tk][spec] \cup script.aside[2] = script.before[tk][spec]
       /\ tk \notin astray => OfTheDay(bars[tk][spec]) = {}
       /\ script.aside[1] \in Int
  /\ ~Behind(spec) /\ ~InHand(spec) => bars[tk][spec] = script.before[tk][spec]
Repairing ==
  /\ script.kind = "repair" /\ script.day \in Days
  /\ script.todo \in {{"minute"}, {"bucket"}, {"day"}}
  /\ \E tk \in Tickers : script.targets = {tk} /\ \A spec \in Specs : Repairs(tk, spec)

Progress ==
  \/ script.at = "clears" /\ Clearing /\ bars = script.before /\ \A tk \in Symbols : script.fetched[tk] = {}
  \/ script.at = "fetches" /\ Loading
  \/ /\ script.at = "fetches" /\ Downloading /\ script.aside = <<>>
     /\ \A tk \in Current : bars[tk] = script.before[tk]
  \/ script.at = "swaps" /\ Downloading /\ script.now # <<>> /\ Moving(script.now[1])
  \/ script.at = "builds" /\ Building
  \/ script.at = "gaps" /\ script.kind = "ingest" /\ Building /\ script.todo = {} /\ script.now = <<>>
  \/ script.at \in {"sets aside", "replaces"} /\ Repairing
  \/ Ended /\ ScriptsChangeTheirOwn

Settled == IF script = NoScript \/ Ended THEN bars ELSE script.before
IngestInv ==
  /\ bars \in Catalogs /\ runs \in Nat
  /\ (script = NoScript \/ (ScriptTypes /\ Progress))
  /\ \A tk \in Symbols \ astray : \A spec \in Specs : OneOfEach(bars[tk][spec]) /\ OneOfEach(Settled[tk][spec])
  /\ \A tk \in Symbols \ (astray \cup unfinished) : Follows(Settled[tk])

-----------------------------------------------------------------------------
(* Labels and days.                                                         *)
LEMMA IngestNumbers ==
  /\ LastDay \in Nat /\ DaysPerYear \in Nat \ {0} /\ Labels = 1 .. LastDay * 5
  /\ Stitched \notin Tickers /\ Minutes \in [Tickers -> [1..LastDay -> SUBSET (1..4)]]
BY IngestAssumption DEF Labels, DayLength

LEMMA PartsAre == \A k \in DOMAIN Parts : k \in Nat /\ Parts[k] \in Tickers
<1>1. Parts \in Seq(Tickers)
  BY IngestAssumption
<1> QED  BY <1>1, LenProperties, ElementOfSeq

LEMMA LabelOfDay ==
  ASSUME NEW d \in Days, NEW m \in 1..5
  PROVE  Label(d, m) \in Labels /\ DayOf(Label(d, m)) = d /\ MinuteOf(Label(d, m)) = m
BY IngestNumbers DEF Label, DayOf, MinuteOf, DayLength, Days

LEMMA DayOfLabel ==
  ASSUME NEW l \in Labels
  PROVE  /\ DayOf(l) \in Days /\ MinuteOf(l) \in 1..5
         /\ l = (DayOf(l) - 1) * 5 + MinuteOf(l)
BY IngestNumbers DEF DayOf, MinuteOf, DayLength, Days

(* Labels of one day have a last one.                                       *)
LEMMA LastLabel ==
  ASSUME NEW T \in SUBSET Labels, T # {}
  PROVE  Max(T) \in T /\ \A x \in T : x <= Max(T)
<1> DEFINE n == LastDay * 5
<1> DEFINE U == {n - x : x \in T}
<1>1. n \in Nat /\ \A x \in T : x \in Int /\ n - x \in Nat
  BY IngestNumbers
<1>2. U \subseteq Nat /\ U # {}
  <2>1. PICK x \in T : TRUE
    OBVIOUS
  <2>2. n - x \in U
    BY <2>1
  <2> QED  BY <2>2, <1>1
<1>3. PICK u \in U : \A y \in U : <<y, u>> \notin OpToRel(<, Nat)
  <2> HIDE DEF U
  <2> QED  BY <1>2, NatLessThanWellFounded, WFMin
<1>4. \A y \in U : ~(y < u)
  BY <1>2, <1>3 DEF OpToRel
<1>5. PICK m \in T : u = n - m
  BY <1>3
<1>6. ASSUME NEW x \in T  PROVE m >= x
  <2>1. ~(n - x < n - m)
    BY <1>4, <1>5
  <2> HIDE DEF n
  <2> QED  BY <2>1, <1>1
<1>7. Max(T) \in T /\ \A y \in T : Max(T) >= y
  BY <1>6 DEF Max
<1> QED  BY <1>1, <1>7

(* The end of a bar's bucket or day is of the same day.                     *)
LEMMA EndOfItsDay ==
  ASSUME NEW rows \in Rows, \A b \in rows : InSession(b), NEW tf \in TFs, NEW b \in rows
  PROVE  EndOf(tf, b, rows) \in Labels /\ DayOf(EndOf(tf, b, rows)) = DayOf(b.at)
<1> DEFINE d == DayOf(b.at)
           T == {r.at : r \in {r \in rows : DayOf(r.at) = d}}
           last == Max(T)
           bucket == (MinuteOf(b.at) - Opening - 1) \div 2
           end == Label(d, Opening + 2 * (bucket + 1))
<1>1. T \subseteq Labels /\ b.at \in T /\ b.at \in Labels
  BY DEF Rows
<1>2. last \in T
  BY <1>1, LastLabel
<1>3. last \in Labels /\ DayOf(last) = d
  BY <1>1, <1>2
<1>4. d \in Days /\ MinuteOf(b.at) \in 2..4
  BY <1>1, DayOfLabel DEF InSession, Opening, DayLength
<1>5. Opening + 2 * (bucket + 1) \in 1..5
  BY <1>4 DEF Opening
<1>6. end \in Labels /\ DayOf(end) = d
  BY <1>4, <1>5, LabelOfDay
<1>7. Label(d, DayLength) \in Labels /\ DayOf(Label(d, DayLength)) = d
  BY <1>4, LabelOfDay DEF DayLength
<1>8. Min({end, last}) \in {end, last}
  <2>1. end \in Int /\ last \in Int
    BY <1>3, <1>6, IngestNumbers
  <2>2. \E x \in {end, last} : \A y \in {end, last} : x =< y
    <3> HIDE DEF end, last
    <3> QED  BY <2>1
  <2> QED  BY <2>2 DEF Min
<1>9. EndOf(tf, b, rows) \in {Label(d, DayLength), end, last}
  BY <1>8 DEF EndOf
<1> HIDE DEF end, last, T
<1> QED  BY <1>3, <1>6, <1>7, <1>9

(* What a day's bars come to depends on the bars of that day alone.         *)
Coarse(rows, tf, l) ==
  [file |-> 0, at |-> l, from |-> UNION {b.from : b \in {b \in rows : EndOf(tf, b, rows) = l}}]

LEMMA ResampledAre ==
  ASSUME NEW rows, NEW tf
  PROVE  Resampled(rows, tf) = {Coarse(rows, tf, l) : l \in {EndOf(tf, b, rows) : b \in rows}}
BY DEF Resampled, Coarse

LEMMA SessionRows ==
  ASSUME NEW rows \in Rows
  PROVE  Session(rows) \in Rows /\ \A b \in Session(rows) : InSession(b)
BY DEF Session, Rows

LEMMA DerivedRows ==
  ASSUME NEW rows \in Rows, NEW tf \in TFs
  PROVE  Derived(rows, tf) \in Rows
<1> DEFINE S == Session(rows)
<1>1. S \in Rows /\ \A b \in S : InSession(b)
  BY SessionRows
<1> HIDE DEF S
<1>2. \A b \in S : EndOf(tf, b, S) \in Labels /\ b.from \in SUBSET Nat
  BY <1>1, EndOfItsDay DEF Rows
<1>3. ASSUME NEW l \in {EndOf(tf, b, S) : b \in S}
      PROVE  Coarse(S, tf, l) \in [file : Int, at : Labels, from : SUBSET Nat]
  <2>1. UNION {b.from : b \in {b \in S : EndOf(tf, b, S) = l}} \in SUBSET Nat
    BY <1>2
  <2> QED  BY <1>2, <2>1 DEF Coarse
<1>4. Resampled(S, tf) \in Rows
  BY <1>3, ResampledAre DEF Rows
<1> QED  BY <1>4 DEF Derived, S

LEMMA DerivedOfOneEach ==
  ASSUME NEW rows, NEW tf
  PROVE  OneOfEach(Derived(rows, tf))
<1>1. \A l : Coarse(Session(rows), tf, l).at = l
  BY DEF Coarse
<1> QED  BY <1>1, ResampledAre DEF Derived, OneOfEach

LEMMA NoneDerived ==
  ASSUME NEW rows, NEW tf, Session(rows) = {}
  PROVE  Derived(rows, tf) = {}
BY DEF Derived, Resampled

LEMMA DerivedDays ==
  ASSUME NEW rows \in Rows, NEW tf \in TFs, NEW x \in Derived(rows, tf)
  PROVE  \E b \in rows : DayOf(x.at) = DayOf(b.at)
<1> DEFINE S == Session(rows)
<1>1. S \in Rows /\ (\A b \in S : InSession(b)) /\ S \subseteq rows
  BY SessionRows DEF Session
<1>2. PICK b \in S : x = Coarse(S, tf, EndOf(tf, b, S))
  BY ResampledAre DEF Derived
<1>3. x.at = EndOf(tf, b, S)
  BY <1>2 DEF Coarse
<1> HIDE DEF S
<1> QED  BY <1>1, <1>2, <1>3, EndOfItsDay

DaysApart(A, B) == \A a \in A, b \in B : DayOf(a.at) # DayOf(b.at)

LEMMA SameEnd ==
  ASSUME NEW A, NEW B, DaysApart(A, B), NEW tf, NEW b \in A
  PROVE  EndOf(tf, b, A \cup B) = EndOf(tf, b, A)
<1>1. {r \in A \cup B : DayOf(r.at) = DayOf(b.at)} = {r \in A : DayOf(r.at) = DayOf(b.at)}
  BY DEF DaysApart
<1> QED  BY <1>1 DEF EndOf

LEMMA SameCoarse ==
  ASSUME NEW A \in Rows, NEW B \in Rows, DaysApart(A, B), NEW tf \in TFs,
         \A b \in A \cup B : InSession(b), NEW b \in A
  PROVE  Coarse(A \cup B, tf, EndOf(tf, b, A \cup B)) = Coarse(A, tf, EndOf(tf, b, A))
<1> DEFINE l == EndOf(tf, b, A)
<1>1. EndOf(tf, b, A \cup B) = l
  BY SameEnd
<1>2. DayOf(l) = DayOf(b.at)
  BY EndOfItsDay
<1>3. ASSUME NEW c \in B  PROVE EndOf(tf, c, A \cup B) # l
  <2>1. A \cup B \in Rows
    BY DEF Rows
  <2>2. DayOf(EndOf(tf, c, A \cup B)) = DayOf(c.at)
    BY <2>1, EndOfItsDay
  <2>3. DayOf(c.at) # DayOf(b.at)
    BY DEF DaysApart
  <2> QED  BY <1>2, <2>2, <2>3
<1>4. \A c \in A : EndOf(tf, c, A \cup B) = EndOf(tf, c, A)
  BY SameEnd
<1>5. {c \in A \cup B : EndOf(tf, c, A \cup B) = l} = {c \in A : EndOf(tf, c, A) = l}
  BY <1>3, <1>4
<1> HIDE DEF l
<1>6. Coarse(A \cup B, tf, l) = Coarse(A, tf, l)
  BY <1>5 DEF Coarse
<1> QED  BY <1>1, <1>6 DEF l

LEMMA DerivedTogether ==
  ASSUME NEW A \in Rows, NEW B \in Rows, DaysApart(A, B), NEW tf \in TFs
  PROVE  Derived(A \cup B, tf) = Derived(A, tf) \cup Derived(B, tf)
<1> DEFINE S == Session(A)
           T == Session(B)
<1>1. /\ S \in Rows /\ T \in Rows /\ Session(A \cup B) = S \cup T
      /\ \A b \in S \cup T : InSession(b)
      /\ DaysApart(S, T) /\ DaysApart(T, S) /\ T \cup S = S \cup T
  BY SessionRows DEF Session, DaysApart
<1> HIDE DEF S, T
<1>2. \A b \in S : Coarse(S \cup T, tf, EndOf(tf, b, S \cup T)) = Coarse(S, tf, EndOf(tf, b, S))
  BY <1>1, SameCoarse
<1>3. \A b \in T : Coarse(T \cup S, tf, EndOf(tf, b, T \cup S)) = Coarse(T, tf, EndOf(tf, b, T))
  <2>1. \A b \in T \cup S : InSession(b)
    BY <1>1
  <2> QED  BY <1>1, <2>1, SameCoarse
<1>4. \A b \in T : Coarse(S \cup T, tf, EndOf(tf, b, S \cup T)) = Coarse(T, tf, EndOf(tf, b, T))
  BY <1>1, <1>3
<1>5. Resampled(S \cup T, tf) = Resampled(S, tf) \cup Resampled(T, tf)
  <2>1. \A rows : Resampled(rows, tf) = {Coarse(rows, tf, EndOf(tf, b, rows)) : b \in rows}
    BY ResampledAre
  <2>2. Resampled(S \cup T, tf) = {Coarse(S \cup T, tf, EndOf(tf, b, S \cup T)) : b \in S \cup T}
    BY <2>1
  <2>3. /\ Resampled(S, tf) = {Coarse(S, tf, EndOf(tf, b, S)) : b \in S}
        /\ Resampled(T, tf) = {Coarse(T, tf, EndOf(tf, b, T)) : b \in T}
    BY <2>1
  <2>4. ASSUME NEW x  PROVE x \in Resampled(S \cup T, tf) <=> x \in Resampled(S, tf) \cup Resampled(T, tf)
    BY <1>2, <1>4, <2>2, <2>3, Zenon
  <2> QED  BY <2>4
<1> QED  BY <1>1, <1>5 DEF Derived, S, T

(* Rows outside a day follow from those outside it.                         *)
LEMMA DerivedOutside ==
  ASSUME NEW rows \in Rows, NEW tf \in TFs, NEW d
  PROVE  Outside(Derived(rows, tf), d) = Derived(Outside(rows, d), tf)
<1> DEFINE A == Outside(rows, d)
           B == {b \in rows : DayOf(b.at) = d}
<1>1. A \in Rows /\ B \in Rows /\ DaysApart(A, B) /\ A \cup B = rows
  BY DEF Outside, Rows, DaysApart
<1>2. Derived(rows, tf) = Derived(A, tf) \cup Derived(B, tf)
  <2> HIDE DEF A, B
  <2>1. Derived(A \cup B, tf) = Derived(A, tf) \cup Derived(B, tf)
    BY <1>1, DerivedTogether
  <2> QED  BY <1>1, <2>1
<1>3. \A x \in Derived(A, tf) : DayOf(x.at) # d
  BY <1>1, DerivedDays DEF Outside
<1>4. \A x \in Derived(B, tf) : DayOf(x.at) = d
  BY <1>1, DerivedDays
<1> QED  BY <1>2, <1>3, <1>4 DEF Outside

(* Which file the minutes are in does not show.                             *)
LabelsOf(rows) == {b.at : b \in rows}
AllFrom(rows, run) == \A b \in rows : b.from = {run}

LEMMA DerivedOfOneRun ==
  ASSUME NEW A, NEW B, NEW run, AllFrom(A, run), AllFrom(B, run), NEW tf,
         LabelsOf(A) = LabelsOf(B)
  PROVE  /\ Derived(A, tf) = Derived(B, tf)
         /\ AllFrom(Derived(A, tf), run)
<1> DEFINE S == Session(A)
           T == Session(B)
<1>1. /\ \A b \in S : b.from = {run} /\ \E c \in T : c.at = b.at
      /\ \A c \in T : c.from = {run} /\ \E b \in S : c.at = b.at
  <2>1. ASSUME NEW b \in A  PROVE \E c \in B : c.at = b.at
    <3>1. b.at \in LabelsOf(A)
      BY DEF LabelsOf
    <3>2. b.at \in LabelsOf(B)
      BY <3>1
    <3> QED  BY <3>2 DEF LabelsOf
  <2>2. ASSUME NEW c \in B  PROVE \E b \in A : c.at = b.at
    <3>1. c.at \in LabelsOf(B)
      BY DEF LabelsOf
    <3>2. c.at \in LabelsOf(A)
      BY <3>1
    <3> QED  BY <3>2 DEF LabelsOf
  <2> QED  BY <2>1, <2>2 DEF Session, InSession, AllFrom
<1> HIDE DEF S, T
<1>2. ASSUME NEW b, NEW c, b.at = c.at  PROVE EndOf(tf, b, S) = EndOf(tf, c, T)
  <2>1. ASSUME NEW d
        PROVE  {r.at : r \in {r \in S : DayOf(r.at) = d}} = {r.at : r \in {r \in T : DayOf(r.at) = d}}
    BY <1>1
  <2> QED  BY <1>2, <2>1 DEF EndOf
<1>3. ASSUME NEW l, \E b \in S : EndOf(tf, b, S) = l
      PROVE  UNION {b.from : b \in {b \in S : EndOf(tf, b, S) = l}} = {run}
  BY <1>1, <1>3
<1>4. ASSUME NEW l, \E b \in T : EndOf(tf, b, T) = l
      PROVE  UNION {b.from : b \in {b \in T : EndOf(tf, b, T) = l}} = {run}
  BY <1>1, <1>4
<1>5. \A b \in S : \E c \in T : EndOf(tf, b, S) = EndOf(tf, c, T)
  BY <1>1, <1>2
<1>6. \A c \in T : \E b \in S : EndOf(tf, b, S) = EndOf(tf, c, T)
  BY <1>1, <1>2
<1>7. \A b \in S : Coarse(S, tf, EndOf(tf, b, S)) = [file |-> 0, at |-> EndOf(tf, b, S), from |-> {run}]
  BY <1>3 DEF Coarse
<1>8. \A c \in T : Coarse(T, tf, EndOf(tf, c, T)) = [file |-> 0, at |-> EndOf(tf, c, T), from |-> {run}]
  BY <1>4 DEF Coarse
<1>9. \A rows : Resampled(rows, tf) = {Coarse(rows, tf, EndOf(tf, b, rows)) : b \in rows}
  BY ResampledAre
<1>10. Resampled(S, tf) = {[file |-> 0, at |-> EndOf(tf, b, S), from |-> {run}] : b \in S}
  <2>1. Resampled(S, tf) = {Coarse(S, tf, EndOf(tf, b, S)) : b \in S}
    BY <1>9
  <2> QED  BY <1>7, <2>1
<1>11. Resampled(T, tf) = {[file |-> 0, at |-> EndOf(tf, c, T), from |-> {run}] : c \in T}
  <2>1. Resampled(T, tf) = {Coarse(T, tf, EndOf(tf, c, T)) : c \in T}
    BY <1>9
  <2> QED  BY <1>8, <2>1
<1>12. Resampled(S, tf) = Resampled(T, tf) /\ \A x \in Resampled(S, tf) : x.from = {run}
  BY <1>5, <1>6, <1>10, <1>11
<1> QED  BY <1>12 DEF Derived, S, T, AllFrom

-----------------------------------------------------------------------------
(* What a provider has of a ticker's year.                                  *)
LEMMA OfferedRows ==
  ASSUME NEW tk \in Tickers, NEW y, NEW run \in Nat, y \in Int
  PROVE  Offered(tk, y, run) \in Rows /\ Plain(Offered(tk, y, run), run)
<1>1. ASSUME NEW b \in Offered(tk, y, run)
      PROVE  /\ b \in [file : Int, at : Labels, from : SUBSET Nat]
             /\ b = Bar(Year(DayOf(b.at)), b.at, run)
  <2>1. PICK d \in Days, m \in 1..4 : Year(d) = y /\ b = Bar(y, Label(d, m), run)
    BY DEF Offered
  <2>2. Label(d, m) \in Labels /\ DayOf(Label(d, m)) = d
    BY LabelOfDay
  <2>3. b.at = Label(d, m)
    BY <2>1 DEF Bar
  <2>4. {run} \in SUBSET Nat
    OBVIOUS
  <2> QED  BY <2>1, <2>2, <2>3, <2>4 DEF Bar
<1> QED  BY <1>1 DEF Rows, Plain

LEMMA PlainOneOfEach ==
  ASSUME NEW rows, NEW run, Plain(rows, run)
  PROVE  OneOfEach(rows)
BY DEF Plain, OneOfEach

LEMMA PlainTogether ==
  ASSUME NEW A \in Rows, NEW B \in Rows, NEW run, Plain(A, run), Plain(B, run)
  PROVE  A \cup B \in Rows /\ Plain(A \cup B, run)
BY DEF Plain, Rows

LEMMA SpecsAre == TFs \subseteq Specs /\ "minute" \in Specs /\ "minute" \notin TFs /\ Specs = {"minute", "bucket", "day"} /\ TFs = {"bucket", "day"}
BY DEF Specs, TFs

LEMMA CatalogsAre ==
  ASSUME NEW cat \in Catalogs, NEW tk \in Symbols
  PROVE  /\ cat[tk] \in [Specs -> Rows] /\ \A spec \in Specs : cat[tk][spec] \in Rows
         /\ \A tf \in TFs : cat[tk][tf] \in Rows
         /\ cat[tk]["minute"] \in Rows
BY SpecsAre DEF Catalogs

LEMMA NothingYet ==
  /\ {} \in Rows /\ NoSeries \in [Specs -> Rows] /\ \A spec \in Specs : NoSeries[spec] = {}
  /\ \A run : Plain({}, run)
  /\ \A tf : Derived({}, tf) = {}
  /\ \A tk \in Symbols : NoneFetched[tk] = {}
  /\ NoneFetched \in [Symbols -> Rows]
<1>1. {} \in Rows
  BY DEF Rows
<1>2. Session({}) = {}
  BY DEF Session
<1> QED  BY <1>1, <1>2, NoneDerived DEF NoSeries, NoneFetched, Plain

(* A catalog whose tickers have what their minutes come to.                 *)
LEMMA FollowingCatalog ==
  ASSUME NEW rows \in Rows, OneOfEach(rows), NEW s,
         s = [spec \in Specs |-> IF spec = "minute" THEN rows ELSE Derived(rows, spec)]
  PROVE  s \in [Specs -> Rows] /\ Follows(s) /\ \A spec \in Specs : OneOfEach(s[spec])
<1>1. \A spec \in Specs \ {"minute"} : Derived(rows, spec) \in Rows
  BY DerivedRows, SpecsAre
<1>2. s["minute"] = rows /\ \A tf \in TFs : s[tf] = Derived(rows, tf)
  BY SpecsAre
<1>3. \A spec \in Specs : s[spec] \in Rows /\ OneOfEach(s[spec])
  BY <1>1, DerivedOfOneEach
<1> QED  BY <1>2, <1>3 DEF Follows

LEMMA IngestedCatalog ==
  /\ Ingested \in Catalogs
  /\ \A tk \in Symbols : Follows(Ingested[tk]) /\ \A spec \in Specs : OneOfEach(Ingested[tk][spec])
<1>1. ASSUME NEW tk \in Symbols
      PROVE  /\ Ingested[tk] \in [Specs -> Rows] /\ Follows(Ingested[tk])
             /\ \A spec \in Specs : OneOfEach(Ingested[tk][spec])
  <2>1. CASE tk = Stitched
    BY <2>1, NothingYet, SpecsAre DEF Ingested, Follows, OneOfEach
  <2>2. CASE tk # Stitched
    <3> DEFINE rows == UNION {Offered(tk, y, 1) : y \in Years}
    <3>1. tk \in Tickers
      BY <2>2 DEF Symbols
    <3>2. \A y \in Years : Offered(tk, y, 1) \in Rows /\ Plain(Offered(tk, y, 1), 1)
      BY <3>1, OfferedRows DEF Years
    <3>3. rows \in Rows /\ Plain(rows, 1)
      BY <3>2 DEF Rows, Plain
    <3>4. Ingested[tk] = [spec \in Specs |-> IF spec = "minute" THEN rows ELSE Derived(rows, spec)]
      BY <2>2 DEF Ingested
    <3> HIDE DEF rows
    <3> QED  BY <3>3, <3>4, FollowingCatalog, PlainOneOfEach
  <2> QED  BY <2>1, <2>2
<1>2. Ingested = [tk \in Symbols |-> Ingested[tk]]
  BY DEF Ingested
<1> QED  BY <1>1, <1>2 DEF Catalogs

LEMMA IngestInvInit == IngestInit => IngestInv
<1> SUFFICES ASSUME IngestInit PROVE IngestInv
  OBVIOUS
<1>1. script = NoScript /\ runs \in Nat
  BY DEF IngestInit
<1>2. CASE bars = Ingested
  BY <1>1, <1>2, IngestedCatalog DEF IngestInv, Settled
<1>3. CASE bars = [tk \in Symbols |-> NoSeries]
  <2>1. /\ bars \in Catalogs
        /\ \A tk \in Symbols : Follows(bars[tk]) /\ \A spec \in Specs : OneOfEach(bars[tk][spec])
    BY <1>3, NothingYet, SpecsAre DEF Catalogs, Follows, OneOfEach
  <2> QED  BY <1>1, <2>1 DEF IngestInv, Settled
<1> QED  BY <1>2, <1>3 DEF IngestInit

-----------------------------------------------------------------------------
(* Steps in general.  A script that begins.                                 *)
Blank ==
  /\ script = [kind |-> script.kind, at |-> script.at, targets |-> script.targets,
               todo |-> script.todo, now |-> script.now, day |-> script.day, run |-> script.run,
               before |-> script.before, fetched |-> script.fetched, aside |-> script.aside,
               failed |-> script.failed]
  /\ script.kind \in {"ingest", "download", "rebuild", "repair", "stitch"}
  /\ script.at \notin {"done", "gave up"} /\ script.targets \subseteq Symbols
  /\ script.now = <<>> /\ script.before = bars /\ script.fetched = NoneFetched /\ script.failed = {}
  /\ script.run = runs /\ script.aside = <<>>

LEMMA NextRun == ASSUME NEW n \in Nat PROVE n + 1 \in Nat
OBVIOUS

LEMMA StartedScript ==
  ASSUME IngestInv, script = NoScript, Blank', runs' = runs + 1, UNCHANGED <<bars, astray, unfinished>>
  PROVE  /\ \A tk \in Symbols : script'.fetched[tk] = {}
         /\ Progress' => IngestInv'
<1>1. /\ runs \in Nat /\ bars \in Catalogs
      /\ script'.before = bars /\ script'.fetched = NoneFetched /\ script'.failed = {}
      /\ script'.at \notin {"done", "gave up"} /\ script'.kind # "none" /\ script'.run = runs + 1
  BY DEF IngestInv, Blank
<1>2. script'.run \in Nat
  BY <1>1, NextRun
<1>3. ScriptTypes'
  <2>1. script'.fetched \in [Symbols -> Rows] /\ \A tk \in Symbols : script'.fetched[tk] = {}
    BY <1>1, NothingYet
  <2>2. \A tk \in Symbols : bars'[tk] = script'.before[tk]
    BY <1>1
  <2> QED  BY <1>1, <1>2, <2>1, <2>2 DEF ScriptTypes, Blank
<1>4. script' # NoScript
  <2>1. NoScript.kind = "none"
    BY DEF NoScript
  <2> QED  BY <1>1, <2>1
<1>5. Settled' = bars /\ Settled = bars
  BY <1>1, <1>4 DEF Settled, Ended
<1>6. /\ \A tk \in Symbols \ astray' : \A spec \in Specs : OneOfEach(bars'[tk][spec]) /\ OneOfEach(Settled'[tk][spec])
      /\ \A tk \in Symbols \ (astray' \cup unfinished') : Follows(Settled'[tk])
  BY <1>5 DEF IngestInv
<1>7. bars' \in Catalogs /\ runs' \in Nat
  BY <1>1, NextRun
<1> QED  BY <1>1, <1>3, <1>6, <1>7, NothingYet DEF IngestInv

(* A script that goes on: what was settled before it still is.              *)
LEMMA ScriptGoesOn ==
  ASSUME IngestInv, script # NoScript, ~Ended, script' # NoScript, ~Ended',
         script'.before = script.before, ScriptTypes', Progress', bars' \in Catalogs,
         UNCHANGED <<runs, unfinished>>, astray \subseteq astray',
         \A tk \in Symbols \ astray' : \A spec \in Specs : OneOfEach(bars'[tk][spec])
  PROVE  IngestInv'
<1>1. Settled' = script.before /\ Settled = script.before
  BY DEF Settled
<1>2. runs' = runs /\ unfinished' = unfinished /\ runs \in Nat
  BY DEF IngestInv
<1>3. /\ \A tk \in Symbols \ astray' : \A spec \in Specs : OneOfEach(Settled'[tk][spec])
      /\ \A tk \in Symbols \ (astray' \cup unfinished') : Follows(Settled'[tk])
  BY <1>1, <1>2 DEF IngestInv
<1> QED  BY <1>2, <1>3 DEF IngestInv

(* A script that ends, killed or not: what follows from its minutes now.    *)
LEMMA ScriptEnds ==
  ASSUME IngestInv, bars' \in Catalogs, UNCHANGED runs,
         script' = NoScript \/ (Ended' /\ ScriptTypes' /\ ScriptsChangeTheirOwn'),
         \A tk \in Symbols \ astray' : \A spec \in Specs : OneOfEach(bars'[tk][spec]),
         \A tk \in Symbols \ (astray' \cup unfinished') : Follows(bars'[tk])
  PROVE  IngestInv'
<1>1. Settled' = bars'
  BY DEF Settled
<1>2. script' = NoScript \/ (ScriptTypes' /\ Progress')
  BY DEF Progress
<1>3. runs' \in Nat
  BY DEF IngestInv
<1> QED  BY <1>1, <1>2, <1>3 DEF IngestInv

LEMMA RestsKeeps ==
  ASSUME IngestInv, Rests  PROVE IngestInv'
<1>1. /\ Ended /\ script' = NoScript
      /\ UNCHANGED <<bars, runs, unfinished, astray>>
  BY DEF Rests
<1>2. Settled = bars
  BY <1>1 DEF Settled
<1> QED  BY <1>1, <1>2, ScriptEnds DEF IngestInv

(* What the script had not changed is as it was settled.                    *)
LEMMA LeftInTheMiddle ==
  ASSUME IngestInv, script # NoScript, ~Ended, bars' \in Catalogs, UNCHANGED <<runs, astray>>,
         script' = NoScript \/ (Ended' /\ ScriptTypes' /\ ScriptsChangeTheirOwn'),
         unfinished' = unfinished \cup {tk \in Symbols : bars'[tk] # script.before[tk]},
         \A tk \in Symbols \ astray : \A spec \in Specs : OneOfEach(bars'[tk][spec])
  PROVE  IngestInv'
<1>1. Settled = script.before
  BY DEF Settled
<1>2. \A tk \in Symbols \ (astray' \cup unfinished') : Follows(bars'[tk])
  BY <1>1 DEF IngestInv
<1> QED  BY <1>2, ScriptEnds

LEMMA KilledKeeps ==
  ASSUME IngestInv, Killed  PROVE IngestInv'
<1>1. /\ script # NoScript /\ ~Ended /\ script' = NoScript
      /\ bars' = bars /\ UNCHANGED <<runs, astray>>
      /\ unfinished' = unfinished \cup {tk \in Symbols : bars'[tk] # script.before[tk]}
  BY DEF Killed
<1>2. bars \in Catalogs /\ \A tk \in Symbols \ astray : \A spec \in Specs : OneOfEach(bars[tk][spec])
  BY DEF IngestInv
<1> QED  BY <1>1, <1>2, LeftInTheMiddle

-----------------------------------------------------------------------------
(* The beginnings.                                                          *)
LEMMA StartIngestKeeps ==
  ASSUME IngestInv, StartIngest \/ StartStitch  PROVE IngestInv'
<1>1. CASE StartIngest
  <2>1. PICK targets \in SUBSET Tickers : StartScript("ingest", targets, 0, "clears", Years \X targets)
    BY <1>1 DEF StartIngest
  <2>2. /\ Blank' /\ script = NoScript /\ runs' = runs + 1 /\ UNCHANGED <<bars, astray, unfinished>>
        /\ script'.kind = "ingest" /\ script'.at = "clears" /\ script'.todo = Years \X targets
        /\ script'.targets = targets /\ targets \subseteq Tickers
    BY <2>1 DEF StartScript, Blank, Symbols
  <2>3. (\A tk \in Symbols : script'.fetched[tk] = {}) /\ (Progress' => IngestInv')
    BY <2>2, StartedScript
  <2>4. Clearing' /\ bars' = script'.before
    BY <2>2 DEF Clearing, Blank
  <2> QED  BY <2>2, <2>3, <2>4 DEF Progress
<1>2. CASE StartStitch
  <2>1. StartScript("stitch", {Stitched}, 0, "clears", DOMAIN Parts)
    BY <1>2 DEF StartStitch
  <2>2. /\ Blank' /\ script = NoScript /\ runs' = runs + 1 /\ UNCHANGED <<bars, astray, unfinished>>
        /\ script'.kind = "stitch" /\ script'.at = "clears" /\ script'.todo = DOMAIN Parts
        /\ script'.targets = {Stitched}
    BY <2>1 DEF StartScript, Blank, Symbols
  <2>3. (\A tk \in Symbols : script'.fetched[tk] = {}) /\ (Progress' => IngestInv')
    BY <2>2, StartedScript
  <2>4. Clearing' /\ bars' = script'.before
    BY <2>2 DEF Clearing, Blank
  <2> QED  BY <2>2, <2>3, <2>4 DEF Progress
<1> QED  BY <1>1, <1>2

LEMMA StartDownloadKeeps ==
  ASSUME IngestInv, StartDownload  PROVE IngestInv'
<1>1. PICK targets \in SUBSET Tickers : StartScript("download", targets, 0, "fetches", targets)
  BY DEF StartDownload
<1>2. /\ Blank' /\ script = NoScript /\ runs' = runs + 1 /\ UNCHANGED <<bars, astray, unfinished>>
      /\ script'.kind = "download" /\ script'.at = "fetches" /\ script'.todo = targets
      /\ script'.targets = targets /\ targets \subseteq Symbols /\ targets \subseteq Tickers
  BY <1>1 DEF StartScript, Blank, Symbols
<1>3. (\A tk \in Symbols : script'.fetched[tk] = {}) /\ (Progress' => IngestInv')
  BY <1>2, StartedScript
<1>4. script'.before = bars /\ script'.now = <<>> /\ script'.failed = {} /\ script'.aside = <<>>
  BY <1>2 DEF Blank
<1>5. \A tk \in targets : Plain(script'.fetched[tk], script'.run) /\ Swapped(tk)'
  BY <1>2, <1>3, <1>4, NothingYet DEF Swapped, HasOld
<1>6. Downloading' /\ Current' = {}
  BY <1>2, <1>3, <1>4, <1>5 DEF Downloading, Current
<1> QED  BY <1>2, <1>3, <1>4, <1>6 DEF Progress

LEMMA StartRebuildKeeps ==
  ASSUME IngestInv, StartRebuild  PROVE IngestInv'
<1> DEFINE targets == {tk \in Symbols : bars[tk]["minute"] # {}}
<1>1. StartScript("rebuild", targets, 0, "builds", targets \X TFs) /\ targets \subseteq Symbols
  BY DEF StartRebuild
<1> HIDE DEF targets
<1>2. /\ Blank' /\ script = NoScript /\ runs' = runs + 1 /\ UNCHANGED <<bars, astray, unfinished>>
      /\ script'.kind = "rebuild" /\ script'.at = "builds" /\ script'.todo = targets \X TFs
      /\ script'.targets = targets
  BY <1>1 DEF StartScript, Blank
<1>3. (\A tk \in Symbols : script'.fetched[tk] = {}) /\ (Progress' => IngestInv')
  BY <1>2, StartedScript
<1>4. script'.before = bars /\ script'.now = <<>> /\ script'.failed = {}
  BY <1>2 DEF Blank
<1>5. ASSUME NEW tk \in targets
      PROVE  HasOld(tk)' /\ \A tf \in TFs : Stands(tk, tf, script.before[tk][tf])'
  <2>1. HasOld(tk)'
    BY <1>1, <1>2, <1>3, <1>4 DEF HasOld
  <2>2. \A tf \in TFs : ToCome(tk, tf)' /\ bars'[tk][tf] = script'.before[tk][tf]
    BY <1>2, <1>4 DEF ToCome
  <2> QED  BY <2>1, <2>2 DEF Stands
<1>6. Building'
  BY <1>2, <1>4, <1>5 DEF Building
<1> QED  BY <1>2, <1>3, <1>6 DEF Progress

LEMMA StartRepairKeeps ==
  ASSUME IngestInv, StartRepair  PROVE IngestInv'
<1>1. PICK tk \in Tickers, d \in Days : StartScript("repair", {tk}, d, "sets aside", {"minute"})
  BY DEF StartRepair
<1>2. /\ Blank' /\ script = NoScript /\ runs' = runs + 1 /\ UNCHANGED <<bars, astray, unfinished>>
      /\ script'.kind = "repair" /\ script'.at = "sets aside" /\ script'.todo = {"minute"}
      /\ script'.targets = {tk} /\ script'.day = d
  BY <1>1 DEF StartScript, Blank, Symbols
<1>3. Progress' => IngestInv'
  BY <1>2, StartedScript
<1>4. \A spec \in Specs : ~Behind(spec)' /\ ~InHand(spec)' /\ bars'[tk][spec] = script'.before[tk][spec]
  BY <1>2 DEF Behind, InHand, Blank
<1>5. Repairing'
  BY <1>2, <1>4 DEF Repairing, Repairs
<1> QED  BY <1>2, <1>3, <1>5 DEF Progress

-----------------------------------------------------------------------------
(* The steps of a script.  A series is replaced.                            *)
WithSeries(cat, tk, spec, rows) == [cat EXCEPT ![tk][spec] = rows]

LEMMA OneSeries ==
  ASSUME NEW cat \in Catalogs, NEW tk \in Symbols, NEW spec \in Specs, NEW rows \in Rows
  PROVE  /\ WithSeries(cat, tk, spec, rows) \in Catalogs
         /\ WithSeries(cat, tk, spec, rows)[tk][spec] = rows
         /\ \A s \in Specs : s # spec => WithSeries(cat, tk, spec, rows)[tk][s] = cat[tk][s]
         /\ \A t \in Symbols : t # tk => WithSeries(cat, tk, spec, rows)[t] = cat[t]
<1> DEFINE now == WithSeries(cat, tk, spec, rows)
<1>1. cat[tk] \in [Specs -> Rows]
  BY DEF Catalogs
<1>2. now[tk] = [cat[tk] EXCEPT ![spec] = rows] /\ \A t \in Symbols : t # tk => now[t] = cat[t]
  BY DEF Catalogs, WithSeries
<1>3. now[tk] \in [Specs -> Rows] /\ now[tk][spec] = rows /\ \A s \in Specs : s # spec => now[tk][s] = cat[tk][s]
  BY <1>1, <1>2
<1>4. now = [t \in Symbols |-> now[t]] /\ \A t \in Symbols : now[t] \in [Specs -> Rows]
  BY <1>2, <1>3 DEF Catalogs, WithSeries
<1> QED  BY <1>2, <1>3, <1>4 DEF Catalogs

(* The bars of every other series are as they were.                         *)
LEMMA OnlyOneSeries ==
  ASSUME IngestInv, NEW tk \in Symbols, NEW spec \in Specs, NEW rows \in Rows,
         bars' = WithSeries(bars, tk, spec, rows), astray \subseteq astray', tk \in astray' \/ OneOfEach(rows)
  PROVE  /\ bars' \in Catalogs /\ bars'[tk][spec] = rows
         /\ \A s \in Specs : s # spec => bars'[tk][s] = bars[tk][s]
         /\ \A t \in Symbols : t # tk => bars'[t] = bars[t]
         /\ \A t \in Symbols \ astray' : \A s \in Specs : OneOfEach(bars'[t][s])
<1>1. bars \in Catalogs /\ \A t \in Symbols \ astray : \A s \in Specs : OneOfEach(bars[t][s])
  BY DEF IngestInv
<1>2. /\ bars' \in Catalogs /\ bars'[tk][spec] = rows
      /\ \A s \in Specs : s # spec => bars'[tk][s] = bars[tk][s]
      /\ \A t \in Symbols : t # tk => bars'[t] = bars[t]
  BY <1>1, OneSeries
<1> QED  BY <1>1, <1>2

(* What a step does not touch is as it was.                                 *)
LEMMA SameMinutes ==
  ASSUME NEW tk, bars'[tk]["minute"] = bars[tk]["minute"], script'.before = script.before,
         script'.kind = script.kind, script'.fetched = script.fetched, script'.failed = script.failed
  PROVE  HasOld(tk)' = HasOld(tk) /\ HasNew(tk)' = HasNew(tk)
BY DEF HasOld, HasNew

LEMMA SwappedStill ==
  ASSUME NEW tk \in Symbols, Swapped(tk), bars'[tk] = bars[tk], script'.before = script.before,
         script'.kind = script.kind, script'.fetched[tk] = script.fetched[tk],
         tk \in script'.failed <=> tk \in script.failed
  PROVE  Swapped(tk)'
BY DEF Swapped, HasOld, HasNew

LEMMA ClearsKeeps ==
  ASSUME IngestInv, Clears  PROVE IngestInv'
<1>1. /\ script.at = "clears" /\ script' = [script EXCEPT !.at = "fetches"]
      /\ bars' = [tk \in Symbols |-> IF tk \in script.targets THEN NoSeries ELSE bars[tk]]
      /\ UNCHANGED <<runs, unfinished, astray>>
  BY DEF Clears, ScriptAt
<1>2. script # NoScript /\ ~Ended
  BY <1>1 DEF NoScript, Ended
<1>3. /\ ScriptTypes /\ Progress /\ bars \in Catalogs
      /\ \A tk \in Symbols \ astray : \A spec \in Specs : OneOfEach(bars[tk][spec])
  BY <1>2 DEF IngestInv
<1>4. Clearing /\ bars = script.before /\ \A tk \in Symbols : script.fetched[tk] = {}
  BY <1>1, <1>3 DEF Progress, Ended
<1>5. /\ script' = [kind |-> script.kind, at |-> "fetches", targets |-> script.targets,
               todo |-> script.todo, now |-> script.now, day |-> script.day, run |-> script.run,
               before |-> script.before, fetched |-> script.fetched, aside |-> script.aside,
               failed |-> script.failed]
  BY <1>1, <1>3 DEF ScriptTypes
<1>6. /\ bars' \in Catalogs /\ \A tk \in Symbols \ astray : \A spec \in Specs : OneOfEach(bars'[tk][spec])
      /\ \A tk \in Symbols : tk \notin script.targets => bars'[tk] = bars[tk]
      /\ \A tk \in script.targets : tk \in Symbols /\ \A spec \in Specs : bars'[tk][spec] = {}
  BY <1>1, <1>3, NothingYet DEF Catalogs, OneOfEach, ScriptTypes
<1>7. ScriptTypes'
  BY <1>3, <1>5, <1>6 DEF ScriptTypes
<1>8. script' # NoScript /\ ~Ended'
  BY <1>5 DEF NoScript, Ended
<1>9. Clearing'
  BY <1>4, <1>5 DEF Clearing
<1>10. Loading'
  <2> SUFFICES ASSUME NEW tk \in script'.targets
               PROVE  /\ HasNew(tk)' /\ \A tf \in TFs : bars'[tk][tf] = {}
                      /\ Plain(script'.fetched[tk], script'.run)
    BY <1>9 DEF Loading
  <2>1. script'.fetched[tk] = {} /\ bars'[tk]["minute"] = {} /\ \A tf \in TFs : bars'[tk][tf] = {}
    BY <1>4, <1>5, <1>6, SpecsAre
  <2> QED  BY <1>4, <1>5, <2>1, NothingYet DEF HasNew, OneOfEach, Clearing
<1>11. Progress' /\ script'.before = script.before
  BY <1>5, <1>10 DEF Progress
<1> QED  BY <1>1, <1>2, <1>6, <1>7, <1>8, <1>11, ScriptGoesOn

(* Years and parts are added to what came already.                          *)
LEMMA LoadingGoesOn ==
  ASSUME IngestInv, script.at = "fetches", Loading, NEW tk \in script.targets, NEW rows \in Rows,
         OneOfEach(bars[tk]["minute"] \cup rows), NEW todo,
         script' = [script EXCEPT !.todo = todo, !.fetched[tk] = @ \cup rows],
         bars' = WithSeries(bars, tk, "minute", bars[tk]["minute"] \cup rows),
         UNCHANGED <<runs, unfinished, astray>>, todo \subseteq script.todo,
         script.kind = "ingest" => Plain(script.fetched[tk] \cup rows, script.run)
  PROVE  IngestInv'
<1>1. script # NoScript /\ ~Ended
  BY DEF NoScript, Ended
<1>2. ScriptTypes /\ bars \in Catalogs /\ tk \in Symbols /\ script.fetched \in [Symbols -> Rows]
  BY <1>1 DEF IngestInv, ScriptTypes
<1>3. bars[tk]["minute"] = script.fetched[tk] /\ bars[tk]["minute"] \cup rows \in Rows
  BY <1>2, CatalogsAre DEF Loading, HasNew, Rows
<1> DEFINE got == [script.fetched EXCEPT ![tk] = @ \cup rows]
<1>4. script' = [kind |-> script.kind, at |-> script.at, targets |-> script.targets,
               todo |-> todo, now |-> script.now, day |-> script.day, run |-> script.run,
               before |-> script.before, fetched |-> got, aside |-> script.aside,
               failed |-> script.failed]
  BY <1>2 DEF ScriptTypes
<1>40. script'.fetched = got
  BY <1>2 DEF ScriptTypes
<1>5. /\ got \in [Symbols -> Rows] /\ got[tk] = script.fetched[tk] \cup rows
      /\ \A t \in Symbols : t # tk => got[t] = script.fetched[t]
  BY <1>2, <1>3
<1> HIDE DEF got
<1>14. /\ script'.kind = script.kind /\ script'.fetched = got /\ script'.failed = script.failed
       /\ script'.targets = script.targets /\ script'.run = script.run /\ script'.before = script.before
  <2>1. script'.kind = script.kind
    BY <1>4
  <2>4. script'.fetched = got
    BY <1>40
  <2>2. script'.failed = script.failed /\ script'.targets = script.targets
    BY <1>4
  <2>3. script'.run = script.run /\ script'.before = script.before
    BY <1>4
  <2> QED  BY <2>1, <2>2, <2>3, <2>4
<1>6. /\ bars' \in Catalogs /\ \A t \in Symbols \ astray' : \A s \in Specs : OneOfEach(bars'[t][s])
      /\ bars'[tk]["minute"] = bars[tk]["minute"] \cup rows
      /\ \A s \in Specs : s # "minute" => bars'[tk][s] = bars[tk][s]
      /\ \A t \in Symbols : t # tk => bars'[t] = bars[t]
  BY <1>2, <1>3, OnlyOneSeries, SpecsAre
<1>7. bars'[tk]["minute"] = got[tk] /\ \A tf \in TFs : bars'[tk][tf] = bars[tk][tf]
  BY <1>3, <1>5, <1>6, SpecsAre
<1>8. ScriptTypes'
  <2>1. \A t \in Symbols \ script.targets : got[t] = {} /\ bars'[t] = script.before[t]
    BY <1>2, <1>5, <1>6 DEF ScriptTypes
  <2>2. \A t \in Symbols \ script'.targets : script'.fetched[t] = {} /\ bars'[t] = script'.before[t]
    BY <1>14, <2>1
  <2>3. /\ script'.kind \in {"ingest", "download", "rebuild", "repair", "stitch"}
        /\ script'.targets \subseteq Symbols /\ script'.run \in Nat /\ script'.before \in Catalogs
        /\ script'.fetched \in [Symbols -> Rows] /\ script'.failed \subseteq script'.targets
    BY <1>2, <1>5, <1>14 DEF ScriptTypes
  <2>4. script' = [kind |-> script'.kind, at |-> script'.at, targets |-> script'.targets,
               todo |-> script'.todo, now |-> script'.now, day |-> script'.day, run |-> script'.run,
               before |-> script'.before, fetched |-> script'.fetched, aside |-> script'.aside,
               failed |-> script'.failed]
    BY <1>4
  <2> QED  BY <2>2, <2>3, <2>4 DEF ScriptTypes
<1>9. script' # NoScript /\ ~Ended' /\ script'.before = script.before /\ script'.at = "fetches"
  BY <1>1, <1>4 DEF NoScript, Ended
<1>10. Clearing'
  BY <1>4 DEF Loading, Clearing
<1>11. ASSUME NEW t \in script.targets
       PROVE  /\ HasNew(t)' /\ \A tf \in TFs : bars'[t][tf] = {}
              /\ script'.kind = "ingest" => Plain(script'.fetched[t], script'.run)
  <2>1. t \in Symbols
    BY <1>2 DEF ScriptTypes
  <2>2. CASE t = tk
    <3>1. OneOfEach(got[tk]) /\ bars'[tk]["minute"] = got[tk]
      BY <1>3, <1>5, <1>7
    <3>2. HasNew(tk) /\ \A tf \in TFs : bars[tk][tf] = {}
      BY DEF Loading
    <3>3. HasNew(tk)'
      BY <1>14, <3>1, <3>2 DEF HasNew
    <3>4. script'.kind = "ingest" => Plain(script'.fetched[tk], script'.run)
      BY <1>14, <1>5
    <3> QED  BY <1>7, <2>2, <3>2, <3>3, <3>4
  <2>3. CASE t # tk
    <3>1. HasNew(t) /\ (\A tf \in TFs : bars[t][tf] = {}) /\ (script.kind = "ingest" => Plain(script.fetched[t], script.run))
      BY DEF Loading
    <3>2. got[t] = script.fetched[t] /\ bars'[t] = bars[t]
      BY <1>5, <1>6, <2>1, <2>3
    <3> QED  BY <1>14, <3>1, <3>2 DEF HasNew
  <2> QED  BY <2>2, <2>3
<1>12. Loading'
  BY <1>4, <1>10, <1>11 DEF Loading
<1>13. Progress'
  BY <1>9, <1>12 DEF Progress
<1> QED  BY <1>1, <1>6, <1>8, <1>9, <1>13, ScriptGoesOn

LEMMA IngestYearKeeps ==
  ASSUME IngestInv, IngestYear  PROVE IngestInv'
<1>1. script.kind = "ingest" /\ script.at = "fetches" /\ UNCHANGED <<runs, unfinished, astray>>
  BY DEF IngestYear
<1>2. script # NoScript /\ ~Ended
  BY <1>1 DEF NoScript, Ended
<1>3. ScriptTypes /\ Loading
  BY <1>1, <1>2 DEF IngestInv, Progress, Downloading, Ended
<1>4. PICK w \in script.todo :
        /\ script' = [script EXCEPT !.todo = @ \ {w}, !.fetched[w[2]] = @ \cup Offered(w[2], w[1], script.run)]
        /\ bars' = WithSeries(bars, w[2], "minute", bars[w[2]]["minute"] \cup Offered(w[2], w[1], script.run))
  BY DEF IngestYear, Series, WithSeries
<1> DEFINE tk == w[2]
           rows == Offered(w[2], w[1], script.run)
           todo == script.todo \ {w}
<1>5. tk \in script.targets /\ tk \in Tickers /\ w[1] \in Int
  BY <1>1, <1>3 DEF Loading, Clearing, Years
<1>6. rows \in Rows /\ Plain(rows, script.run)
  BY <1>3, <1>5, OfferedRows DEF ScriptTypes
<1>7. /\ script.fetched[tk] \in Rows /\ Plain(script.fetched[tk], script.run)
      /\ bars[tk]["minute"] = script.fetched[tk]
  BY <1>1, <1>3, <1>5 DEF Loading, ScriptTypes, HasNew, Symbols
<1>8. Plain(script.fetched[tk] \cup rows, script.run)
  BY <1>6, <1>7, PlainTogether
<1>9. OneOfEach(bars[tk]["minute"] \cup rows)
  BY <1>7, <1>8, PlainOneOfEach
<1>10. /\ script' = [script EXCEPT !.todo = todo, !.fetched[tk] = @ \cup rows]
       /\ bars' = WithSeries(bars, tk, "minute", bars[tk]["minute"] \cup rows)
       /\ todo \subseteq script.todo
  BY <1>4
<1> HIDE DEF tk, rows, todo
<1> QED  BY <1>1, <1>3, <1>5, <1>6, <1>8, <1>9, <1>10, LoadingGoesOn

(* A part has a label once, and none that an earlier part had.              *)
LEMMA LabelsOfParts ==
  ASSUME bars \in Catalogs, NEW k \in DOMAIN Parts, OneOfEach(bars[Stitched]["minute"])
  PROVE  /\ FreshLabels(k) \in Rows
         /\ OneOfEach(bars[Stitched]["minute"] \cup FreshLabels(k))
<1> DEFINE tk == Parts[k]
           minutes == bars[tk]["minute"]
           had == {b.at : b \in bars[Stitched]["minute"]}
           labels == {b.at : b \in {b \in minutes :
                   Year(DayOf(b.at)) \in Year(FirstDay(tk)) .. Year(Max(DaysOf(bars[tk]["day"])))}}
                \ had
           Of(l) == [(CHOOSE b \in minutes : b.at = l) EXCEPT !.file = 10 * k + Year(DayOf(l))]
<1>1. k \in Nat /\ tk \in Symbols /\ Stitched \in Symbols
  BY PartsAre DEF Symbols
<1>2. minutes \in Rows /\ FreshLabels(k) = {Of(l) : l \in labels}
  BY <1>1, CatalogsAre DEF FreshLabels
<1>3. ASSUME NEW l \in labels
      PROVE  Of(l) \in [file : Int, at : Labels, from : SUBSET Nat] /\ Of(l).at = l /\ l \notin had
  <2>1. (CHOOSE b \in minutes : b.at = l) \in minutes /\ (CHOOSE b \in minutes : b.at = l).at = l /\ l \in Labels
    <3>1. \E b \in minutes : b.at = l
      OBVIOUS
    <3> HIDE DEF minutes, labels, had
    <3> QED  BY <1>2, <3>1 DEF Rows
  <2> DEFINE b == CHOOSE b \in minutes : b.at = l
  <2>2. b \in [file : Int, at : Labels, from : SUBSET Nat] /\ b.at = l
    BY <1>2, <2>1 DEF Rows
  <2>3. 10 * k + Year(DayOf(l)) \in Int
    <3>1. DayOf(l) \in Int
      BY <2>1, DayOfLabel DEF Days
    <3>2. Year(DayOf(l)) \in Int
      BY <3>1, IngestNumbers DEF Year
    <3> QED  BY <1>1, <3>2
  <2>4. l \notin had
    OBVIOUS
  <2> HIDE DEF b
  <2>5. [b EXCEPT !.file = 10 * k + Year(DayOf(l))] \in [file : Int, at : Labels, from : SUBSET Nat]
        /\ [b EXCEPT !.file = 10 * k + Year(DayOf(l))].at = l
    BY <2>2, <2>3
  <2> QED  BY <2>4, <2>5 DEF b
<1> HIDE DEF labels, Of, had
<1>4. FreshLabels(k) \in Rows
  BY <1>2, <1>3 DEF Rows
<1>5. OneOfEach(bars[Stitched]["minute"] \cup FreshLabels(k))
  <2> SUFFICES ASSUME NEW b \in bars[Stitched]["minute"] \cup FreshLabels(k),
                      NEW c \in bars[Stitched]["minute"] \cup FreshLabels(k), b.at = c.at
               PROVE  b = c
    BY DEF OneOfEach
  <2>1. ASSUME NEW x \in bars[Stitched]["minute"]  PROVE x.at \in had
    BY DEF had
  <2>2. ASSUME NEW x \in FreshLabels(k)  PROVE x.at \notin had /\ x = Of(x.at)
    BY <1>2, <1>3
  <2> QED  BY <2>1, <2>2 DEF OneOfEach
<1> QED  BY <1>4, <1>5

LEMMA JoinsKeeps ==
  ASSUME IngestInv, Joins  PROVE IngestInv'
<1>1. script.kind = "stitch" /\ script.at = "fetches" /\ UNCHANGED <<runs, unfinished, astray>>
  BY DEF Joins
<1>2. script # NoScript /\ ~Ended
  BY <1>1 DEF NoScript, Ended
<1>3. ScriptTypes /\ Loading /\ bars \in Catalogs
  BY <1>1, <1>2 DEF IngestInv, Progress, Downloading, Ended
<1>4. PICK k \in script.todo :
        /\ script' = [script EXCEPT !.todo = @ \ {k}, !.fetched[Stitched] = @ \cup FreshLabels(k)]
        /\ bars' = WithSeries(bars, Stitched, "minute", bars[Stitched]["minute"] \cup FreshLabels(k))
  BY DEF Joins, Series, WithSeries
<1> DEFINE rows == FreshLabels(k)
           todo == script.todo \ {k}
<1>5. k \in DOMAIN Parts /\ Stitched \in script.targets /\ OneOfEach(bars[Stitched]["minute"])
  BY <1>1, <1>3 DEF Loading, Clearing, HasNew
<1>6. rows \in Rows /\ OneOfEach(bars[Stitched]["minute"] \cup rows)
  BY <1>3, <1>5, LabelsOfParts
<1>7. /\ script' = [script EXCEPT !.todo = todo, !.fetched[Stitched] = @ \cup rows]
      /\ bars' = WithSeries(bars, Stitched, "minute", bars[Stitched]["minute"] \cup rows)
      /\ todo \subseteq script.todo
  BY <1>4
<1> HIDE DEF rows, todo
<1> QED  BY <1>1, <1>3, <1>5, <1>6, <1>7, LoadingGoesOn

(* A download goes on with one ticker, the others as they were.             *)
LEMMA DownloadGoesOn ==
  ASSUME IngestInv, Downloading, script.at \in {"fetches", "swaps"},
         NEW x \in script.targets, Current \subseteq {x}, bars' \in Catalogs,
         script' = [kind |-> script'.kind, at |-> script'.at, targets |-> script'.targets,
               todo |-> script'.todo, now |-> script'.now, day |-> script'.day, run |-> script'.run,
               before |-> script'.before, fetched |-> script'.fetched, aside |-> script'.aside,
               failed |-> script'.failed],
         script'.kind = script.kind, script'.targets = script.targets, script'.run = script.run,
         script'.before = script.before, script'.at \in {"fetches", "swaps"},
         script'.todo \subseteq script.todo \ {x}, script'.fetched \in [Symbols -> Rows],
         Plain(script'.fetched[x], script.run), script'.failed \subseteq script.targets,
         \A t \in Symbols : t # x =>
           /\ bars'[t] = bars[t] /\ script'.fetched[t] = script.fetched[t]
           /\ t \in script'.failed <=> t \in script.failed,
         \A t \in Symbols \ astray : \A spec \in Specs : OneOfEach(bars'[t][spec]),
         UNCHANGED <<runs, unfinished, astray>>,
         \/ script'.now = <<>> /\ Swapped(x)'
         \/ /\ script'.now # <<>> /\ script'.now[1] = x /\ script'.now[2] \in Int
            /\ x \notin script'.failed,
         script'.at = "fetches" =>
           script'.aside = <<>> /\ (script'.now # <<>> => bars'[x] = script.before[x]),
         script'.at = "swaps" => script'.now # <<>> /\ Moving(x)'
  PROVE  IngestInv'
<1>1. script # NoScript /\ ~Ended /\ ~Ended' /\ script' # NoScript
  <2>1. NoScript.kind = "none"
    BY DEF NoScript
  <2> QED  BY <2>1 DEF Ended, Downloading
<1>2. ScriptTypes /\ script.targets \subseteq Symbols
  BY <1>1 DEF IngestInv, ScriptTypes
<1>3. ScriptTypes'
  <2>1. \A t \in Symbols \ script'.targets : script'.fetched[t] = {} /\ bars'[t] = script'.before[t]
    BY <1>2 DEF ScriptTypes
  <2>2. /\ script'.kind \in {"ingest", "download", "rebuild", "repair", "stitch"}
        /\ script'.targets \subseteq Symbols /\ script'.run \in Nat /\ script'.before \in Catalogs
    BY <1>2 DEF ScriptTypes
  <2> QED  BY <2>1, <2>2 DEF ScriptTypes
<1>4. ASSUME NEW t \in script.targets, t # x
      PROVE  Swapped(t)' /\ Plain(script'.fetched[t], script'.run)
  <2>1. Swapped(t) /\ t \in Symbols /\ Plain(script.fetched[t], script.run)
    BY <1>2, <1>4 DEF Downloading
  <2> QED  BY <1>4, <2>1, SwappedStill
<1>5. script'.now = <<>> \/ (script'.now # <<>> /\ Current' = {x})
  BY DEF Current
<1>6. \A t \in script'.todo : script'.fetched[t] = {} /\ bars'[t] = script'.before[t]
                               /\ t \in script'.targets \ script'.failed
  BY <1>2 DEF Downloading
<1>7. \A t \in script'.targets \ Current' : Swapped(t)'
  BY <1>4, <1>5
<1>8. Downloading'
  <2>1. script'.kind = "download" /\ script'.targets \subseteq Tickers
    BY DEF Downloading
  <2>2. \/ script'.now = <<>>
        \/ /\ script'.now[1] \in script'.targets \ (script'.todo \cup script'.failed)
           /\ script'.now[2] \in Int
    OBVIOUS
  <2>3. \A t \in script'.targets : Plain(script'.fetched[t], script'.run)
    BY <1>4
  <2> QED  BY <1>6, <1>7, <2>1, <2>2, <2>3 DEF Downloading
<1>9. Progress'
  <2>1. CASE script'.at = "fetches"
    <3>1. \A t \in Current' : bars'[t] = script'.before[t]
      BY <2>1 DEF Current
    <3> QED  BY <1>8, <2>1, <3>1 DEF Progress
  <2>2. CASE script'.at = "swaps"
    <3>1. script'.now[1] = x /\ script'.now # <<>>
      BY <2>2
    <3>2. Moving(script.now[1])'
      BY <2>2, <3>1 DEF Moving, MovedOut
    <3> QED  BY <1>8, <2>2, <3>1, <3>2 DEF Progress
  <2> QED  BY <2>1, <2>2
<1> QED  BY <1>1, <1>3, <1>9, ScriptGoesOn

(* What a download's invariant says while it fetches.                       *)
LEMMA Fetching ==
  ASSUME IngestInv, script.kind = "download", script.at = "fetches"
  PROVE  /\ script # NoScript /\ ~Ended /\ ScriptTypes /\ Downloading /\ script.aside = <<>>
         /\ bars \in Catalogs /\ \A tk \in Current : bars[tk] = script.before[tk]
         /\ \A t \in Symbols \ astray : \A spec \in Specs : OneOfEach(bars[t][spec])
<1>1. script # NoScript /\ ~Ended
  BY DEF NoScript, Ended
<1> QED  BY <1>1 DEF IngestInv, Progress, Loading, Clearing, Ended

LEMMA NextTickerKeeps ==
  ASSUME IngestInv, NextTicker  PROVE IngestInv'
<1>1. /\ script.kind = "download" /\ script.at = "fetches" /\ script.now = <<>>
      /\ UNCHANGED <<bars, runs, unfinished, astray>>
  BY DEF NextTicker
<1>2. PICK tk \in script.todo : script' = [script EXCEPT !.now = <<tk, 1>>, !.todo = @ \ {tk}]
  BY DEF NextTicker
<1>3. /\ ScriptTypes /\ Downloading /\ script.aside = <<>> /\ bars \in Catalogs
      /\ \A t \in Symbols \ astray : \A spec \in Specs : OneOfEach(bars[t][spec])
  BY <1>1, Fetching
<1>4. script' = [kind |-> script.kind, at |-> script.at, targets |-> script.targets,
               todo |-> script.todo \ {tk}, now |-> <<tk, 1>>, day |-> script.day, run |-> script.run,
               before |-> script.before, fetched |-> script.fetched, aside |-> script.aside,
               failed |-> script.failed]
  BY <1>2, <1>3 DEF ScriptTypes
<1>5. tk \in script.targets \ script.failed /\ bars[tk] = script.before[tk] /\ script.fetched[tk] = {}
  BY <1>3 DEF Downloading
<1>6. Current = {} /\ script'.now # <<>> /\ script'.now[1] = tk /\ script'.now[2] = 1
  BY <1>1, <1>4 DEF Current
<1>7. /\ script'.kind = script.kind /\ script'.targets = script.targets /\ script'.run = script.run
      /\ script'.before = script.before /\ script'.at = "fetches"
      /\ script'.todo = script.todo \ {tk} /\ script'.fetched = script.fetched
      /\ script'.failed = script.failed /\ script'.aside = <<>>
  BY <1>1, <1>3, <1>4
<1>8. script' = [kind |-> script'.kind, at |-> script'.at, targets |-> script'.targets,
               todo |-> script'.todo, now |-> script'.now, day |-> script'.day, run |-> script'.run,
               before |-> script'.before, fetched |-> script'.fetched, aside |-> script'.aside,
               failed |-> script'.failed]
  BY <1>4
<1>9. script.fetched \in [Symbols -> Rows] /\ script.failed \subseteq script.targets /\ Plain(script.fetched[tk], script.run)
  BY <1>3, <1>5, NothingYet DEF ScriptTypes
<1>10. /\ \A t \in Symbols : t # tk =>
            /\ bars'[t] = bars[t] /\ script'.fetched[t] = script.fetched[t]
            /\ t \in script'.failed <=> t \in script.failed
       /\ script'.now # <<>> /\ script'.now[1] = tk /\ script'.now[2] \in Int /\ tk \notin script'.failed
       /\ script'.aside = <<>> /\ bars'[tk] = script.before[tk] /\ script'.at = "fetches"
  BY <1>1, <1>5, <1>6, <1>7
<1>11. /\ tk \in script.targets /\ Current \subseteq {tk} /\ bars' \in Catalogs
       /\ script'.todo \subseteq script.todo \ {tk} /\ script'.fetched \in [Symbols -> Rows]
       /\ Plain(script'.fetched[tk], script.run) /\ script'.failed \subseteq script.targets
       /\ \A t \in Symbols \ astray : \A spec \in Specs : OneOfEach(bars'[t][spec])
  BY <1>1, <1>3, <1>5, <1>6, <1>7, <1>9
<1> QED  BY <1>1, <1>3, <1>7, <1>8, <1>10, <1>11, DownloadGoesOn

(* A step of the ticker that is fetched, whose bars stay.                   *)
LEMMA FetchGoesOn ==
  ASSUME IngestInv, script.kind = "download", script.at = "fetches", script.now # <<>>,
         NEW x, x = script.now[1],
         script' = [script EXCEPT !.at = script'.at, !.now = script'.now, !.fetched = script'.fetched,
                                  !.failed = script'.failed],
         script'.fetched \in [Symbols -> Rows], Plain(script'.fetched[x], script.run),
         \A t \in Symbols : t # x => script'.fetched[t] = script.fetched[t],
         script'.failed = script.failed \/ script'.failed = script.failed \cup {x},
         UNCHANGED <<bars, runs, unfinished, astray>>,
         \/ script'.at = "fetches" /\ script'.now = <<>> /\ (script'.fetched[x] = {} \/ x \in script'.failed)
         \/ /\ script'.now # <<>> /\ script'.now[1] = x /\ script'.now[2] \in Int
            /\ script'.failed = script.failed
            /\ script'.at = "fetches" \/ (script'.at = "swaps" /\ script'.fetched[x] # {})
  PROVE  IngestInv'
<1>1. /\ ScriptTypes /\ Downloading /\ script.aside = <<>> /\ bars \in Catalogs
      /\ \A tk \in Current : bars[tk] = script.before[tk]
      /\ \A t \in Symbols \ astray : \A spec \in Specs : OneOfEach(bars[t][spec])
  BY Fetching
<1>2. /\ x \in script.targets \ (script.todo \cup script.failed) /\ Current = {x}
      /\ x \in Symbols /\ bars[x] = script.before[x] /\ script.failed \subseteq script.targets
  BY <1>1 DEF Downloading, Current, ScriptTypes
<1>3. script' = [kind |-> script.kind, at |-> script'.at, targets |-> script.targets,
               todo |-> script.todo, now |-> script'.now, day |-> script.day, run |-> script.run,
               before |-> script.before, fetched |-> script'.fetched, aside |-> script.aside,
               failed |-> script'.failed]
  BY <1>1 DEF ScriptTypes
<1>4. /\ script'.kind = script.kind /\ script'.targets = script.targets /\ script'.run = script.run
      /\ script'.before = script.before /\ script'.todo = script.todo /\ script'.aside = <<>>
  BY <1>1, <1>3
<1>5. script' = [kind |-> script'.kind, at |-> script'.at, targets |-> script'.targets,
               todo |-> script'.todo, now |-> script'.now, day |-> script'.day, run |-> script'.run,
               before |-> script'.before, fetched |-> script'.fetched, aside |-> script'.aside,
               failed |-> script'.failed]
  BY <1>3
<1>6. bars' \in Catalogs /\ \A t \in Symbols \ astray : \A spec \in Specs : OneOfEach(bars'[t][spec])
  BY <1>1
<1>7. \A t \in Symbols : t # x =>
        /\ bars'[t] = bars[t] /\ script'.fetched[t] = script.fetched[t]
        /\ t \in script'.failed <=> t \in script.failed
  BY <1>4
<1>8. script'.todo \subseteq script.todo \ {x} /\ script'.failed \subseteq script.targets
  BY <1>2, <1>4
<1>9. \/ script'.now = <<>> /\ Swapped(x)'
      \/ /\ script'.now # <<>> /\ script'.now[1] = x /\ script'.now[2] \in Int
         /\ x \notin script'.failed
  <2>1. CASE script'.now = <<>>
    <3>1. HasOld(x)'
      BY <1>1, <1>2, <1>4, <2>1 DEF HasOld
    <3> QED  BY <1>2, <1>4, <2>1, <3>1 DEF Swapped
  <2>2. CASE script'.now # <<>>
    BY <1>2, <1>4, <2>2
  <2> QED  BY <2>1, <2>2
<1>10. script'.at = "swaps" => script'.now # <<>> /\ Moving(x)'
  <2> SUFFICES ASSUME script'.at = "swaps"  PROVE script'.now # <<>> /\ Moving(x)'
    OBVIOUS
  <2>1. script'.now # <<>> /\ script'.fetched[x] # {}
    OBVIOUS
  <2>2. script'.aside \in Seq(Specs \X Rows) /\ DOMAIN script'.aside = {}
    <3>1. <<>> \in Seq(Specs \X Rows) /\ DOMAIN <<>> = {}
      OBVIOUS
    <3> QED  BY <1>4, <3>1
  <2>3. MovedOut' = {}
    BY <2>2 DEF MovedOut
  <2> QED  BY <1>2, <1>4, <2>1, <2>2, <2>3 DEF Moving
<1>11. script'.at \in {"fetches", "swaps"} /\ bars'[x] = script.before[x]
  BY <1>2, <1>4
<1> QED  BY <1>1, <1>2, <1>4, <1>5, <1>6, <1>7, <1>8, <1>9, <1>10, <1>11, DownloadGoesOn

LEMMA FetchYearKeeps ==
  ASSUME IngestInv, FetchYear  PROVE IngestInv'
<1>1. /\ script.kind = "download" /\ script.at = "fetches" /\ script.now # <<>>
      /\ UNCHANGED <<bars, runs, unfinished, astray>>
  BY DEF FetchYear
<1> DEFINE x == script.now[1]
           y == script.now[2]
<1>2. ScriptTypes /\ Downloading /\ x \in script.targets /\ y \in Int
  BY <1>1, Fetching DEF Downloading
<1>3. /\ x \in Tickers /\ x \in Symbols /\ script.run \in Nat /\ script.fetched \in [Symbols -> Rows]
      /\ Plain(script.fetched[x], script.run) /\ script.fetched[x] \in Rows
  BY <1>2 DEF Downloading, ScriptTypes
<1>4. \/ GetsYear(x, y, script.fetched[x] \cup Offered(x, y, script.run))
      \/ GetsYear(x, y, script.fetched[x])
      \/ PassedOver(x)
  BY DEF FetchYear
<1>5. Offered(x, y, script.run) \in Rows /\ Plain(Offered(x, y, script.run), script.run)
  BY <1>2, <1>3, OfferedRows
<1>6. /\ script.fetched[x] \cup Offered(x, y, script.run) \in Rows
      /\ Plain(script.fetched[x] \cup Offered(x, y, script.run), script.run)
  BY <1>3, <1>5, PlainTogether
<1>7. CASE PassedOver(x)
  <2>1. script' = [script EXCEPT !.failed = script.failed \cup {x}, !.now = <<>>]
    BY <1>7 DEF PassedOver
  <2>2. /\ script'.at = "fetches" /\ script'.now = <<>> /\ script'.fetched = script.fetched
        /\ script'.failed = script.failed \cup {x}
    BY <1>1, <1>2, <2>1 DEF ScriptTypes
  <2>3. script' = [script EXCEPT !.at = script'.at, !.now = script'.now, !.fetched = script'.fetched,
                                 !.failed = script'.failed]
    BY <1>1, <1>2, <2>1 DEF ScriptTypes
  <2>4. x \in script'.failed
    BY <2>2
  <2>5. x = script.now[1]
    OBVIOUS
  <2> HIDE DEF x, y
  <2> QED  BY <1>1, <1>3, <2>2, <2>3, <2>4, <2>5, FetchGoesOn
<1>8. ASSUME NEW rows \in Rows, Plain(rows, script.run), GetsYear(x, y, rows), script.fetched[x] \subseteq rows
      PROVE  IngestInv'
  <2>1. PICK got : got = [script.fetched EXCEPT ![x] = rows]
    OBVIOUS
  <2>2. /\ got \in [Symbols -> Rows] /\ got[x] = rows
        /\ \A t \in Symbols : t # x => got[t] = script.fetched[t]
    BY <1>3, <2>1
  <2>3. \/ /\ script' = [script EXCEPT !.now = <<x, y + 1>>, !.fetched = got]
        \/ rows = {} /\ script' = [script EXCEPT !.now = <<>>]
        \/ rows # {} /\ script' = [script EXCEPT !.fetched = got, !.at = "swaps"]
    BY <1>8, <2>1 DEF GetsYear
  <2>4. /\ script' = [script EXCEPT !.at = script'.at, !.now = script'.now, !.fetched = script'.fetched,
                                  !.failed = script'.failed]
        /\ script'.failed = script.failed /\ script'.fetched = got
        /\ \/ script'.at = "fetches" /\ script'.now = <<>> /\ rows = {}
           \/ script'.at = "fetches" /\ script'.now = <<x, y + 1>>
           \/ script'.at = "swaps" /\ rows # {} /\ script'.now = script.now
    <3>1. CASE script' = [script EXCEPT !.now = <<x, y + 1>>, !.fetched = got]
      BY <1>1, <1>2, <3>1 DEF ScriptTypes
    <3>2. CASE rows = {} /\ script' = [script EXCEPT !.now = <<>>]
      <4>1. got = script.fetched
        BY <1>3, <1>8, <2>1, <3>2
      <4> QED  BY <1>1, <1>2, <3>2, <4>1 DEF ScriptTypes
    <3>3. CASE rows # {} /\ script' = [script EXCEPT !.fetched = got, !.at = "swaps"]
      BY <1>1, <1>2, <3>3 DEF ScriptTypes
    <3> QED  BY <2>3, <3>1, <3>2, <3>3
  <2>5. \/ script'.at = "fetches" /\ script'.now = <<>> /\ script'.fetched[x] = {}
        \/ /\ script'.now # <<>> /\ script'.now[1] = x /\ script'.now[2] \in Int
           /\ script'.at = "fetches" \/ (script'.at = "swaps" /\ script'.fetched[x] # {})
    <3>1. /\ <<x, y + 1>> # <<>> /\ <<x, y + 1>>[1] = x /\ <<x, y + 1>>[2] \in Int
          /\ script.now # <<>> /\ script.now[1] = x /\ script.now[2] \in Int
      BY <1>1, <1>2
    <3>2. script'.fetched[x] = rows
      BY <2>2, <2>4
    <3> HIDE DEF x, y
    <3>3. CASE script'.now = <<x, y + 1>>
      BY <2>4, <3>1, <3>2, <3>3
    <3> QED  BY <2>4, <3>1, <3>2, <3>3
  <2>6. x = script.now[1]
    OBVIOUS
  <2> HIDE DEF x, y
  <2> QED  BY <1>1, <1>8, <2>2, <2>4, <2>5, <2>6, FetchGoesOn
<1> QED  BY <1>3, <1>4, <1>6, <1>7, <1>8

(* What is moved out goes back to where it was.                             *)
LEMMA OneMoreAside ==
  ASSUME NEW S, NEW s \in Seq(S), NEW e \in S
  PROVE  /\ Append(s, e) \in Seq(S)
         /\ \A k \in DOMAIN Append(s, e) : Append(s, e)[k] = e \/ (k \in DOMAIN s /\ Append(s, e)[k] = s[k])
         /\ \A k \in DOMAIN s : k \in DOMAIN Append(s, e) /\ Append(s, e)[k] = s[k]
         /\ \E k \in DOMAIN Append(s, e) : Append(s, e)[k] = e
<1>1. /\ Append(s, e) \in Seq(S) /\ Len(s) \in Nat /\ DOMAIN s = 1..Len(s)
      /\ DOMAIN Append(s, e) = 1..(Len(s) + 1) /\ Append(s, e)[Len(s) + 1] = e
      /\ \A k \in 1..Len(s) : Append(s, e)[k] = s[k]
  BY AppendProperties, LenProperties
<1> QED  BY <1>1

LEMMA Swapping ==
  ASSUME IngestInv, script.at = "swaps"
  PROVE  /\ script # NoScript /\ ~Ended /\ ScriptTypes /\ Downloading /\ script.now # <<>>
         /\ Moving(script.now[1]) /\ Current = {script.now[1]}
         /\ script.now[1] \in script.targets \ (script.todo \cup script.failed)
         /\ script.now[1] \in Symbols /\ bars \in Catalogs
         /\ \A t \in Symbols \ astray : \A spec \in Specs : OneOfEach(bars[t][spec])
<1>1. script # NoScript /\ ~Ended
  BY DEF NoScript, Ended
<1>2. /\ ScriptTypes /\ Downloading /\ script.now # <<>> /\ Moving(script.now[1]) /\ bars \in Catalogs
      /\ \A t \in Symbols \ astray : \A spec \in Specs : OneOfEach(bars[t][spec])
  BY <1>1 DEF IngestInv, Progress, Ended
<1> QED  BY <1>1, <1>2 DEF Downloading, Current, ScriptTypes

LEMMA MovesOutKeeps ==
  ASSUME IngestInv, MovesOut  PROVE IngestInv'
<1>0. PICK x : x = script.now[1]
  OBVIOUS
<1>1. script.at = "swaps" /\ UNCHANGED <<runs, unfinished, astray>>
  BY DEF MovesOut
<1>2. PICK spec \in Present(x) :
        /\ bars' = WithSeries(bars, x, spec, {})
        /\ script' = [script EXCEPT !.aside = Append(@, <<spec, bars[x][spec]>>)]
  BY <1>0 DEF MovesOut, Series, WithSeries
<1>3. /\ ScriptTypes /\ Downloading /\ script.now # <<>>
      /\ Moving(x) /\ Current = {x} /\ x \in script.targets \ (script.todo \cup script.failed)
      /\ x \in Symbols /\ bars \in Catalogs
  BY <1>0, <1>1, Swapping
<1>4. spec \in Specs /\ bars[x][spec] # {} /\ bars[x][spec] \in Rows /\ x = script.now[1]
  BY <1>0, <1>2, <1>3, CatalogsAre DEF Present
<1>5. /\ bars' \in Catalogs /\ bars'[x][spec] = {}
      /\ \A s \in Specs : s # spec => bars'[x][s] = bars[x][s]
      /\ \A t \in Symbols : t # x => bars'[t] = bars[t]
      /\ \A t \in Symbols \ astray : \A s \in Specs : OneOfEach(bars'[t][s])
  <2>1. {} \in Rows /\ OneOfEach({})
    BY NothingYet DEF OneOfEach
  <2> QED  BY <1>1, <1>2, <1>3, <1>4, <2>1, OnlyOneSeries
<1>6. PICK e : e = <<spec, bars[x][spec]>>
  OBVIOUS
<1>7. script' = [script EXCEPT !.aside = Append(script.aside, e)]
  BY <1>2, <1>6
<1>8. /\ script'.kind = script.kind /\ script'.targets = script.targets /\ script'.run = script.run
      /\ script'.before = script.before /\ script'.at = "swaps" /\ script'.now = script.now
      /\ script'.todo = script.todo /\ script'.fetched = script.fetched
      /\ script'.failed = script.failed /\ script'.aside = Append(script.aside, e)
      /\ script' = [kind |-> script'.kind, at |-> script'.at, targets |-> script'.targets,
               todo |-> script'.todo, now |-> script'.now, day |-> script'.day, run |-> script'.run,
               before |-> script'.before, fetched |-> script'.fetched, aside |-> script'.aside,
               failed |-> script'.failed]
  BY <1>1, <1>3, <1>7 DEF ScriptTypes
<1>9. e \in Specs \X Rows /\ e[1] = spec /\ e[2] = bars[x][spec]
  BY <1>4, <1>6
<1>10. bars[x][spec] = script.before[x][spec]
  BY <1>3, <1>4 DEF Moving
<1>11. Moving(x)'
  <2>1. script'.aside \in Seq(Specs \X Rows)
    BY <1>3, <1>8, <1>9, OneMoreAside DEF Moving
  <2>2. /\ script.aside \in Seq(Specs \X Rows)
        /\ \A k \in DOMAIN script.aside : script.aside[k][2] = script.before[x][script.aside[k][1]]
    BY <1>3 DEF Moving
  <2>3. /\ \A k \in DOMAIN script'.aside :
             script'.aside[k] = e \/ (k \in DOMAIN script.aside /\ script'.aside[k] = script.aside[k])
        /\ \A k \in DOMAIN script.aside : k \in DOMAIN script'.aside /\ script'.aside[k] = script.aside[k]
        /\ \E k \in DOMAIN script'.aside : script'.aside[k] = e
    BY <1>8, <1>9, <2>2, OneMoreAside
  <2>4. \A k \in DOMAIN script'.aside : script'.aside[k][2] = script'.before[x][script'.aside[k][1]]
    BY <1>8, <1>9, <1>10, <2>2, <2>3
  <2>5. MovedOut' = MovedOut \cup {spec}
    BY <1>9, <2>3 DEF MovedOut
  <2>6. \A s \in Specs : bars'[x][s] = IF s \in MovedOut' THEN {} ELSE script'.before[x][s]
    BY <1>3, <1>5, <1>8, <2>5 DEF Moving
  <2>7. script'.fetched[x] # {}
    BY <1>3, <1>8 DEF Moving
  <2> QED  BY <2>1, <2>4, <2>6, <2>7 DEF Moving
<1>12. /\ Plain(script'.fetched[x], script.run) /\ script'.fetched \in [Symbols -> Rows]
       /\ script'.failed \subseteq script.targets /\ script'.todo \subseteq script.todo \ {x}
       /\ script'.now # <<>> /\ script'.now[1] = x /\ script'.now[2] \in Int /\ x \notin script'.failed
  BY <1>3, <1>4, <1>8 DEF Downloading, ScriptTypes
<1>13. \A t \in Symbols : t # x =>
         /\ bars'[t] = bars[t] /\ script'.fetched[t] = script.fetched[t]
         /\ t \in script'.failed <=> t \in script.failed
  BY <1>5, <1>8
<1> QED  BY <1>1, <1>3, <1>5, <1>8, <1>11, <1>12, <1>13, DownloadGoesOn

LEMMA MovesInKeeps ==
  ASSUME IngestInv, MovesIn  PROVE IngestInv'
<1>0. PICK x : x = script.now[1]
  OBVIOUS
<1>1. /\ script.at = "swaps" /\ UNCHANGED <<runs, unfinished, astray>> /\ Present(x) = {}
      /\ bars' = WithSeries(bars, x, "minute", script.fetched[x])
      /\ script' = [script EXCEPT !.at = "fetches", !.now = <<>>, !.aside = <<>>]
  BY <1>0 DEF MovesIn, Series, WithSeries
<1>2. /\ ScriptTypes /\ Downloading /\ Moving(x) /\ Current = {x}
      /\ x \in script.targets \ (script.todo \cup script.failed)
      /\ x \in Symbols /\ bars \in Catalogs
  BY <1>0, <1>1, Swapping
<1>3. /\ script.fetched[x] \in Rows /\ Plain(script.fetched[x], script.run) /\ OneOfEach(script.fetched[x])
      /\ script.fetched[x] # {} /\ script.kind = "download"
  BY <1>2, PlainOneOfEach DEF Downloading, ScriptTypes, Moving
<1>4. /\ bars' \in Catalogs /\ bars'[x]["minute"] = script.fetched[x]
      /\ \A s \in Specs : s # "minute" => bars'[x][s] = bars[x][s]
      /\ \A t \in Symbols : t # x => bars'[t] = bars[t]
      /\ \A t \in Symbols \ astray : \A s \in Specs : OneOfEach(bars'[t][s])
  BY <1>1, <1>2, <1>3, SpecsAre, OnlyOneSeries
<1>5. \A tf \in TFs : bars'[x][tf] = {}
  BY <1>1, <1>4, SpecsAre DEF Present
<1>6. /\ script'.kind = script.kind /\ script'.targets = script.targets /\ script'.run = script.run
      /\ script'.before = script.before /\ script'.at = "fetches" /\ script'.now = <<>>
      /\ script'.todo = script.todo /\ script'.fetched = script.fetched
      /\ script'.failed = script.failed /\ script'.aside = <<>>
      /\ script' = [kind |-> script'.kind, at |-> script'.at, targets |-> script'.targets,
               todo |-> script'.todo, now |-> script'.now, day |-> script'.day, run |-> script'.run,
               before |-> script'.before, fetched |-> script'.fetched, aside |-> script'.aside,
               failed |-> script'.failed]
  BY <1>1, <1>2 DEF ScriptTypes
<1>7. Swapped(x)'
  BY <1>2, <1>3, <1>4, <1>5, <1>6 DEF Swapped, HasNew
<1>8. /\ Plain(script'.fetched[x], script.run) /\ script'.fetched \in [Symbols -> Rows]
      /\ script'.failed \subseteq script.targets /\ script'.todo \subseteq script.todo \ {x}
  BY <1>2, <1>3, <1>6 DEF ScriptTypes
<1>9. \A t \in Symbols : t # x =>
        /\ bars'[t] = bars[t] /\ script'.fetched[t] = script.fetched[t]
        /\ t \in script'.failed <=> t \in script.failed
  BY <1>4, <1>6
<1> QED  BY <1>1, <1>2, <1>4, <1>6, <1>7, <1>8, <1>9, DownloadGoesOn

LEMMA RenameRefusedKeeps ==
  ASSUME IngestInv, RenameRefused  PROVE IngestInv'
<1>0. PICK x : x = script.now[1]
  OBVIOUS
<1>1. /\ script.at = "swaps" /\ UNCHANGED <<runs, astray>>
      /\ bars' = PutBack(x, script.aside)
      /\ script' = [script EXCEPT !.at = "gave up"]
      /\ unfinished' = unfinished \cup {tk \in Symbols : bars'[tk] # script.before[tk]}
  BY <1>0 DEF RenameRefused, GivesUp, ScriptAt
<1>2. /\ ScriptTypes /\ Downloading /\ Moving(x) /\ Current = {x} /\ script # NoScript /\ ~Ended
      /\ x \in script.targets /\ x \in Symbols /\ bars \in Catalogs /\ script.before \in Catalogs
      /\ \A t \in Symbols \ astray : \A spec \in Specs : OneOfEach(bars[t][spec])
  BY <1>0, <1>1, Swapping DEF ScriptTypes
<1>3. ASSUME NEW spec \in Specs
      PROVE  script.before[x][spec] =
               IF \E k \in DOMAIN script.aside : script.aside[k][1] = spec
               THEN (CHOOSE p \in {script.aside[k] : k \in DOMAIN script.aside} : p[1] = spec)[2] ELSE bars[x][spec]
  <2>1. CASE \E k \in DOMAIN script.aside : script.aside[k][1] = spec
    <3> DEFINE P == {script.aside[k] : k \in DOMAIN script.aside}
               p == CHOOSE q \in P : q[1] = spec
    <3>1. p \in P /\ p[1] = spec
      <4>1. \E q \in P : q[1] = spec
        BY <2>1
      <4> HIDE DEF P
      <4> QED  BY <4>1
    <3>2. PICK k \in DOMAIN script.aside : p = script.aside[k]
      BY <3>1
    <3> HIDE DEF p
    <3>3. p[2] = script.before[x][spec]
      BY <1>2, <3>1, <3>2 DEF Moving
    <3> QED  BY <2>1, <3>3 DEF p
  <2>2. CASE ~\E k \in DOMAIN script.aside : script.aside[k][1] = spec
    BY <1>2, <2>2 DEF Moving, MovedOut
  <2> QED  BY <2>1, <2>2
<1>4. bars'[x] = script.before[x] /\ (\A t \in Symbols : t # x => bars'[t] = bars[t]) /\ bars' \in Catalogs
  <2> DEFINE back == [spec \in Specs |-> IF \E k \in DOMAIN script.aside : script.aside[k][1] = spec
               THEN (CHOOSE p \in {script.aside[k] : k \in DOMAIN script.aside} : p[1] = spec)[2] ELSE bars[x][spec]]
  <2>1. script.before[x] \in [Specs -> Rows]
    BY <1>2 DEF Catalogs
  <2>2. back = script.before[x]
    BY <1>3, <2>1
  <2>3. bars' = [bars EXCEPT ![x] = back]
    BY <1>1 DEF PutBack
  <2> HIDE DEF back
  <2> QED  BY <1>2, <2>1, <2>2, <2>3 DEF Catalogs
<1>5. \A t \in Symbols \ astray : \A spec \in Specs : OneOfEach(bars'[t][spec])
  <2>1. Settled = script.before
    BY <1>2 DEF Settled
  <2>2. \A t \in Symbols \ astray : \A spec \in Specs : OneOfEach(script.before[t][spec])
    BY <2>1 DEF IngestInv
  <2> QED  BY <1>2, <1>4, <2>2
<1>6. /\ script'.kind = "download" /\ script'.targets = script.targets /\ script'.run = script.run
      /\ script'.before = script.before /\ script'.at = "gave up"
      /\ script'.fetched = script.fetched /\ script'.failed = script.failed
      /\ script' = [kind |-> script'.kind, at |-> script'.at, targets |-> script'.targets,
               todo |-> script'.todo, now |-> script'.now, day |-> script'.day, run |-> script'.run,
               before |-> script'.before, fetched |-> script'.fetched, aside |-> script'.aside,
               failed |-> script'.failed]
  BY <1>1, <1>2 DEF ScriptTypes, Downloading
<1>7. ScriptTypes'
  <2>1. \A t \in Symbols \ script'.targets : script'.fetched[t] = {} /\ bars'[t] = script'.before[t]
    BY <1>2, <1>4, <1>6 DEF ScriptTypes
  <2>2. /\ script'.targets \subseteq Symbols /\ script'.run \in Nat /\ script'.before \in Catalogs
        /\ script'.fetched \in [Symbols -> Rows] /\ script'.failed \subseteq script'.targets
    BY <1>2, <1>6 DEF ScriptTypes
  <2> QED  BY <1>6, <2>1, <2>2 DEF ScriptTypes
<1>8. OldOrNew'
  <2> SUFFICES ASSUME NEW t \in script.targets
               PROVE  \/ bars'[t]["minute"] = script.before[t]["minute"]
                      \/ t \notin script.failed /\ bars'[t]["minute"] = script.fetched[t]
    BY <1>6 DEF OldOrNew
  <2>1. CASE t = x
    BY <1>4, <2>1
  <2>2. CASE t # x
    <3>1. Swapped(t) /\ t \in Symbols
      BY <1>2, <2>2 DEF Downloading, ScriptTypes
    <3> QED  BY <1>4, <2>2, <3>1 DEF Swapped, HasOld, HasNew
  <2> QED  BY <2>1, <2>2
<1>9. RepairsOneDay' /\ Ended'
  BY <1>6 DEF RepairsOneDay, Ended
<1> QED  BY <1>1, <1>2, <1>4, <1>5, <1>7, <1>8, <1>9, LeftInTheMiddle DEF ScriptsChangeTheirOwn

-----------------------------------------------------------------------------
(* The coarser series.                                                      *)
LEMMA WithBarsAre ==
  ASSUME ScriptTypes, NEW tk \in WithBars
  PROVE  tk \in script.targets /\ tk \in Symbols /\ script.fetched[tk] # {}
BY DEF WithBars, ScriptTypes

(* What a ticker's coarser series are once nothing is left to build.        *)
LEMMA NothingLeftToBuild ==
  ASSUME Building, ScriptTypes, script.todo = {}, script.now = <<>>, NEW tk \in script.targets
  PROVE  \/ /\ HasNew(tk) /\ Follows(bars[tk]) /\ \A spec \in Specs : OneOfEach(bars[tk][spec])
         \/ /\ HasOld(tk) /\ (Follows(script.before[tk]) => Follows(bars[tk]))
            /\ script.kind = "rebuild" /\ Session(bars[tk]["minute"]) # {} => Follows(bars[tk])
<1>1. \A tf \in TFs : script.now # <<tk, tf>> /\ <<tk, tf>> \notin script.todo
  OBVIOUS
<1>2. \/ HasOld(tk) /\ \A tf \in TFs : Stands(tk, tf, script.before[tk][tf])
      \/ HasNew(tk) /\ \A tf \in TFs : Stands(tk, tf, {})
  BY DEF Building
<1>3. \A tf \in TFs : Session(bars[tk]["minute"]) = {} => Derived(bars[tk]["minute"], tf) = {}
  BY NoneDerived
<1>4. CASE HasNew(tk) /\ \A tf \in TFs : Stands(tk, tf, {})
  <2>1. \A tf \in TFs : bars[tk]["minute"] = {} => Derived(bars[tk]["minute"], tf) = {}
    BY NothingYet
  <2>2. \A tf \in TFs : bars[tk][tf] = Derived(bars[tk]["minute"], tf)
    BY <1>1, <1>3, <1>4, <2>1 DEF Stands, ToCome, HasNew
  <2>3. \A spec \in Specs : OneOfEach(bars[tk][spec])
    <3>1. \A tf \in TFs : OneOfEach(bars[tk][tf])
      BY <2>2, DerivedOfOneEach
    <3> QED  BY <1>4, <3>1, SpecsAre DEF HasNew
  <2> QED  BY <1>4, <2>2, <2>3 DEF Follows
<1>5. CASE HasOld(tk) /\ \A tf \in TFs : Stands(tk, tf, script.before[tk][tf])
  <2>1. ASSUME Follows(script.before[tk]), NEW tf \in TFs
        PROVE  bars[tk][tf] = Derived(bars[tk]["minute"], tf)
    BY <1>5, <2>1 DEF Stands, HasOld, Follows
  <2>2. ASSUME script.kind = "rebuild", Session(bars[tk]["minute"]) # {}, NEW tf \in TFs
        PROVE  bars[tk][tf] = Derived(bars[tk]["minute"], tf)
    BY <1>1, <1>5, <2>2 DEF Stands, ToCome
  <2> QED  BY <1>5, <2>1, <2>2 DEF Follows
<1> QED  BY <1>2, <1>4, <1>5

(* A script ends well.                                                      *)
LEMMA FinishKeeps ==
  ASSUME IngestInv, script.at \in {"builds", "gaps"}, Building, ScriptTypes, script.todo = {},
         script.now = <<>>, Finishes, UNCHANGED <<bars, runs>>
  PROVE  IngestInv'
<1> DEFINE built == IF script.kind = "ingest" THEN script.targets ELSE WithBars \ script.failed
<1>1. /\ script' = [script EXCEPT !.at = "done"] /\ astray' = astray \ built
      /\ unfinished' = unfinished \ (IF script.kind # "rebuild" THEN built
                          ELSE {tk \in script.targets : Session(bars[tk]["minute"]) # {}})
  BY DEF Finishes, ScriptAt
<1>2. script # NoScript /\ ~Ended
  <2>1. NoScript.at = "none"
    BY DEF NoScript
  <2> QED  BY <2>1 DEF Ended
<1>3. /\ bars \in Catalogs /\ Settled = script.before
      /\ \A tk \in Symbols \ astray : \A spec \in Specs : OneOfEach(bars[tk][spec])
      /\ \A tk \in Symbols \ (astray \cup unfinished) : Follows(script.before[tk])
  BY <1>2 DEF IngestInv, Settled
<1>4. /\ script'.kind = script.kind /\ script'.targets = script.targets /\ script'.run = script.run
      /\ script'.before = script.before /\ script'.at = "done"
      /\ script'.fetched = script.fetched /\ script'.failed = script.failed
      /\ script' = [kind |-> script'.kind, at |-> script'.at, targets |-> script'.targets,
               todo |-> script'.todo, now |-> script'.now, day |-> script'.day, run |-> script'.run,
               before |-> script'.before, fetched |-> script'.fetched, aside |-> script'.aside,
               failed |-> script'.failed]
  BY <1>1 DEF ScriptTypes
<1>5. ScriptTypes' /\ Ended'
  <2>1. \A t \in Symbols \ script'.targets : script'.fetched[t] = {} /\ bars'[t] = script'.before[t]
    BY <1>4 DEF ScriptTypes
  <2>2. /\ script'.targets \subseteq Symbols /\ script'.run \in Nat /\ script'.before \in Catalogs
        /\ script'.fetched \in [Symbols -> Rows] /\ script'.failed \subseteq script'.targets
        /\ script'.kind \in {"ingest", "download", "rebuild", "repair", "stitch"}
    BY <1>4 DEF ScriptTypes
  <2> QED  BY <1>4, <2>1, <2>2 DEF ScriptTypes, Ended
<1>6. \A tk \in built : tk \in script.targets /\ ~HasOld(tk)
  BY WithBarsAre DEF HasOld
<1> HIDE DEF built
<1>7. ASSUME NEW tk \in built
      PROVE  Follows(bars[tk]) /\ \A spec \in Specs : OneOfEach(bars[tk][spec])
  BY <1>6, NothingLeftToBuild
<1>8. \A tk \in Symbols \ astray' : \A spec \in Specs : OneOfEach(bars'[tk][spec])
  BY <1>1, <1>3, <1>7
<1>9. ASSUME NEW tk \in Symbols \ (astray' \cup unfinished')  PROVE Follows(bars'[tk])
  <2>1. CASE tk \in built
    BY <1>7, <2>1
  <2>2. CASE tk \notin built /\ tk \in script.targets
    <3>1. tk \notin astray
      BY <1>1, <2>2
    <3>2. tk \in unfinished => script.kind = "rebuild" /\ Session(bars[tk]["minute"]) # {}
      BY <1>1, <2>2
    <3>3. tk \notin unfinished => Follows(script.before[tk])
      BY <1>3, <3>1
    <3> QED  BY <2>2, <3>2, <3>3, NothingLeftToBuild
  <2>3. CASE tk \notin script.targets
    <3>1. tk \notin astray /\ tk \notin unfinished
      BY <1>1, <1>6, <2>3
    <3>2. bars[tk] = script.before[tk]
      BY <2>3 DEF ScriptTypes
    <3> QED  BY <1>3, <3>1, <3>2
  <2> QED  BY <2>1, <2>2, <2>3
<1>10. OldOrNew' /\ RepairsOneDay'
  <2>1. \A tk \in script.targets : HasOld(tk) \/ HasNew(tk)
    BY DEF Building
  <2>2. OldOrNew'
    BY <1>4, <2>1 DEF OldOrNew, HasOld, HasNew
  <2>3. script'.kind # "repair"
    BY <1>4 DEF Building
  <2> QED  BY <2>2, <2>3 DEF RepairsOneDay
<1> QED  BY <1>3, <1>5, <1>8, <1>9, <1>10, ScriptEnds DEF ScriptsChangeTheirOwn

LEMMA ToBuildKeeps ==
  ASSUME IngestInv, ToBuild  PROVE IngestInv'
<1>1. /\ script.at = "fetches" /\ script.todo = {} /\ script.now = <<>> /\ UNCHANGED <<bars, runs>>
      /\ \/ script.kind = "download" /\ WithBars = {} /\ Finishes
         \/ /\ script' = [script EXCEPT !.at = "builds", !.todo = WithBars \X TFs]
            /\ UNCHANGED <<unfinished, astray>>
  BY DEF ToBuild
<1>2. script # NoScript /\ ~Ended
  BY <1>1 DEF NoScript, Ended
<1>3. /\ ScriptTypes /\ bars \in Catalogs /\ Settled = script.before
      /\ \A tk \in Symbols \ astray : \A spec \in Specs : OneOfEach(bars[tk][spec])
      /\ \A tk \in Symbols \ (astray \cup unfinished) : Follows(script.before[tk])
  BY <1>2 DEF IngestInv, Settled
<1>4. Loading \/ Downloading
  BY <1>1, <1>2 DEF IngestInv, Progress, Ended
<1>5. ASSUME NEW tk \in script.targets
      PROVE  \/ HasOld(tk) /\ bars[tk] = script.before[tk]
             \/ HasNew(tk) /\ \A tf \in TFs : bars[tk][tf] = {}
  <2>1. Current = {}
    BY <1>1 DEF Current
  <2> QED  BY <1>4, <2>1 DEF Loading, Downloading, Swapped
<1>6. CASE script.kind = "download" /\ WithBars = {} /\ Finishes
  <2>1. script.kind # "ingest" /\ script.kind # "rebuild" /\ WithBars \ script.failed = {}
    BY <1>6
  <2>2. /\ script' = [script EXCEPT !.at = "done"] /\ astray' = astray /\ unfinished' = unfinished
    BY <1>6, <2>1 DEF Finishes, ScriptAt
  <2>3. /\ script'.kind = script.kind /\ script'.targets = script.targets /\ script'.run = script.run
        /\ script'.before = script.before /\ script'.at = "done"
        /\ script'.fetched = script.fetched /\ script'.failed = script.failed
        /\ script' = [kind |-> script'.kind, at |-> script'.at, targets |-> script'.targets,
               todo |-> script'.todo, now |-> script'.now, day |-> script'.day, run |-> script'.run,
               before |-> script'.before, fetched |-> script'.fetched, aside |-> script'.aside,
               failed |-> script'.failed]
    BY <1>3, <2>2 DEF ScriptTypes
  <2>4. ScriptTypes' /\ Ended'
    <3>1. \A t \in Symbols \ script'.targets : script'.fetched[t] = {} /\ bars'[t] = script'.before[t]
      BY <1>1, <1>3, <2>3 DEF ScriptTypes
    <3>2. /\ script'.targets \subseteq Symbols /\ script'.run \in Nat /\ script'.before \in Catalogs
          /\ script'.fetched \in [Symbols -> Rows] /\ script'.failed \subseteq script'.targets
          /\ script'.kind \in {"ingest", "download", "rebuild", "repair", "stitch"}
      BY <1>3, <2>3 DEF ScriptTypes
    <3> QED  BY <2>3, <3>1, <3>2 DEF ScriptTypes, Ended
  <2>5. ASSUME NEW tk \in script.targets  PROVE tk \in Symbols /\ script.fetched[tk] = {}
    BY <1>3, <1>6 DEF WithBars, ScriptTypes
  <2>6. \A tk \in Symbols \ (astray' \cup unfinished') : Follows(bars'[tk])
    <3>1. \A tk \in Symbols \ (astray \cup unfinished) : Follows(bars[tk])
      <4> SUFFICES ASSUME NEW tk \in Symbols \ (astray \cup unfinished)  PROVE Follows(bars[tk])
        OBVIOUS
      <4>1. CASE bars[tk] = script.before[tk]
        BY <1>3, <4>1
      <4>2. CASE HasNew(tk) /\ (\A tf \in TFs : bars[tk][tf] = {}) /\ tk \in script.targets
        <5>1. bars[tk]["minute"] = {}
          BY <2>5, <4>2 DEF HasNew
        <5> QED  BY <4>2, <5>1, NothingYet DEF Follows
      <4> QED  BY <1>3, <1>5, <4>1, <4>2 DEF ScriptTypes
    <3> QED  BY <1>1, <2>2, <3>1
  <2>7. OldOrNew' /\ RepairsOneDay'
    <3>1. OldOrNew'
      BY <1>1, <1>5, <2>3 DEF OldOrNew, HasOld, HasNew
    <3>2. script'.kind # "repair"
      BY <1>6, <2>3
    <3> QED  BY <3>1, <3>2 DEF RepairsOneDay
  <2> QED  BY <1>1, <1>3, <2>2, <2>4, <2>6, <2>7, ScriptEnds DEF ScriptsChangeTheirOwn
<1>7. CASE /\ script' = [script EXCEPT !.at = "builds", !.todo = WithBars \X TFs]
           /\ UNCHANGED <<unfinished, astray>>
  <2>1. PICK todo : todo = WithBars \X TFs
    OBVIOUS
  <2>2. /\ script'.kind = script.kind /\ script'.targets = script.targets /\ script'.run = script.run
        /\ script'.before = script.before /\ script'.at = "builds" /\ script'.now = <<>>
        /\ script'.fetched = script.fetched /\ script'.failed = script.failed
        /\ script'.todo = todo
        /\ script' = [kind |-> script'.kind, at |-> script'.at, targets |-> script'.targets,
               todo |-> script'.todo, now |-> script'.now, day |-> script'.day, run |-> script'.run,
               before |-> script'.before, fetched |-> script'.fetched, aside |-> script'.aside,
               failed |-> script'.failed]
    BY <1>1, <1>3, <1>7, <2>1 DEF ScriptTypes
  <2>3. ScriptTypes'
    <3>1. \A t \in Symbols \ script'.targets : script'.fetched[t] = {} /\ bars'[t] = script'.before[t]
      BY <1>1, <1>3, <2>2 DEF ScriptTypes
    <3>2. /\ script'.targets \subseteq Symbols /\ script'.run \in Nat /\ script'.before \in Catalogs
          /\ script'.fetched \in [Symbols -> Rows] /\ script'.failed \subseteq script'.targets
          /\ script'.kind \in {"ingest", "download", "rebuild", "repair", "stitch"}
      BY <1>3, <2>2 DEF ScriptTypes
    <3> QED  BY <2>2, <3>1, <3>2 DEF ScriptTypes
  <2>4. script' # NoScript /\ ~Ended'
    BY <2>2 DEF NoScript, Ended
  <2>5. script.kind \in {"ingest", "stitch", "download"}
    BY <1>4 DEF Loading, Clearing, Downloading
  <2>6. ASSUME NEW tk \in script.targets, NEW tf \in TFs  PROVE ToCome(tk, tf)'
    <3>1. CASE script.fetched[tk] = {}
      BY <2>2, <2>5, <3>1 DEF ToCome
    <3>2. CASE script.fetched[tk] # {}
      <4>1. tk \in WithBars
        BY <1>3, <3>2 DEF WithBars, ScriptTypes
      <4> QED  BY <2>1, <2>2, <4>1 DEF ToCome
    <3> QED  BY <3>1, <3>2
  <2>7. ASSUME NEW tk \in script.targets
        PROVE  \/ HasOld(tk)' /\ \A tf \in TFs : Stands(tk, tf, script.before[tk][tf])'
               \/ HasNew(tk)' /\ \A tf \in TFs : Stands(tk, tf, {})'
    <3>1. HasOld(tk)' = HasOld(tk) /\ HasNew(tk)' = HasNew(tk)
      BY <1>1, <2>2, SameMinutes
    <3>2. \A tf \in TFs : bars'[tk][tf] = bars[tk][tf] /\ script'.before[tk][tf] = script.before[tk][tf]
      BY <1>1, <2>2
    <3>3. CASE HasOld(tk) /\ bars[tk] = script.before[tk]
      BY <2>6, <3>1, <3>2, <3>3 DEF Stands
    <3>4. CASE HasNew(tk) /\ \A tf \in TFs : bars[tk][tf] = {}
      BY <2>6, <3>1, <3>2, <3>4 DEF Stands
    <3> QED  BY <1>5, <3>3, <3>4
  <2>8. script'.todo \subseteq script'.targets \X TFs
    BY <1>3, <2>1, <2>2, WithBarsAre
  <2>9. Building'
    BY <2>2, <2>5, <2>7, <2>8 DEF Building
  <2>10. Progress'
    BY <2>2, <2>9 DEF Progress
  <2> QED  BY <1>1, <1>2, <1>3, <1>7, <2>2, <2>3, <2>4, <2>10, ScriptGoesOn
<1> QED  BY <1>1, <1>6, <1>7

(* One coarser series is dropped or built.                                  *)
LEMMA BuildingGoesOn ==
  ASSUME IngestInv, script.at = "builds", Building, NEW x \in script.targets, NEW f \in TFs,
         script' = [kind |-> script'.kind, at |-> script'.at, targets |-> script'.targets,
               todo |-> script'.todo, now |-> script'.now, day |-> script'.day, run |-> script'.run,
               before |-> script'.before, fetched |-> script'.fetched, aside |-> script'.aside,
               failed |-> script'.failed],
         script'.kind = script.kind, script'.targets = script.targets, script'.run = script.run,
         script'.before = script.before, script'.fetched = script.fetched,
         script'.failed = script.failed, script'.at = "builds",
         script'.todo \subseteq script.todo,
         \/ script'.now = <<>>
         \/ script'.now = <<x, f>> /\ <<x, f>> \notin script'.todo /\ bars'[x][f] = {},
         \/ bars' = bars
         \/ \E rows \in Rows : OneOfEach(rows) /\ bars' = WithSeries(bars, x, f, rows),
         UNCHANGED <<runs, unfinished, astray>>,
         \A t \in script.targets, tf \in TFs : t # x \/ tf # f =>
           /\ <<t, tf>> \in script'.todo <=> <<t, tf>> \in script.todo
           /\ script.now # <<t, tf>>,
         \A old : Stands(x, f, old) => Stands(x, f, old)'
  PROVE  IngestInv'
<1>1. script # NoScript /\ ~Ended /\ script' # NoScript /\ ~Ended'
  BY DEF NoScript, Ended
<1>2. /\ ScriptTypes /\ bars \in Catalogs /\ script.targets \subseteq Symbols /\ x \in Symbols
      /\ \A t \in Symbols \ astray : \A s \in Specs : OneOfEach(bars[t][s])
  BY <1>1 DEF IngestInv, ScriptTypes
<1>3. /\ bars' \in Catalogs /\ \A t \in Symbols \ astray : \A s \in Specs : OneOfEach(bars'[t][s])
      /\ \A t \in Symbols : t # x => bars'[t] = bars[t]
      /\ \A s \in Specs : s # f => bars'[x][s] = bars[x][s]
  <2>1. CASE bars' = bars
    BY <1>2, <2>1
  <2>2. CASE \E rows \in Rows : OneOfEach(rows) /\ bars' = WithSeries(bars, x, f, rows)
    <3>1. PICK rows \in Rows : OneOfEach(rows) /\ bars' = WithSeries(bars, x, f, rows)
      BY <2>2
    <3>2. f \in Specs
      BY SpecsAre
    <3> QED  BY <1>2, <3>1, <3>2, OnlyOneSeries
  <2> QED  BY <2>1, <2>2
<1>4. \A t \in Symbols : bars'[t]["minute"] = bars[t]["minute"]
  BY <1>3, SpecsAre
<1>5. ScriptTypes'
  <2>1. \A t \in Symbols \ script'.targets : script'.fetched[t] = {} /\ bars'[t] = script'.before[t]
    BY <1>2, <1>3 DEF ScriptTypes
  <2>2. /\ script'.targets \subseteq Symbols /\ script'.run \in Nat /\ script'.before \in Catalogs
        /\ script'.fetched \in [Symbols -> Rows] /\ script'.failed \subseteq script'.targets
        /\ script'.kind \in {"ingest", "download", "rebuild", "repair", "stitch"}
    BY <1>2 DEF ScriptTypes
  <2> QED  BY <2>1, <2>2 DEF ScriptTypes
<1>6. ASSUME NEW t \in script.targets, NEW tf \in TFs, t # x \/ tf # f, NEW old, Stands(t, tf, old)
      PROVE  Stands(t, tf, old)'
  <2>1. /\ bars'[t][tf] = bars[t][tf] /\ bars'[t]["minute"] = bars[t]["minute"]
        /\ script.now # <<t, tf>>
        /\ <<t, tf>> \in script'.todo <=> <<t, tf>> \in script.todo
    BY <1>2, <1>3, <1>4, <1>6, SpecsAre
  <2> QED  BY <1>6, <2>1 DEF Stands, ToCome
<1>7. ASSUME NEW t \in script.targets, NEW tf \in TFs, NEW old, Stands(t, tf, old)
      PROVE  Stands(t, tf, old)'
  BY <1>6, <1>7
<1>8. ASSUME NEW t \in script.targets
      PROVE  \/ HasOld(t)' /\ \A tf \in TFs : Stands(t, tf, script.before[t][tf])'
             \/ HasNew(t)' /\ \A tf \in TFs : Stands(t, tf, {})'
  <2>1. HasOld(t)' = HasOld(t) /\ HasNew(t)' = HasNew(t)
    BY <1>2, <1>4, SameMinutes
  <2>2. CASE HasOld(t) /\ \A tf \in TFs : Stands(t, tf, script.before[t][tf])
    <3>1. ASSUME NEW tf \in TFs  PROVE Stands(t, tf, script.before[t][tf])'
      <4>1. PICK old : old = script.before[t][tf]
        OBVIOUS
      <4>2. Stands(t, tf, old)'
        BY <1>7, <2>2, <4>1
      <4> QED  BY <4>1, <4>2 DEF Stands, ToCome
    <3> QED  BY <2>1, <2>2, <3>1
  <2>3. CASE HasNew(t) /\ \A tf \in TFs : Stands(t, tf, {})
    BY <1>7, <2>1, <2>3
  <2> QED  BY <2>2, <2>3 DEF Building
<1>9. Building'
  <2>1. script'.kind # "repair" /\ script'.todo \subseteq script'.targets \X TFs
    BY DEF Building
  <2>2. \/ script'.now = <<>>
        \/ /\ script'.now \in (script'.targets \X TFs) \ script'.todo
           /\ bars'[script'.now[1]][script'.now[2]] = {}
    OBVIOUS
  <2> QED  BY <1>8, <2>1, <2>2 DEF Building
<1>10. Progress'
  BY <1>9 DEF Progress
<1> QED  BY <1>1, <1>3, <1>5, <1>10, ScriptGoesOn

(* What the invariant says while a script builds.                           *)
LEMMA WhileItBuilds ==
  ASSUME IngestInv, script.at \in {"builds", "gaps"}
  PROVE  /\ script # NoScript /\ ~Ended /\ ScriptTypes /\ Building /\ bars \in Catalogs
         /\ script.at = "gaps" => script.todo = {} /\ script.now = <<>> /\ script.kind = "ingest"
<1>1. script # NoScript /\ ~Ended
  <2>1. NoScript.at = "none"
    BY DEF NoScript
  <2> QED  BY <2>1 DEF Ended
<1>2. CASE script.at = "builds"
  BY <1>1, <1>2 DEF IngestInv, Progress, Ended
<1>3. CASE script.at = "gaps"
  BY <1>1, <1>3 DEF IngestInv, Progress, Ended
<1> QED  BY <1>1, <1>2, <1>3

LEMMA DropsKeeps ==
  ASSUME IngestInv, Drops  PROVE IngestInv'
<1>1. script.at = "builds" /\ script.now = <<>> /\ UNCHANGED <<runs, unfinished, astray>>
  BY DEF Drops
<1>2. ScriptTypes /\ Building /\ bars \in Catalogs
  BY <1>1, WhileItBuilds
<1>3. PICK w \in script.todo :
        IF Session(bars[w[1]]["minute"]) = {}
        THEN script' = [script EXCEPT !.todo = @ \ {w}] /\ UNCHANGED bars
        ELSE script' = [script EXCEPT !.todo = @ \ {w}, !.now = w] /\ bars' = WithSeries(bars, w[1], w[2], {})
  BY DEF Drops, Series, WithSeries
<1>4. PICK x \in script.targets, f \in TFs : w = <<x, f>>
  BY <1>2 DEF Building
<1>5. w[1] = x /\ w[2] = f /\ <<x, f>> \in script.todo /\ x \in Symbols /\ f \in Specs /\ f # "minute"
  BY <1>2, <1>3, <1>4, SpecsAre DEF ScriptTypes
<1>6. /\ {} \in Rows /\ OneOfEach({})
      /\ WithSeries(bars, x, f, {})[x][f] = {}
  BY <1>2, <1>5, NothingYet, OneSeries DEF OneOfEach
<1>7. /\ script'.kind = script.kind /\ script'.targets = script.targets /\ script'.run = script.run
      /\ script'.before = script.before /\ script'.at = "builds" /\ script'.todo = script.todo \ {<<x, f>>}
      /\ script'.fetched = script.fetched /\ script'.failed = script.failed
      /\ script' = [kind |-> script'.kind, at |-> script'.at, targets |-> script'.targets,
             todo |-> script'.todo, now |-> script'.now, day |-> script'.day, run |-> script'.run,
             before |-> script'.before, fetched |-> script'.fetched, aside |-> script'.aside,
             failed |-> script'.failed]
      /\ \/ script'.now = <<>> /\ Session(bars[x]["minute"]) = {} /\ bars' = bars
         \/ script'.now = <<x, f>> /\ bars' = WithSeries(bars, x, f, {})
  <2>1. CASE Session(bars[x]["minute"]) = {}
    <3>1. script' = [script EXCEPT !.todo = @ \ {<<x, f>>}] /\ UNCHANGED bars
      BY <1>3, <1>4, <1>5, <2>1
    <3> QED  BY <1>1, <1>2, <2>1, <3>1 DEF ScriptTypes
  <2>2. CASE Session(bars[x]["minute"]) # {}
    <3>1. /\ script' = [script EXCEPT !.todo = @ \ {<<x, f>>}, !.now = <<x, f>>]
          /\ bars' = WithSeries(bars, x, f, {})
      BY <1>3, <1>4, <1>5, <2>2
    <3> QED  BY <1>1, <1>2, <3>1 DEF ScriptTypes
  <2> QED  BY <2>1, <2>2
<1>8. ASSUME NEW old, Stands(x, f, old)  PROVE Stands(x, f, old)'
  <2>1. bars[x][f] = old
    <3>1. <<x, f>> \in script.todo /\ script.now # <<x, f>>
      BY <1>1, <1>5
    <3> QED  BY <1>8, <3>1 DEF Stands
  <2>2. CASE script'.now = <<>> /\ Session(bars[x]["minute"]) = {} /\ bars' = bars
    BY <2>1, <2>2 DEF Stands, ToCome
  <2>3. CASE script'.now = <<x, f>> /\ bars' = WithSeries(bars, x, f, {})
    BY <1>6, <2>3 DEF Stands
  <2> QED  BY <1>7, <2>2, <2>3
<1>9. \A t \in script.targets, tf \in TFs : t # x \/ tf # f =>
        /\ <<t, tf>> \in script'.todo <=> <<t, tf>> \in script.todo
        /\ script.now # <<t, tf>>
  BY <1>1, <1>7
<1>10. /\ \/ script'.now = <<>>
          \/ script'.now = <<x, f>> /\ <<x, f>> \notin script'.todo /\ bars'[x][f] = {}
       /\ \/ bars' = bars
          \/ \E rows \in Rows : OneOfEach(rows) /\ bars' = WithSeries(bars, x, f, rows)
       /\ script'.todo \subseteq script.todo
  BY <1>6, <1>7
<1> QED  BY <1>1, <1>2, <1>7, <1>8, <1>9, <1>10, BuildingGoesOn

LEMMA BuildsKeeps ==
  ASSUME IngestInv, Builds  PROVE IngestInv'
<1>1. /\ script.at = "builds" /\ script.now # <<>> /\ UNCHANGED <<runs, unfinished, astray>>
      /\ script' = [script EXCEPT !.now = <<>>]
  BY DEF Builds
<1>2. ScriptTypes /\ Building /\ bars \in Catalogs
  BY <1>1, WhileItBuilds
<1>3. PICK x \in script.targets, f \in TFs :
        script.now = <<x, f>> /\ <<x, f>> \notin script.todo /\ bars[x][f] = {}
  <2>1. script.now \in (script.targets \X TFs) \ script.todo /\ bars[script.now[1]][script.now[2]] = {}
    BY <1>1, <1>2 DEF Building
  <2> QED  BY <2>1
<1>4. x \in Symbols /\ f \in Specs /\ f # "minute" /\ bars[x]["minute"] \in Rows
  BY <1>2, SpecsAre, CatalogsAre DEF ScriptTypes
<1>5. PICK rows : rows = Derived(bars[x]["minute"], f)
  OBVIOUS
<1>6. rows \in Rows /\ OneOfEach(rows)
  BY <1>4, <1>5, DerivedRows, DerivedOfOneEach
<1>7. bars' = WithSeries(bars, x, f, rows)
  <2>1. script.now[1] = x /\ script.now[2] = f
    BY <1>3
  <2>2. bars[x][f] \cup rows = rows
    BY <1>3
  <2>3. bars' = WithSeries(bars, x, f, bars[x][f] \cup rows)
    BY <1>5, <2>1 DEF Builds, Series, WithSeries
  <2> QED  BY <2>2, <2>3
<1>8. bars'[x][f] = rows /\ bars'[x]["minute"] = bars[x]["minute"]
  BY <1>2, <1>4, <1>6, <1>7, SpecsAre, OneSeries
<1>9. /\ script'.kind = script.kind /\ script'.targets = script.targets /\ script'.run = script.run
      /\ script'.before = script.before /\ script'.at = "builds" /\ script'.todo = script.todo
      /\ script'.fetched = script.fetched /\ script'.failed = script.failed /\ script'.now = <<>>
      /\ script' = [kind |-> script'.kind, at |-> script'.at, targets |-> script'.targets,
             todo |-> script'.todo, now |-> script'.now, day |-> script'.day, run |-> script'.run,
             before |-> script'.before, fetched |-> script'.fetched, aside |-> script'.aside,
             failed |-> script'.failed]
  BY <1>1, <1>2 DEF ScriptTypes
<1>10. \A old : Stands(x, f, old)'
  BY <1>3, <1>5, <1>8, <1>9 DEF Stands
<1>11. \A t \in script.targets, tf \in TFs : t # x \/ tf # f =>
        /\ <<t, tf>> \in script'.todo <=> <<t, tf>> \in script.todo
        /\ script.now # <<t, tf>>
  BY <1>3, <1>9
<1> QED  BY <1>1, <1>2, <1>6, <1>7, <1>9, <1>10, <1>11, BuildingGoesOn

LEMMA DescribesKeeps ==
  ASSUME IngestInv, Describes  PROVE IngestInv'
<1>1. /\ script.at = "builds" /\ script.todo = {} /\ script.now = <<>>
      /\ UNCHANGED <<bars, runs>>
      /\ \/ Finishes
         \/ /\ script.kind = "ingest" /\ script' = [script EXCEPT !.at = "gaps"]
            /\ UNCHANGED <<unfinished, astray>>
  BY DEF Describes, ScriptAt
<1>2. script # NoScript /\ ~Ended /\ ScriptTypes /\ Building /\ bars \in Catalogs
  BY <1>1, WhileItBuilds
<1>3. CASE Finishes
  BY <1>1, <1>2, <1>3, FinishKeeps
<1>4. CASE /\ script.kind = "ingest" /\ script' = [script EXCEPT !.at = "gaps"]
           /\ UNCHANGED <<unfinished, astray>>
  <2>1. /\ script'.kind = script.kind /\ script'.targets = script.targets /\ script'.run = script.run
        /\ script'.before = script.before /\ script'.at = "gaps" /\ script'.todo = script.todo
        /\ script'.fetched = script.fetched /\ script'.failed = script.failed /\ script'.now = script.now
        /\ script' = [kind |-> script'.kind, at |-> script'.at, targets |-> script'.targets,
             todo |-> script'.todo, now |-> script'.now, day |-> script'.day, run |-> script'.run,
             before |-> script'.before, fetched |-> script'.fetched, aside |-> script'.aside,
             failed |-> script'.failed]
    BY <1>2, <1>4 DEF ScriptTypes
  <2>2. ScriptTypes'
    BY <1>1, <1>2, <2>1 DEF ScriptTypes
  <2>3. Building'
    <3>1. \A t, tf, old : Stands(t, tf, old)' = Stands(t, tf, old)
      BY <1>1, <2>1 DEF Stands, ToCome
    <3>2. ASSUME NEW t \in script.targets
          PROVE  \/ HasOld(t)' /\ \A tf \in TFs : Stands(t, tf, script.before[t][tf])'
                 \/ HasNew(t)' /\ \A tf \in TFs : Stands(t, tf, {})'
      <4>1. HasOld(t)' = HasOld(t) /\ HasNew(t)' = HasNew(t)
        BY <1>1, <2>1, SameMinutes
      <4>2. \A tf \in TFs : Stands(t, tf, script.before[t][tf])' = Stands(t, tf, script.before[t][tf])
        BY <1>1, <2>1 DEF Stands, ToCome
      <4> QED  BY <1>2, <3>1, <4>1, <4>2 DEF Building
    <3> QED  BY <1>1, <1>2, <2>1, <3>2 DEF Building
  <2>4. script' # NoScript /\ ~Ended' /\ Progress'
    BY <1>1, <1>4, <2>1, <2>3 DEF NoScript, Ended, Progress
  <2>5. \A t \in Symbols \ astray' : \A s \in Specs : OneOfEach(bars'[t][s])
    BY <1>1, <1>4 DEF IngestInv
  <2> QED  BY <1>1, <1>2, <1>4, <2>1, <2>2, <2>4, <2>5, ScriptGoesOn
<1> QED  BY <1>1, <1>3, <1>4

LEMMA WritesGapsKeeps ==
  ASSUME IngestInv, WritesGaps  PROVE IngestInv'
<1>1. /\ \/ script.at = "gaps"
         \/ script.at = "builds" /\ script.todo = {} /\ script.now = <<>>
      /\ Finishes /\ UNCHANGED <<bars, runs>>
  BY DEF WritesGaps
<1>2. ScriptTypes /\ Building /\ script.todo = {} /\ script.now = <<>>
  BY <1>1, WhileItBuilds
<1> QED  BY <1>1, <1>2, FinishKeeps

-----------------------------------------------------------------------------
(* Repairs.  What the provider has of the day.                              *)
DayMinutes(tk, f) == {Bar(f, Label(script.day, m), script.run) : m \in Minutes[tk][script.day]}

LEMMA SessionTwice == ASSUME NEW rows PROVE Session(Session(rows)) = Session(rows)
BY DEF Session

LEMMA DayMinutesAre ==
  ASSUME script.day \in Days, script.run \in Nat, NEW tk \in Tickers, NEW f \in Int
  PROVE  /\ DayMinutes(tk, f) \in Rows
         /\ \A b \in DayMinutes(tk, f) : DayOf(b.at) = script.day /\ b.from = {script.run} /\ b.file = f
         /\ \A b \in DayMinutes(tk, f) : b = Bar(f, b.at, script.run)
         /\ LabelsOf(DayMinutes(tk, f)) = {Label(script.day, m) : m \in Minutes[tk][script.day]}
<1>1. Minutes[tk][script.day] \in SUBSET (1..4)
  BY IngestNumbers DEF Days
<1>2. \A m \in Minutes[tk][script.day] : m \in 1..5
  BY <1>1
<1>3. \A m \in Minutes[tk][script.day] : Label(script.day, m) \in Labels /\ DayOf(Label(script.day, m)) = script.day
  BY <1>2, LabelOfDay
<1>4. {script.run} \in SUBSET Nat
  OBVIOUS
<1>5. ASSUME NEW b \in DayMinutes(tk, f)
      PROVE  /\ b \in [file : Int, at : Labels, from : SUBSET Nat] /\ b = Bar(f, b.at, script.run)
             /\ DayOf(b.at) = script.day /\ b.from = {script.run} /\ b.file = f
  <2>1. PICK m \in Minutes[tk][script.day] : b = Bar(f, Label(script.day, m), script.run)
    BY DEF DayMinutes
  <2>2. b.at = Label(script.day, m) /\ b.from = {script.run} /\ b.file = f
    BY <2>1 DEF Bar
  <2> QED  BY <1>3, <1>4, <2>1, <2>2 DEF Bar
<1>6. LabelsOf(DayMinutes(tk, f)) = {Label(script.day, m) : m \in Minutes[tk][script.day]}
  <2>1. \A m \in Minutes[tk][script.day] :
          Bar(f, Label(script.day, m), script.run) \in DayMinutes(tk, f)
          /\ Bar(f, Label(script.day, m), script.run).at = Label(script.day, m)
    BY DEF DayMinutes, Bar
  <2>2. \A b \in DayMinutes(tk, f) : \E m \in Minutes[tk][script.day] : b.at = Label(script.day, m)
    BY DEF DayMinutes, Bar
  <2> QED  BY <2>1, <2>2 DEF LabelsOf
<1> QED  BY <1>5, <1>6 DEF Rows

LEMMA NewRowsAre ==
  ASSUME script.day \in Days, script.run \in Nat, NEW tk \in Tickers, NEW spec \in Specs, NEW f \in Int
  PROVE  /\ NewRows(tk, spec, f) \in Rows /\ OneOfEach(NewRows(tk, spec, f))
         /\ \A b \in NewRows(tk, spec, f) : DayOf(b.at) = script.day /\ b.from = {script.run}
<1>1. /\ DayMinutes(tk, f) \in Rows
      /\ \A b \in DayMinutes(tk, f) : DayOf(b.at) = script.day /\ b.from = {script.run} /\ b.file = f
      /\ \A b \in DayMinutes(tk, f) : b = Bar(f, b.at, script.run)
  BY DayMinutesAre
<1>2. NewRows(tk, spec, f) = IF spec = "minute" THEN Session(DayMinutes(tk, f)) ELSE Derived(DayMinutes(tk, f), spec)
  BY DEF NewRows, DayMinutes
<1>3. CASE spec = "minute"
  <2>1. NewRows(tk, spec, f) \in SUBSET DayMinutes(tk, f)
    BY <1>2, <1>3 DEF Session
  <2> QED  BY <1>1, <2>1 DEF Rows, OneOfEach
<1>4. CASE spec # "minute"
  <2>1. spec \in TFs /\ NewRows(tk, spec, f) = Derived(DayMinutes(tk, f), spec)
    BY <1>2, <1>4, SpecsAre
  <2>2. \A x \in NewRows(tk, spec, f) : DayOf(x.at) = script.day
    BY <1>1, <2>1, DerivedDays
  <2>3. \A x \in NewRows(tk, spec, f) : x.from = {script.run}
    <3> DEFINE A == DayMinutes(tk, f)
    <3>1. AllFrom(A, script.run)
      BY <1>1 DEF AllFrom
    <3> HIDE DEF A
    <3>2. AllFrom(Derived(A, spec), script.run)
      BY <3>1, DerivedOfOneRun
    <3> QED  BY <2>1, <3>2 DEF A, AllFrom
  <2> QED  BY <1>1, <2>1, <2>2, <2>3, DerivedRows, DerivedOfOneEach
<1> QED  BY <1>3, <1>4

(* The coarser ones follow from the minutes, whatever files they are in.    *)
LEMMA NewRowsFollow ==
  ASSUME script.day \in Days, script.run \in Nat, NEW tk \in Tickers, NEW tf \in TFs, NEW f \in Int, NEW g \in Int
  PROVE  NewRows(tk, tf, f) = Derived(NewRows(tk, "minute", g), tf)
<1> DEFINE A == DayMinutes(tk, f)
           B == DayMinutes(tk, g)
<1>1. NewRows(tk, tf, f) = Derived(A, tf)
  BY SpecsAre DEF NewRows, DayMinutes
<1>2. NewRows(tk, "minute", g) = Session(B)
  BY DEF NewRows, DayMinutes
<1>3. Derived(Session(B), tf) = Derived(B, tf)
  BY SessionTwice DEF Derived
<1>4. AllFrom(A, script.run) /\ AllFrom(B, script.run)
  BY DayMinutesAre DEF AllFrom
<1>5. LabelsOf(A) = LabelsOf(B)
  BY DayMinutesAre
<1> HIDE DEF A, B
<1>6. Derived(A, tf) = Derived(B, tf)
  BY <1>4, <1>5, DerivedOfOneRun
<1> QED  BY <1>1, <1>2, <1>3, <1>6

(* Minutes of other days, and of the day.                                   *)
LEMMA RenewedFollow ==
  ASSUME script.day \in Days, script.run \in Nat, NEW tk \in Tickers, NEW s, NEW old,
         s \in [Specs -> Rows], old \in [Specs -> Rows], Follows(old),
         \A spec \in Specs : /\ Outside(s[spec], script.day) = Outside(old[spec], script.day)
                             /\ \E f \in Int : OfTheDay(s[spec]) = NewRows(tk, spec, f)
  PROVE  Follows(s)
<1> SUFFICES ASSUME NEW tf \in TFs  PROVE s[tf] = Derived(s["minute"], tf)
  BY DEF Follows
<1> DEFINE d == script.day
           A == Outside(s["minute"], d)
           B == OfTheDay(s["minute"])
<1>1. s["minute"] \in Rows /\ old["minute"] \in Rows /\ s["minute"] = A \cup B /\ s[tf] = Outside(s[tf], d) \cup OfTheDay(s[tf])
  BY SpecsAre DEF Outside, OfTheDay
<1>2. A \in Rows /\ B \in Rows /\ DaysApart(A, B)
  BY <1>1 DEF Outside, OfTheDay, Rows, DaysApart
<1>3. PICK f \in Int : OfTheDay(s[tf]) = NewRows(tk, tf, f)
  BY SpecsAre
<1>4. PICK g \in Int : B = NewRows(tk, "minute", g)
  BY SpecsAre
<1>5. OfTheDay(s[tf]) = Derived(B, tf)
  BY <1>3, <1>4, NewRowsFollow
<1>6. Outside(s[tf], d) = Derived(A, tf)
  <2>1. Outside(s[tf], d) = Outside(Derived(old["minute"], tf), d)
    BY SpecsAre DEF Follows
  <2>2. A = Outside(old["minute"], d)
    BY SpecsAre
  <2> HIDE DEF A, d
  <2> QED  BY <1>1, <2>1, <2>2, DerivedOutside
<1> HIDE DEF A, B
<1>7. Derived(A \cup B, tf) = Derived(A, tf) \cup Derived(B, tf)
  BY <1>2, DerivedTogether
<1> QED  BY <1>1, <1>5, <1>6, <1>7

(* What the invariant says while a day is repaired.                         *)
LEMMA WhileItRepairs ==
  ASSUME IngestInv, script.at \in {"sets aside", "replaces"}
  PROVE  /\ script # NoScript /\ ~Ended /\ ScriptTypes /\ Repairing /\ bars \in Catalogs
         /\ Settled = script.before
<1>1. script # NoScript /\ ~Ended
  <2>1. NoScript.at = "none"
    BY DEF NoScript
  <2> QED  BY <2>1 DEF Ended
<1>2. ScriptTypes /\ Progress /\ bars \in Catalogs
  BY <1>1 DEF IngestInv
<1>3. Repairing
  <2>1. CASE script.at = "sets aside"
    BY <1>1, <1>2, <2>1 DEF Progress, Ended
  <2>2. CASE script.at = "replaces"
    BY <1>1, <1>2, <2>2 DEF Progress, Ended
  <2> QED  BY <2>1, <2>2
<1> QED  BY <1>1, <1>2, <1>3 DEF Settled

LEMMA InHandAre ==
  ASSUME NEW tk, script.targets = {tk}, NEW spec \in Specs, script.todo = {spec}
  PROVE  Repaired = tk /\ Spec = spec
BY DEF Repaired, Spec

LEMMA BehindAre ==
  /\ script.todo \in {{}, {"minute"}} => \A spec \in Specs : ~Behind(spec)
  /\ script.todo = {"bucket"} => \A spec \in Specs : Behind(spec) <=> spec = "minute"
  /\ script.todo = {"day"} => \A spec \in Specs : Behind(spec) <=> spec \in {"minute", "bucket"}
BY SpecsAre DEF Behind

LEMMA RenewedStill ==
  ASSUME NEW tk, NEW spec, Renewed(tk, spec), bars'[tk][spec] = bars[tk][spec],
         script'.before = script.before, script'.day = script.day, script'.run = script.run,
         astray \subseteq astray'
  PROVE  Renewed(tk, spec)'
BY DEF Renewed, OfTheDay, NewRows

LEMMA SetsAsideKeeps ==
  ASSUME IngestInv, SetsAside  PROVE IngestInv'
<1>1. /\ script.kind = "repair" /\ script.at = "sets aside" /\ UNCHANGED runs
  BY DEF SetsAside
<1>2. /\ ScriptTypes /\ Repairing /\ bars \in Catalogs /\ script # NoScript /\ ~Ended
      /\ Settled = script.before
  BY <1>1, WhileItRepairs
<1>3. PICK tk \in Tickers : script.targets = {tk} /\ \A spec \in Specs : Repairs(tk, spec)
  BY <1>2 DEF Repairing
<1>4. PICK sp \in Specs : script.todo = {sp}
  BY <1>2, SpecsAre DEF Repairing
<1>5. Repaired = tk /\ Spec = sp /\ tk \in Symbols
  BY <1>3, <1>4, InHandAre DEF Symbols
<1>6. bars[tk][sp] = script.before[tk][sp] /\ \A spec \in Specs : ~InHand(spec)
  <2>1. ~Behind(sp) /\ \A spec \in Specs : ~InHand(spec)
    BY <1>1, <1>4, SpecsAre DEF Behind, InHand
  <2> QED  BY <1>3, <2>1 DEF Repairs
<1>7. \A t \in Symbols \ astray : \A s \in Specs : OneOfEach(bars[t][s])
  BY DEF IngestInv
<1>8. CASE GivesUp(bars) /\ UNCHANGED astray
  <2>1. /\ bars' = bars /\ script' = [script EXCEPT !.at = "gave up"]
        /\ unfinished' = unfinished \cup {t \in Symbols : bars'[t] # script.before[t]}
    BY <1>8 DEF GivesUp, ScriptAt
  <2>2. /\ script'.kind = script.kind /\ script'.targets = script.targets /\ script'.run = script.run
        /\ script'.before = script.before /\ script'.at = "gave up"
        /\ script'.fetched = script.fetched /\ script'.failed = script.failed
        /\ script' = [kind |-> script'.kind, at |-> script'.at, targets |-> script'.targets,
               todo |-> script'.todo, now |-> script'.now, day |-> script'.day, run |-> script'.run,
               before |-> script'.before, fetched |-> script'.fetched, aside |-> script'.aside,
               failed |-> script'.failed]
    BY <1>2, <2>1 DEF ScriptTypes
  <2>3. ScriptTypes' /\ Ended'
    BY <1>2, <2>1, <2>2 DEF ScriptTypes, Ended
  <2>4. ScriptsChangeTheirOwn'
    BY <1>1, <2>2 DEF ScriptsChangeTheirOwn, OldOrNew, RepairsOneDay
  <2> QED  BY <1>1, <1>2, <1>7, <1>8, <2>1, <2>3, <2>4, LeftInTheMiddle
<1>9. ASSUME NEW file \in {b.file : b \in bars[tk][sp]}, NEW old, NEW rest,
             old = {b \in bars[tk][sp] : b.file = file}, rest = bars[tk][sp] \ old,
             bars' = WithSeries(bars, tk, sp, rest),
             script' = [script EXCEPT !.aside = <<file, old>>, !.at = "replaces"],
             astray' = IF \E b \in rest : DayOf(b.at) = script.day THEN astray \cup {tk} ELSE astray,
             UNCHANGED unfinished
      PROVE  IngestInv'
  <2>1. bars[tk][sp] \in Rows /\ rest \in Rows /\ file \in Int /\ old \cup rest = bars[tk][sp]
    <3>1. bars[tk][sp] \in Rows
      BY <1>2, <1>5, CatalogsAre
    <3> QED  BY <1>9, <3>1 DEF Rows
  <2>2. astray \subseteq astray' /\ (tk \in astray' \/ OneOfEach(rest))
    BY <1>5, <1>7, <1>9 DEF OneOfEach
  <2>3. /\ bars' \in Catalogs /\ bars'[tk][sp] = rest
        /\ \A s \in Specs : s # sp => bars'[tk][s] = bars[tk][s]
        /\ \A t \in Symbols : t # tk => bars'[t] = bars[t]
        /\ \A t \in Symbols \ astray' : \A s \in Specs : OneOfEach(bars'[t][s])
    <3>1. bars' = WithSeries(bars, tk, sp, rest) /\ rest \in Rows /\ tk \in Symbols
      BY <1>5, <1>9, <2>1
    <3> QED  BY <2>2, <3>1, OnlyOneSeries
  <2>4. PICK aside : aside = <<file, old>>
    OBVIOUS
  <2>5. /\ script'.kind = script.kind /\ script'.targets = script.targets /\ script'.run = script.run
        /\ script'.before = script.before /\ script'.at = "replaces" /\ script'.day = script.day
        /\ script'.fetched = script.fetched /\ script'.failed = script.failed
        /\ script'.todo = script.todo /\ script'.aside = aside
        /\ script' = [kind |-> script'.kind, at |-> script'.at, targets |-> script'.targets,
               todo |-> script'.todo, now |-> script'.now, day |-> script'.day, run |-> script'.run,
               before |-> script'.before, fetched |-> script'.fetched, aside |-> script'.aside,
               failed |-> script'.failed]
    BY <1>2, <1>9, <2>4 DEF ScriptTypes
  <2>6. ScriptTypes'
    <3>1. \A t \in Symbols \ script'.targets : script'.fetched[t] = {} /\ bars'[t] = script'.before[t]
      BY <1>2, <1>3, <2>3, <2>5 DEF ScriptTypes
    <3>2. /\ script'.targets \subseteq Symbols /\ script'.run \in Nat /\ script'.before \in Catalogs
          /\ script'.fetched \in [Symbols -> Rows] /\ script'.failed \subseteq script'.targets
          /\ script'.kind \in {"ingest", "download", "rebuild", "repair", "stitch"}
      BY <1>2, <2>5 DEF ScriptTypes
    <3> QED  BY <2>5, <3>1, <3>2 DEF ScriptTypes
  <2>7. \A spec \in Specs : Behind(spec)' = Behind(spec) /\ (InHand(spec)' <=> spec = sp)
    BY <1>4, <2>5 DEF Behind, InHand
  <2>8. ASSUME NEW spec \in Specs  PROVE Repairs(tk, spec)'
    <3>1. CASE spec = sp
      <4>1. ~Behind(sp)' /\ InHand(sp)'
        BY <1>4, <2>7, SpecsAre DEF Behind
      <4>2. script'.aside[1] = file /\ script'.aside[2] = old
        BY <2>4, <2>5
      <4>3. tk \notin astray' => OfTheDay(bars[tk][sp])' = {}
        BY <1>9, <2>3, <2>5 DEF OfTheDay
      <4> QED  BY <1>6, <2>1, <2>3, <2>5, <3>1, <4>1, <4>2, <4>3 DEF Repairs
    <3>2. CASE spec # sp
      <4>1. /\ ~InHand(spec)' /\ ~InHand(spec) /\ Behind(spec)' = Behind(spec)
            /\ bars'[tk][spec] = bars[tk][spec]
        BY <1>6, <2>3, <2>7, <3>2
      <4>2. Behind(spec) => Renewed(tk, spec)'
        BY <1>3, <2>2, <2>5, <4>1, RenewedStill DEF Repairs
      <4> QED  BY <1>3, <2>5, <4>1, <4>2 DEF Repairs
    <3> QED  BY <3>1, <3>2
  <2>9. Repairing'
    BY <1>2, <1>3, <2>5, <2>8 DEF Repairing
  <2>10. script' # NoScript /\ ~Ended' /\ Progress'
    BY <2>5, <2>9 DEF NoScript, Ended, Progress
  <2> QED  BY <1>1, <1>2, <1>9, <2>2, <2>3, <2>5, <2>6, <2>10, ScriptGoesOn
<1> QED
  <2>1. \/ GivesUp(bars) /\ UNCHANGED astray
        \/ \E file \in {b.file : b \in bars[tk][sp]} :
             LET old == {b \in bars[tk][sp] : b.file = file} IN
             /\ bars' = WithSeries(bars, tk, sp, bars[tk][sp] \ old)
             /\ script' = [script EXCEPT !.aside = <<file, old>>, !.at = "replaces"]
             /\ astray' = IF \E b \in bars[tk][sp] \ old : DayOf(b.at) = script.day
                          THEN astray \cup {tk} ELSE astray
             /\ UNCHANGED unfinished
    BY <1>5 DEF SetsAside, Series, WithSeries
  <2> QED  BY <1>8, <1>9, <2>1

(* The series in hand, once the day's new rows are in it.                   *)
LEMMA SeriesRenewed ==
  ASSUME script.day \in Days, script.run \in Nat, NEW tk \in Tickers, NEW sp \in Specs, NEW file \in Int,
         NEW left \in Rows, NEW old \in Rows, NEW before \in Rows, left \cup old = before, NEW rows,
         rows = left \cup Outside(old, script.day) \cup NewRows(tk, sp, file)
  PROVE  /\ rows \in Rows /\ Outside(rows, script.day) = Outside(before, script.day)
         /\ OfTheDay(left) = {} => OfTheDay(rows) = NewRows(tk, sp, file)
         /\ OfTheDay(left) = {} /\ OneOfEach(before) => OneOfEach(rows)
<1> DEFINE new == NewRows(tk, sp, file)
<1>1. /\ new \in Rows /\ OneOfEach(new)
      /\ \A b \in new : DayOf(b.at) = script.day
  BY NewRowsAre
<1>2. rows = left \cup Outside(old, script.day) \cup new
  OBVIOUS
<1> HIDE DEF new
<1>3. rows \in Rows
  BY <1>1, <1>2 DEF Rows, Outside
<1>4. Outside(rows, script.day) = Outside(before, script.day)
  BY <1>1, <1>2 DEF Outside
<1>5. ASSUME OfTheDay(left) = {}  PROVE OfTheDay(rows) = new
  BY <1>1, <1>2, <1>5 DEF OfTheDay, Outside
<1>6. ASSUME OfTheDay(left) = {}, OneOfEach(before)  PROVE OneOfEach(rows)
  <2>1. \A b \in rows : b \in new \/ (b \in before /\ DayOf(b.at) # script.day)
    BY <1>2, <1>6 DEF OfTheDay, Outside
  <2> QED  BY <1>1, <1>6, <2>1 DEF OneOfEach
<1> QED  BY <1>3, <1>4, <1>5, <1>6 DEF new

LEMMA ReplacesKeeps ==
  ASSUME IngestInv, Replaces  PROVE IngestInv'
<1>1. script.at = "replaces" /\ UNCHANGED <<runs, unfinished, astray>>
  BY DEF Replaces
<1>2. /\ ScriptTypes /\ Repairing /\ bars \in Catalogs /\ script # NoScript /\ ~Ended
      /\ Settled = script.before
  BY <1>1, WhileItRepairs
<1>3. PICK tk \in Tickers : script.targets = {tk} /\ \A spec \in Specs : Repairs(tk, spec)
  BY <1>2 DEF Repairing
<1>4. PICK sp \in Specs : script.todo = {sp}
  BY <1>2, SpecsAre DEF Repairing
<1>5. Repaired = tk /\ Spec = sp /\ tk \in Symbols
  BY <1>3, <1>4, InHandAre DEF Symbols
<1>6. script.kind = "repair" /\ script.day \in Days /\ script.run \in Nat /\ script.before \in Catalogs
  BY <1>2 DEF Repairing, ScriptTypes
<1>7. PICK file, old : file = script.aside[1] /\ old = script.aside[2]
  OBVIOUS
<1>8. PICK rows : rows = bars[tk][sp] \cup Outside(old, script.day) \cup NewRows(tk, sp, file)
  OBVIOUS
<1>9. PICK rest : rest = AfterSpec(sp)
  OBVIOUS
<1>10. /\ bars' = WithSeries(bars, tk, sp, rows)
       /\ script' = [script EXCEPT !.todo = rest, !.aside = <<>>,
                                   !.at = IF rest = {} THEN "done" ELSE "sets aside"]
  BY <1>5, <1>7, <1>8, <1>9 DEF Replaces, Series, WithSeries
<1>11. /\ bars[tk][sp] \cup old = script.before[tk][sp] /\ file \in Int
       /\ tk \notin astray => OfTheDay(bars[tk][sp]) = {}
  BY <1>1, <1>3, <1>4, <1>7 DEF Repairs, InHand
<1>12. bars[tk][sp] \in Rows /\ old \in Rows /\ script.before[tk][sp] \in Rows
  <2>1. bars[tk][sp] \in Rows /\ script.before[tk][sp] \in Rows
    BY <1>2, <1>5, <1>6, CatalogsAre
  <2> QED  BY <1>11, <2>1 DEF Rows
<1>13. /\ rows \in Rows /\ Outside(rows, script.day) = Outside(script.before[tk][sp], script.day)
       /\ tk \notin astray => OfTheDay(rows) = NewRows(tk, sp, file) /\ OneOfEach(rows)
  <2>1. tk \notin astray => OneOfEach(script.before[tk][sp])
    BY <1>2, <1>5 DEF IngestInv
  <2>2. PICK left, before : left = bars[tk][sp] /\ before = script.before[tk][sp]
    OBVIOUS
  <2>3. left \in Rows /\ old \in Rows /\ before \in Rows /\ left \cup old = before
    BY <1>11, <1>12, <2>2
  <2>4. rows = left \cup Outside(old, script.day) \cup NewRows(tk, sp, file)
    BY <1>8, <2>2
  <2>5. /\ rows \in Rows /\ Outside(rows, script.day) = Outside(before, script.day)
        /\ OfTheDay(left) = {} => OfTheDay(rows) = NewRows(tk, sp, file)
        /\ OfTheDay(left) = {} /\ OneOfEach(before) => OneOfEach(rows)
    BY <1>6, <1>11, <2>3, <2>4, SeriesRenewed
  <2> QED  BY <1>11, <2>1, <2>2, <2>5
<1>14. /\ bars' \in Catalogs /\ bars'[tk][sp] = rows
       /\ \A s \in Specs : s # sp => bars'[tk][s] = bars[tk][s]
       /\ \A t \in Symbols : t # tk => bars'[t] = bars[t]
       /\ \A t \in Symbols \ astray' : \A s \in Specs : OneOfEach(bars'[t][s])
  <2>1. astray \subseteq astray' /\ (tk \in astray' \/ OneOfEach(rows))
    BY <1>1, <1>13
  <2> QED  BY <1>5, <1>10, <1>13, <2>1, OnlyOneSeries
<1>15. /\ script'.kind = script.kind /\ script'.targets = script.targets /\ script'.run = script.run
       /\ script'.before = script.before /\ script'.day = script.day
       /\ script'.fetched = script.fetched /\ script'.failed = script.failed
       /\ script'.todo = rest /\ script'.at = (IF rest = {} THEN "done" ELSE "sets aside")
       /\ script' = [kind |-> script'.kind, at |-> script'.at, targets |-> script'.targets,
               todo |-> script'.todo, now |-> script'.now, day |-> script'.day, run |-> script'.run,
               before |-> script'.before, fetched |-> script'.fetched, aside |-> script'.aside,
               failed |-> script'.failed]
  <2>1. /\ script'.kind = script.kind /\ script'.targets = script.targets /\ script'.run = script.run
        /\ script'.before = script.before /\ script'.day = script.day
    BY <1>2, <1>10 DEF ScriptTypes
  <2>2. /\ script'.fetched = script.fetched /\ script'.failed = script.failed
        /\ script'.todo = rest /\ script'.at = (IF rest = {} THEN "done" ELSE "sets aside")
    BY <1>2, <1>10 DEF ScriptTypes
  <2>3. script' = [kind |-> script'.kind, at |-> script'.at, targets |-> script'.targets,
               todo |-> script'.todo, now |-> script'.now, day |-> script'.day, run |-> script'.run,
               before |-> script'.before, fetched |-> script'.fetched, aside |-> script'.aside,
               failed |-> script'.failed]
    BY <1>2, <1>10 DEF ScriptTypes
  <2> QED  BY <2>1, <2>2, <2>3
<1>16. ScriptTypes'
  <2>1. \A t \in Symbols \ script'.targets : script'.fetched[t] = {} /\ bars'[t] = script'.before[t]
    <3>1. script'.targets = script.targets /\ script'.fetched = script.fetched /\ script'.before = script.before
      BY <1>15
    <3>2. ASSUME NEW t \in Symbols \ script.targets  PROVE script.fetched[t] = {} /\ bars'[t] = script.before[t]
      <4>1. t # tk /\ bars'[t] = bars[t]
        BY <1>3, <1>14
      <4> QED  BY <1>2, <4>1 DEF ScriptTypes
    <3> QED  BY <3>1, <3>2
  <2>2. /\ script'.targets \subseteq Symbols /\ script'.run \in Nat /\ script'.before \in Catalogs
        /\ script'.fetched \in [Symbols -> Rows] /\ script'.failed \subseteq script'.targets
        /\ script'.kind \in {"ingest", "download", "rebuild", "repair", "stitch"}
    BY <1>2, <1>15 DEF ScriptTypes
  <2> QED  BY <1>15, <2>1, <2>2 DEF ScriptTypes
<1>17. Renewed(tk, sp)'
  <2>1. NewRows(tk, sp, file)' = NewRows(tk, sp, file)
    BY <1>15 DEF NewRows
  <2>2. OfTheDay(bars[tk][sp])' = OfTheDay(rows)
    BY <1>14, <1>15 DEF OfTheDay
  <2>3. tk \notin astray' => OfTheDay(bars[tk][sp])' = NewRows(tk, sp, file)'
    BY <1>1, <1>13, <2>1, <2>2
  <2>4. Outside(bars'[tk][sp], script'.day) = Outside(script'.before[tk][sp], script'.day)
    BY <1>13, <1>14, <1>15
  <2>5. tk \notin astray' => \E f \in Int : OfTheDay(bars[tk][sp])' = NewRows(tk, sp, f)'
    <3>1. \A f \in Int : NewRows(tk, sp, f)' = NewRows(tk, sp, f)
      BY <1>15 DEF NewRows
    <3> QED  BY <1>11, <2>1, <2>3, <3>1
  <2> QED  BY <2>4, <2>5 DEF Renewed
<1>18. ASSUME NEW spec \in Specs, Behind(spec)  PROVE Renewed(tk, spec)' /\ spec # sp
  <2>1. spec # sp
    BY <1>4, <1>18, SpecsAre DEF Behind
  <2>2. Renewed(tk, spec) /\ bars'[tk][spec] = bars[tk][spec]
    BY <1>3, <1>14, <1>18, <2>1 DEF Repairs
  <2> QED  BY <1>1, <1>15, <2>1, <2>2, RenewedStill
<1>19. /\ sp = "minute" => rest = {"bucket"}
       /\ sp = "bucket" => rest = {"day"}
       /\ sp = "day" => rest = {}
  BY <1>9 DEF AfterSpec
<1>20. CASE sp # "day"
  <2>1. script'.at = "sets aside" /\ rest \in {{"bucket"}, {"day"}} /\ script'.todo = rest
    BY <1>15, <1>19, <1>20, SpecsAre
  <2>2. ASSUME NEW spec \in Specs  PROVE Repairs(tk, spec)'
    <3>1. ~InHand(spec)'
      BY <2>1 DEF InHand
    <3>2. Behind(spec)' <=> Behind(spec) \/ spec = sp
      BY <1>4, <1>19, <1>20, <2>1, SpecsAre DEF Behind
    <3>3. CASE Behind(spec)'
      BY <1>17, <1>18, <3>1, <3>2, <3>3 DEF Repairs
    <3>4. CASE ~Behind(spec)'
      <4>1. ~Behind(spec) /\ spec # sp /\ ~InHand(spec)
        BY <1>4, <3>2, <3>4 DEF InHand
      <4>2. bars'[tk][spec] = script'.before[tk][spec]
        BY <1>3, <1>14, <1>15, <4>1 DEF Repairs
      <4> QED  BY <3>1, <3>4, <4>2 DEF Repairs
    <3> QED  BY <3>3, <3>4
  <2>3. Repairing'
    BY <1>3, <1>6, <1>15, <2>1, <2>2 DEF Repairing
  <2>4. script' # NoScript /\ ~Ended' /\ Progress'
    <3>1. NoScript.at = "none"
      BY DEF NoScript
    <3>2. script' # NoScript /\ ~Ended'
      BY <2>1, <3>1 DEF Ended
    <3> QED  BY <2>1, <2>3, <3>2 DEF Progress
  <2> QED  BY <1>1, <1>2, <1>14, <1>15, <1>16, <2>4, ScriptGoesOn
<1>21. CASE sp = "day"
  <2>1. script'.at = "done" /\ Ended'
    BY <1>15, <1>19, <1>21 DEF Ended
  <2>2. ASSUME NEW spec \in Specs  PROVE Renewed(tk, spec)'
    <3>1. Behind(spec) \/ spec = sp
      BY <1>4, <1>21, SpecsAre DEF Behind
    <3> QED  BY <1>17, <1>18, <3>1
  <2>3. \A spec \in Specs :
          /\ Outside(bars'[tk][spec], script.day) = Outside(script.before[tk][spec], script.day)
          /\ tk \notin astray => \E f \in Int : OfTheDay(bars'[tk][spec]) = NewRows(tk, spec, f)
    <3> SUFFICES ASSUME NEW spec \in Specs
                 PROVE  /\ Outside(bars'[tk][spec], script.day) = Outside(script.before[tk][spec], script.day)
                        /\ tk \notin astray => \E f \in Int : OfTheDay(bars'[tk][spec]) = NewRows(tk, spec, f)
      OBVIOUS
    <3>1. script'.day = script.day /\ script'.run = script.run /\ script'.before = script.before
      BY <1>15
    <3>2. \A f \in Int : NewRows(tk, spec, f)' = NewRows(tk, spec, f)
      BY <3>1 DEF NewRows
    <3>3. OfTheDay(bars[tk][spec])' = OfTheDay(bars'[tk][spec])
      BY <3>1 DEF OfTheDay
    <3>4. /\ Outside(bars'[tk][spec], script'.day) = Outside(script'.before[tk][spec], script'.day)
          /\ tk \notin astray' => \E f \in Int : OfTheDay(bars[tk][spec])' = NewRows(tk, spec, f)'
      BY <2>2 DEF Renewed
    <3> QED  BY <1>1, <3>1, <3>2, <3>3, <3>4
  <2>4. RepairsOneDay'
    <3> SUFFICES ASSUME NEW spec \in Specs
                 PROVE  /\ Outside(bars'[tk][spec], script.day) = Outside(script.before[tk][spec], script.day)
                        /\ tk \notin astray =>
                             \A b \in bars'[tk][spec] : DayOf(b.at) = script.day => b.from = {script.run}
      BY <1>1, <1>3, <1>15 DEF RepairsOneDay, Outside
    <3>1. ASSUME tk \notin astray, NEW b \in bars'[tk][spec], DayOf(b.at) = script.day
          PROVE  b.from = {script.run}
      <4>1. PICK f \in Int : OfTheDay(bars'[tk][spec]) = NewRows(tk, spec, f)
        BY <2>3, <3>1
      <4>2. b \in NewRows(tk, spec, f)
        BY <3>1, <4>1 DEF OfTheDay
      <4> QED  BY <1>6, <4>2, NewRowsAre
    <3> QED  BY <2>3, <3>1
  <2>5. ScriptsChangeTheirOwn'
    BY <1>6, <1>15, <2>4 DEF ScriptsChangeTheirOwn, OldOrNew
  <2>6. ASSUME NEW t \in Symbols \ (astray' \cup unfinished')  PROVE Follows(bars'[t])
    <3>1. Follows(script.before[t]) /\ t \notin astray
      BY <1>1, <1>2, <2>6 DEF IngestInv
    <3>2. CASE t # tk
      <4>1. bars'[t] = script.before[t]
        BY <1>2, <1>3, <1>14, <3>2 DEF ScriptTypes
      <4> QED  BY <3>1, <4>1
    <3>3. CASE t = tk
      <4>1. PICK s, before : s = bars'[tk] /\ before = script.before[tk]
        OBVIOUS
      <4>2. s \in [Specs -> Rows] /\ before \in [Specs -> Rows] /\ Follows(before)
        BY <1>5, <1>6, <1>14, <3>1, <3>3, <4>1 DEF Catalogs
      <4>3. \A spec \in Specs :
              /\ Outside(s[spec], script.day) = Outside(before[spec], script.day)
              /\ \E f \in Int : OfTheDay(s[spec]) = NewRows(tk, spec, f)
        BY <2>3, <3>1, <3>3, <4>1
      <4> QED  BY <1>6, <3>3, <4>1, <4>2, <4>3, RenewedFollow
    <3> QED  BY <3>2, <3>3
  <2> QED  BY <1>1, <1>14, <1>16, <2>1, <2>5, <2>6, ScriptEnds
<1> QED  BY <1>20, <1>21

LEMMA IngestInvNext == IngestInv /\ [IngestNext]_ingestVars => IngestInv'
<1> SUFFICES ASSUME IngestInv, [IngestNext]_ingestVars  PROVE IngestInv'
  OBVIOUS
<1>1. CASE UNCHANGED ingestVars
  <2>1. bars' = bars /\ script' = script /\ runs' = runs /\ unfinished' = unfinished /\ astray' = astray
    BY <1>1 DEF ingestVars
  <2>2. ScriptTypes' = ScriptTypes /\ Ended' = Ended /\ Settled' = Settled /\ Current' = Current
    BY <2>1 DEF ScriptTypes, Ended, Settled, Current
  <2>3. \A tk : HasOld(tk)' = HasOld(tk) /\ HasNew(tk)' = HasNew(tk) /\ Swapped(tk)' = Swapped(tk)
    BY <2>1 DEF HasOld, HasNew, Swapped
  <2>4. Clearing' = Clearing /\ Loading' = Loading
    BY <2>1, <2>3 DEF Clearing, Loading
  <2>5. Downloading' = Downloading
    BY <2>1, <2>2, <2>3 DEF Downloading
  <2>6. Moving(script.now[1])' = Moving(script.now[1])
    BY <2>1 DEF Moving, MovedOut
  <2>7. Building' = Building
    BY <2>1 DEF Building, HasOld, HasNew, Stands, ToCome
  <2>8. Repairing' = Repairing
    <3>1. \A tk, spec : Renewed(tk, spec)' = Renewed(tk, spec)
      BY <2>1 DEF Renewed, OfTheDay, NewRows
    <3>2. \A tk, spec : Repairs(tk, spec)' = Repairs(tk, spec)
      BY <2>1, <3>1 DEF Repairs, Behind, InHand, OfTheDay
    <3> QED  BY <2>1, <3>2 DEF Repairing
  <2>9. ScriptsChangeTheirOwn' = ScriptsChangeTheirOwn
    BY <2>1, <2>2 DEF ScriptsChangeTheirOwn, OldOrNew, RepairsOneDay
  <2>10. Progress' = Progress
    BY <2>1, <2>2, <2>4, <2>5, <2>6, <2>7, <2>8, <2>9 DEF Progress
  <2> QED  BY <2>1, <2>2, <2>10 DEF IngestInv
<1> QED
  BY <1>1, StartIngestKeeps, ClearsKeeps, IngestYearKeeps, StartDownloadKeeps, NextTickerKeeps, FetchYearKeeps,
     MovesOutKeeps, MovesInKeeps, RenameRefusedKeeps, StartRebuildKeeps, ToBuildKeeps, DropsKeeps, BuildsKeeps,
     DescribesKeeps, WritesGapsKeeps, StartRepairKeeps, SetsAsideKeeps, ReplacesKeeps, JoinsKeeps, RestsKeeps,
     KilledKeeps DEF IngestNext

(* Whatever the tickers, the years and what the provider has of each day,   *)
(* a ticker no script was killed over has, between scripts, coarser series  *)
(* that follow from the minutes it has, and never two bars of one label     *)
(* (ingest_equities.build_tf_bars, repair_massive_intraday.repair_day).     *)
THEOREM SeriesAlwaysAgree == IngestSpec => []SeriesAgree
<1>1. IngestInv => SeriesAgree
  <2> SUFFICES ASSUME IngestInv, NEW tk \in Symbols \ astray
               PROVE  /\ \A spec \in Specs : OneOfEach(bars[tk][spec])
                      /\ script = NoScript /\ tk \notin unfinished => Follows(bars[tk])
    BY DEF SeriesAgree, OneOfEach, Follows
  <2> QED  BY DEF IngestInv, Settled
<1> QED  BY <1>1, IngestInvInit, IngestInvNext, PTL DEF IngestSpec

(* A script that ended changed what it was asked to change, whole, and      *)
(* nothing else: a download leaves a ticker what it had or all that came, a *)
(* repair no day but its own (download_massive._swap_ticker_bars,           *)
(* repair_massive_intraday.repair_day).                                     *)
THEOREM ScriptsAlwaysChangeTheirOwn == IngestSpec => []ScriptsChangeTheirOwn
<1>1. IngestInv => ScriptsChangeTheirOwn
  <2> SUFFICES ASSUME IngestInv  PROVE ScriptsChangeTheirOwn
    OBVIOUS
  <2>1. CASE ~Ended
    BY <2>1 DEF ScriptsChangeTheirOwn, OldOrNew, RepairsOneDay, Ended
  <2>2. CASE Ended
    <3>1. script # NoScript
      <4>1. NoScript.at = "none"
        BY DEF NoScript
      <4> QED  BY <2>2, <4>1 DEF Ended
    <3> QED  BY <2>2, <3>1 DEF IngestInv, Progress, Ended
  <2> QED  BY <2>1, <2>2
<1> QED  BY <1>1, IngestInvInit, IngestInvNext, PTL DEF IngestSpec
=============================================================================
