----------------------------- MODULE BarProofs -----------------------------
(***************************************************************************)
(* Invariance proofs for the bars: the readers of external catalogs        *)
(* (ExternalBars) and the file of the exchange's bars (BarCache).          *)
(***************************************************************************)
EXTENDS ExternalBars, BarCache, FiniteSetTheorems, WellFoundedInduction, TLAPS

-----------------------------------------------------------------------------
(* The series and the manifest.  Versions only grow, and a series moved    *)
(* away comes back under the version it had, so a caller has been shown    *)
(* every version from its signature's on: what it is answered only has to  *)
(* be no older than that.                                                  *)
Locked == {"compares again", "reads again", "decodes", "writes", "seals"}
Looking == {"reads", "reads again"}

SeriesAsks ==
  [at : {"compares", "waits", "reads", "answered"} \cup Locked,
   sig : Nat, got : Nat, since : SUBSET Nat]
ManifestAsks ==
  [at : {"recalls", "remembers", "answered"}, sig : Nat, got : Nat, since : SUBSET Nat]

Versions ==
  /\ written \in Nat /\ 1 <= written /\ series \in {None, written} /\ aside \in {None, written}
  /\ serving = "manifest" => series = written

(* Of a call a, when the last version is w: what it has been shown, and     *)
(* what it has got.                                                         *)
Shown(a, w) == 1 <= a.sig /\ a.sig <= w /\ \A v \in Nat : a.sig <= v /\ v <= w => v \in a.since
NoOlder(a, w) == a.sig <= a.got /\ a.got <= w

(* A call a of c, the frame f, its sidecar s and the lock l.                *)
Decoding(c, a, w, f, s, l) ==
  \/ a = Rest
  \/ /\ a \in SeriesAsks /\ Shown(a, w)
     /\ a.at \in Locked => l = c
     /\ a.at \in {"writes", "seals", "answered"} => NoOlder(a, w)
     /\ a.at = "writes" => s <= a.got
     /\ a.at = "seals" => f = a.got
     /\ a.at \in Looking => a.sig <= f

(* What a reader is about to read, and what may replace it meanwhile.       *)
Replaces(a, b) == a.at \in Looking /\ b.at = "writes" => a.sig <= b.got

SeriesInv ==
  /\ Versions /\ serving = "series"
  /\ frame \in Nat /\ signature \in Nat /\ signature <= frame /\ frame <= written
  /\ DOMAIN asks = Readers /\ asks = [c \in Readers |-> asks[c]]
  /\ \A c \in Readers : Decoding(c, asks[c], written, frame, signature, decodeLock)
  /\ \A c, d \in Readers : Replaces(asks[c], asks[d])

Recalled(a, w) ==
  \/ a = Rest
  \/ a \in ManifestAsks /\ Shown(a, w) /\ (a.at # "recalls" => NoOlder(a, w))

ManifestInv ==
  /\ Versions /\ serving = "manifest"
  /\ remembered \in [sig : Nat, read : Nat] /\ remembered.sig <= remembered.read
  /\ remembered.read <= written
  /\ asks = [c \in Readers |-> asks[c]]
  /\ \A c \in Readers : Recalled(asks[c], written)

-----------------------------------------------------------------------------
LEMMA AtRest == Rest.at = "rest" /\ \A b : Replaces(Rest, b) /\ Replaces(b, Rest)
BY DEF Rest, Replaces, Looking

LEMMA SeriesInit == ExternalInit /\ serving = "series" => SeriesInv
<1> SUFFICES ASSUME ExternalInit, serving = "series" PROVE SeriesInv
  OBVIOUS
<1>1. asks = [c \in Readers |-> Rest]
  BY DEF ExternalInit
<1>2. asks = [c \in Readers |-> asks[c]] /\ DOMAIN asks = Readers /\ \A c \in Readers : asks[c] = Rest
  BY <1>1
<1>3. \A c \in Readers : Decoding(c, asks[c], written, frame, signature, decodeLock)
  BY <1>2 DEF Decoding
<1> QED  BY <1>2, <1>3, AtRest DEF ExternalInit, SeriesInv, Versions, None

(* A call that goes on, everything else of it as it was.                    *)
LEMMA TurnedAsk ==
  ASSUME NEW a \in SeriesAsks, NEW at \in {"compares", "waits", "reads", "answered"} \cup Locked
  PROVE  /\ [a EXCEPT !.at = at] \in SeriesAsks /\ [a EXCEPT !.at = at].at = at
         /\ [a EXCEPT !.at = at].sig = a.sig /\ [a EXCEPT !.at = at].got = a.got
         /\ [a EXCEPT !.at = at].since = a.since
BY DEF SeriesAsks

(* One call moved: the others still fit what did not change under them.     *)
LEMMA OneMoved ==
  ASSUME SeriesInv, NEW c \in Readers, NEW b,
         asks' = [asks EXCEPT ![c] = b], UNCHANGED sourceVars,
         frame' \in Nat, signature' \in Nat, signature' <= frame', frame' <= written,
         \A d \in Readers \ {c} : Decoding(d, asks[d], written, frame', signature', decodeLock'),
         Decoding(c, b, written, frame', signature', decodeLock'),
         \A d \in Readers \ {c} : Replaces(asks[d], b) /\ Replaces(b, asks[d]), Replaces(b, b)
  PROVE  SeriesInv'
<1>1. asks'[c] = b /\ \A d \in Readers \ {c} : asks'[d] = asks[d]
  BY DEF SeriesInv
<1>2. asks' = [d \in Readers |-> asks'[d]] /\ DOMAIN asks' = Readers
  BY DEF SeriesInv
<1>3. Versions' /\ serving' = "series" /\ written' = written
  BY DEF sourceVars, SeriesInv, Versions
<1>4. \A d \in Readers : Decoding(d, asks'[d], written', frame', signature', decodeLock')
  BY <1>1, <1>3
<1>5. \A d, e \in Readers : Replaces(asks'[d], asks'[e])
  BY <1>1 DEF SeriesInv
<1> QED  BY <1>2, <1>3, <1>4, <1>5 DEF SeriesInv

LEMMA SeriesScripts == SeriesInv /\ ScriptStep => SeriesInv'
<1> SUFFICES ASSUME SeriesInv, ScriptStep PROVE SeriesInv'
  OBVIOUS
<1>1. /\ UNCHANGED <<serving, diskVars>> /\ serving = "series"
      /\ written \in Nat /\ written' \in Nat /\ written <= written'
      /\ Versions' /\ frame' <= written'
  BY DEF ScriptStep, WritesSeries, SeriesInv, Versions, diskVars, None
<1>2. CASE UNCHANGED <<written, asks>>
  BY <1>1, <1>2 DEF SeriesInv, diskVars
<1>3. ASSUME NEW v \in Nat, Seen(v), written' = written \/ (written' = written + 1 /\ v = written')
      PROVE  SeriesInv'
  <2>1. ASSUME NEW c \in Readers, asks[c] # Rest
        PROVE  /\ asks[c] \in SeriesAsks /\ asks[c].at # "rest"
               /\ asks'[c] = [asks[c] EXCEPT !.since = @ \cup {v}]
    BY <1>3, <2>1 DEF SeriesInv, Decoding, Seen, SeriesAsks, Locked
  <2>2. ASSUME NEW c \in Readers, asks[c] # Rest
        PROVE  /\ asks'[c] \in SeriesAsks /\ asks'[c].at = asks[c].at /\ asks'[c].sig = asks[c].sig
               /\ asks'[c].got = asks[c].got /\ asks'[c].since = asks[c].since \cup {v}
    <3>1. asks[c].since \cup {v} \in SUBSET Nat
      BY <2>1, <2>2 DEF SeriesAsks
    <3> QED  BY <2>1, <2>2, <3>1 DEF SeriesAsks
  <2>3. ASSUME NEW c \in Readers, asks[c] = Rest  PROVE asks'[c] = Rest
    BY <1>3, <2>3 DEF Seen, Rest
  <2>4. ASSUME NEW c \in Readers
        PROVE  Decoding(c, asks'[c], written', frame', signature', decodeLock')
    <3>1. CASE asks[c] = Rest
      BY <3>1, <2>3 DEF Decoding
    <3>2. CASE asks[c] # Rest
      <4>1. asks[c] \in SeriesAsks /\ Shown(asks[c], written)
        BY <3>2 DEF SeriesInv, Decoding
      <4>2. Shown(asks'[c], written')
        BY <4>1, <3>2, <2>2, <1>1, <1>3 DEF Shown, SeriesAsks
      <4>3. NoOlder(asks[c], written) => NoOlder(asks'[c], written')
        BY <4>1, <3>2, <2>2, <1>1 DEF NoOlder, SeriesAsks
      <4> QED  BY <4>1, <4>2, <4>3, <3>2, <2>2, <1>1 DEF SeriesInv, Decoding, diskVars
    <3> QED  BY <3>1, <3>2
  <2>5. ASSUME NEW c \in Readers, NEW d \in Readers  PROVE Replaces(asks'[c], asks'[d])
    <3>1. CASE asks[c] = Rest \/ asks[d] = Rest
      BY <3>1, <2>3, AtRest
    <3>2. CASE asks[c] # Rest /\ asks[d] # Rest
      BY <3>2, <2>2 DEF SeriesInv, Replaces
    <3> QED  BY <3>1, <3>2
  <2>6. asks' = [c \in Readers |-> asks'[c]] /\ DOMAIN asks' = Readers
    BY <1>3 DEF Seen
  <2> QED  BY <1>1, <2>4, <2>5, <2>6 DEF SeriesInv, diskVars
<1>4. written + 1 \in Nat /\ aside \in Nat
  BY <1>1 DEF SeriesInv, Versions, None
<1> QED  BY <1>1, <1>2, <1>3, <1>4 DEF ScriptStep, WritesSeries

LEMMA SeriesCalls ==
  ASSUME SeriesInv, NEW c \in Readers, ExternalStep(c)
  PROVE  SeriesInv'
<1>0. /\ serving = "series" /\ written \in Nat /\ 1 <= written /\ series \in {None, written}
      /\ frame \in Nat /\ signature \in Nat /\ signature <= frame /\ frame <= written
      /\ c \notin {Unlocked, Gone}
      /\ \A d \in Readers : Decoding(d, asks[d], written, frame, signature, decodeLock)
      /\ \A d, e \in Readers : Replaces(asks[d], asks[e])
  BY ExternalAssumption DEF SeriesInv, Versions, Unlocked, Gone
<1>a. asks[c] # Rest => asks[c] \in SeriesAsks /\ Shown(asks[c], written)
  BY <1>0 DEF Decoding
<1>r. asks[c] \notin SeriesAsks => asks[c] = Rest /\ asks[c].at = "rest"
  BY <1>a, AtRest
<1>n. signature <= written /\ written \in Nat
  BY <1>0
<1>l. asks[c].at \in Locked => decodeLock = c /\ decodeLock \notin {Unlocked, Gone}
  BY <1>0, AtRest DEF Decoding, Locked
<1>1. CASE LoadSeries(c)
  <2> DEFINE b == [at |-> "compares", sig |-> series, got |-> None, since |-> {series}]
  <2>1. /\ asks' = [asks EXCEPT ![c] = b] /\ series = written /\ written # None
        /\ UNCHANGED <<sourceVars, diskVars>>
    BY <1>1, <1>0 DEF LoadSeries, Calls, None
  <2>2. b \in SeriesAsks /\ Shown(b, written) /\ b.at = "compares"
    BY <2>1, <1>0 DEF SeriesAsks, Shown, None
  <2>3. Decoding(c, b, written, frame', signature', decodeLock')
    BY <2>2 DEF Decoding, Locked, Looking
  <2>4. \A d \in Readers : Replaces(asks[d], b) /\ Replaces(b, asks[d])
    BY <2>2 DEF Replaces, Looking
  <2>5. Replaces(b, b)
    BY <2>2 DEF Replaces
  <2> HIDE DEF b
  <2> QED  BY <1>0, <2>1, <2>3, <2>4, <2>5, OneMoved DEF diskVars
<1>2. CASE Compares(c)
  <2>1. PICK at \in {"waits", "reads", "reads again", "decodes"} :
          /\ asks' = [asks EXCEPT ![c].at = at]
          /\ at \in Looking => frame # None /\ signature = asks[c].sig
          /\ at \in Locked => asks[c].at = "compares again"
          /\ at = "decodes" => TRUE
    BY <1>2 DEF Compares, Turns, Looking, Locked
  <2>2. /\ asks[c].at \in {"compares", "compares again"} /\ UNCHANGED <<sourceVars, diskVars>>
        /\ asks[c] \in SeriesAsks
    BY <1>2, <1>r DEF Compares
  <2> DEFINE b == [asks[c] EXCEPT !.at = at]
  <2>3. /\ b \in SeriesAsks /\ b.at = at /\ b.sig = asks[c].sig /\ b.got = asks[c].got
        /\ b.since = asks[c].since
    BY <2>2, TurnedAsk DEF Locked
  <2>4. asks' = [asks EXCEPT ![c] = b]
    BY <2>1
  <2> HIDE DEF b
  <2>5. Shown(b, written)
    BY <2>2, <2>3, <1>a, AtRest DEF Shown
  <2>6. Decoding(c, b, written, frame', signature', decodeLock')
    <3>1. b.at \in Locked => decodeLock = c
      BY <2>1, <2>3, <1>l DEF Locked
    <3>2. b.at \in Looking => b.sig <= frame
      BY <1>0, <2>1, <2>3
    <3> QED  BY <2>1, <2>2, <2>3, <2>5, <3>1, <3>2 DEF Decoding, diskVars
  <2>7. \A d \in Readers \ {c} : Replaces(asks[d], b) /\ Replaces(b, asks[d])
    <3> SUFFICES ASSUME NEW d \in Readers PROVE Replaces(asks[d], b) /\ Replaces(b, asks[d])
      OBVIOUS
    <3>1. Replaces(asks[d], b)
      BY <2>3 DEF Replaces
    <3>2. CASE at \in Looking /\ asks[d].at = "writes"
      <4>1. asks[d] \in SeriesAsks /\ signature <= asks[d].got
        BY <1>0, <3>2, AtRest DEF Decoding
      <4> QED  BY <2>1, <2>3, <3>1, <3>2, <4>1 DEF Replaces
    <3> QED  BY <3>1, <3>2, <2>3 DEF Replaces
  <2>8. Replaces(b, b)
    BY <2>3 DEF Replaces
  <2> QED  BY <1>0, <2>2, <2>4, <2>6, <2>7, <2>8, OneMoved DEF diskVars
<1>3. CASE Reads(c)
  <2>1. /\ asks[c].at \in Looking /\ asks[c] \in SeriesAsks
        /\ asks' = [asks EXCEPT ![c].at = "answered", ![c].got = frame]
        /\ UNCHANGED <<sourceVars, frame, signature>>
        /\ decodeLock' = decodeLock \/ decodeLock = c
    BY <1>3, <1>l, <1>r DEF Reads, Serves, Looking, Locked
  <2> DEFINE b == [asks[c] EXCEPT !.at = "answered", !.got = frame]
  <2>2. /\ b \in SeriesAsks /\ b.at = "answered" /\ b.sig = asks[c].sig /\ b.got = frame
        /\ b.since = asks[c].since
    BY <1>0, <2>1 DEF SeriesAsks
  <2>3. asks' = [asks EXCEPT ![c] = b]
    BY <2>1
  <2> HIDE DEF b
  <2>4. asks[c].sig <= frame
    BY <1>0, <2>1, AtRest DEF Decoding, Looking
  <2>5. Decoding(c, b, written, frame', signature', decodeLock')
    BY <1>0, <1>a, <2>1, <2>2, <2>4, AtRest DEF Decoding, Looking, Locked, Shown, NoOlder
  <2>6. \A d \in Readers \ {c} : Decoding(d, asks[d], written, frame', signature', decodeLock')
    BY <1>0, <2>1 DEF Decoding
  <2>7. \A d \in Readers : Replaces(asks[d], b) /\ Replaces(b, asks[d])
    BY <2>2 DEF Replaces, Looking
  <2>8. Replaces(b, b)
    BY <2>2 DEF Replaces
  <2> QED  BY <1>0, <2>1, <2>3, <2>5, <2>6, <2>7, <2>8, OneMoved
<1>4. CASE TakesLock(c)
  <2>1. /\ asks[c].at = "waits" /\ asks[c] \in SeriesAsks /\ decodeLock \in {Unlocked, Gone}
        /\ decodeLock' = c /\ asks' = [asks EXCEPT ![c].at = "compares again"]
        /\ UNCHANGED <<sourceVars, frame, signature>>
    BY <1>4, <1>r DEF TakesLock, Turns
  <2> DEFINE b == [asks[c] EXCEPT !.at = "compares again"]
  <2>2. /\ b \in SeriesAsks /\ b.at = "compares again" /\ b.sig = asks[c].sig /\ b.got = asks[c].got
        /\ b.since = asks[c].since
    BY <2>1, TurnedAsk DEF Locked
  <2>3. asks' = [asks EXCEPT ![c] = b]
    BY <2>1
  <2> HIDE DEF b
  <2>4. Decoding(c, b, written, frame', signature', decodeLock')
    BY <1>a, <2>1, <2>2, AtRest DEF Decoding, Looking, Locked, Shown
  <2>5. \A d \in Readers \ {c} : Decoding(d, asks[d], written, frame', signature', decodeLock')
    BY <1>0, <2>1, ExternalAssumption DEF Decoding, Unlocked, Gone
  <2>6. \A d \in Readers : Replaces(asks[d], b) /\ Replaces(b, asks[d])
    BY <2>2 DEF Replaces, Looking
  <2>7. Replaces(b, b)
    BY <2>2 DEF Replaces
  <2> QED  BY <1>0, <2>1, <2>3, <2>4, <2>5, <2>6, <2>7, OneMoved
<1>5. CASE Decodes(c)
  <2>1. /\ asks[c].at = "decodes" /\ asks[c] \in SeriesAsks /\ decodeLock = c
        /\ UNCHANGED <<sourceVars, frame, signature>>
    BY <1>5, <1>r, <1>l DEF Decodes, Locked
  <2>2. CASE series = None /\ decodeLock' = Unlocked /\ Leaves(c)
    BY <1>0, <2>1, <2>2, AtRest, OneMoved DEF Leaves, Decoding
  <2>3. CASE series # None /\ asks' = [asks EXCEPT ![c].got = series, ![c].at = "writes"] /\ UNCHANGED decodeLock
    <3> DEFINE b == [asks[c] EXCEPT !.got = series, !.at = "writes"]
    <3>1. /\ b \in SeriesAsks /\ b.at = "writes" /\ b.sig = asks[c].sig /\ b.got = written
          /\ b.since = asks[c].since
      BY <1>0, <2>1, <2>3 DEF SeriesAsks, Locked
    <3>2. asks' = [asks EXCEPT ![c] = b]
      BY <2>3
    <3> HIDE DEF b
    <3>3. Decoding(c, b, written, frame', signature', decodeLock')
      <4>1. Shown(b, written) /\ b.sig <= b.got
        BY <1>a, <2>1, <3>1, AtRest DEF Shown
      <4>2. signature <= written /\ signature <= b.got
        BY <1>n, <3>1
      <4>3. NoOlder(b, written)
        BY <1>n, <3>1, <4>1 DEF NoOlder
      <4> QED  BY <2>1, <2>3, <3>1, <4>1, <4>2, <4>3 DEF Decoding, Looking, Locked
    <3>4. \A d \in Readers \ {c} : Replaces(asks[d], b) /\ Replaces(b, asks[d])
      <4> SUFFICES ASSUME NEW d \in Readers PROVE Replaces(asks[d], b) /\ Replaces(b, asks[d])
        OBVIOUS
      <4>1. asks[d] = Rest \/ asks[d].sig <= written
        BY <1>0 DEF Decoding, Shown
      <4> QED  BY <3>1, <4>1, AtRest DEF Replaces, Looking
    <3>5. Replaces(b, b)
      BY <3>1 DEF Replaces, Looking
    <3> QED  BY <1>0, <2>1, <2>3, <3>2, <3>3, <3>4, <3>5, OneMoved
  <2> QED  BY <1>5, <2>2, <2>3 DEF Decodes
<1>6. CASE Keeps(c)
  <2>1. /\ asks[c].at \in {"writes", "seals"} /\ asks[c] \in SeriesAsks /\ decodeLock = c
        /\ UNCHANGED sourceVars /\ NoOlder(asks[c], written)
        /\ asks[c].at = "writes" => signature <= asks[c].got
        /\ asks[c].at = "seals" => frame = asks[c].got
        /\ asks[c].got \in Nat /\ asks[c].sig \in Nat
    BY <1>0, <1>6, <1>r, <1>l, AtRest DEF Keeps, Locked, Decoding, SeriesAsks
  <2>2. ASSUME NEW d \in Readers \ {c}
        PROVE  /\ asks[d] # Rest => asks[d] \in SeriesAsks /\ asks[d].at \notin Locked
               /\ asks[d].at # "writes" /\ asks[d].at # "seals"
    BY <1>0, <2>1, AtRest DEF Decoding, Locked
  <2>3. CASE asks[c].at = "writes" /\ frame' = asks[c].got /\ Turns(c, "seals") /\ UNCHANGED <<signature, decodeLock>>
    <3> DEFINE b == [asks[c] EXCEPT !.at = "seals"]
    <3>1. /\ b \in SeriesAsks /\ b.at = "seals" /\ b.sig = asks[c].sig /\ b.got = asks[c].got
          /\ b.since = asks[c].since
      BY <2>1, TurnedAsk DEF Locked
    <3>2. asks' = [asks EXCEPT ![c] = b]
      BY <2>3 DEF Turns
    <3> HIDE DEF b
    <3>3. Decoding(c, b, written, frame', signature', decodeLock')
      BY <1>0, <1>a, <2>1, <2>3, <3>1, AtRest DEF Decoding, Looking, Locked, Shown, NoOlder
    <3>4. \A d \in Readers \ {c} : Decoding(d, asks[d], written, frame', signature', decodeLock')
      <4> SUFFICES ASSUME NEW d \in Readers \ {c}, asks[d] # Rest
                   PROVE  Decoding(d, asks[d], written, frame', signature', decodeLock')
        BY DEF Decoding
      <4>1. asks[d].at \in Looking => asks[d].sig <= frame'
        BY <1>0, <2>3 DEF Replaces
      <4> QED  BY <1>0, <2>2, <2>3, <4>1 DEF Decoding, Locked
    <3>5. \A d \in Readers : Replaces(asks[d], b) /\ Replaces(b, asks[d])
      BY <3>1 DEF Replaces, Looking
    <3>6. Replaces(b, b)
      BY <3>1 DEF Replaces
    <3>7. frame' \in Nat /\ signature' \in Nat /\ signature' <= frame' /\ frame' <= written
      BY <1>0, <2>1, <2>3 DEF NoOlder
    <3> QED  BY <1>0, <2>1, <2>3, <3>2, <3>3, <3>4, <3>5, <3>6, <3>7, OneMoved
  <2>4. CASE /\ Serves(c, asks[c].got) /\ decodeLock' = Unlocked /\ UNCHANGED frame
             /\ (asks[c].at = "seals" /\ signature' = asks[c].sig) \/ UNCHANGED signature
    <3> DEFINE b == [asks[c] EXCEPT !.at = "answered", !.got = asks[c].got]
    <3>1. /\ b \in SeriesAsks /\ b.at = "answered" /\ b.sig = asks[c].sig /\ b.got = asks[c].got
          /\ b.since = asks[c].since
      BY <2>1 DEF SeriesAsks
    <3>2. asks' = [asks EXCEPT ![c] = b]
      BY <2>4 DEF Serves
    <3> HIDE DEF b
    <3>3. Decoding(c, b, written, frame', signature', decodeLock')
      BY <1>a, <2>1, <3>1, AtRest DEF Decoding, Looking, Locked, Shown, NoOlder
    <3>4. \A d \in Readers \ {c} : Decoding(d, asks[d], written, frame', signature', decodeLock')
      BY <1>0, <2>2, <2>4 DEF Decoding, Locked
    <3>5. \A d \in Readers : Replaces(asks[d], b) /\ Replaces(b, asks[d])
      BY <3>1 DEF Replaces, Looking
    <3>6. Replaces(b, b)
      BY <3>1 DEF Replaces
    <3>7. frame' \in Nat /\ signature' \in Nat /\ signature' <= frame' /\ frame' <= written
      BY <1>0, <2>1, <2>4 DEF NoOlder
    <3> QED  BY <1>0, <2>1, <2>4, <3>2, <3>3, <3>4, <3>5, <3>6, <3>7, OneMoved
  <2> QED  BY <1>6, <2>3, <2>4 DEF Keeps
<1>7. CASE CallerDies(c) \/ Returns(c)
  <2>1. /\ asks' = [asks EXCEPT ![c] = Rest] /\ UNCHANGED <<sourceVars, frame, signature>>
        /\ decodeLock' = decodeLock \/ decodeLock = c
    BY <1>7 DEF CallerDies, Returns, Leaves, diskVars
  <2>2. \A d \in Readers \ {c} : Decoding(d, asks[d], written, frame', signature', decodeLock')
    BY <1>0, <2>1 DEF Decoding
  <2> QED  BY <1>0, <2>1, <2>2, AtRest, OneMoved DEF Decoding
<1>8. /\ asks[c].at \notin {"recalls", "remembers", "looks", "scans", "opens", "rows", "adds"}
      /\ ~OpenManifest(c) /\ ~OpenPage(c)
  BY <1>0, <1>a, AtRest DEF SeriesAsks, Locked, OpenManifest, OpenPage
<1> QED  BY <1>1, <1>2, <1>3, <1>4, <1>5, <1>6, <1>7, <1>8
         DEF ExternalStep, Recalls, ManifestUnread, Remembers, Looks, Scans, Opens, Row, Adds

LEMMA SeriesNeverLags ==
  ASSUME SeriesInv, NEW c \in Readers, Served(c)
  PROVE  asks[c].got \in asks[c].since
<1>1. asks[c] # Rest
  BY AtRest DEF Served
<1>2. asks[c] \in SeriesAsks /\ Shown(asks[c], written) /\ NoOlder(asks[c], written)
  BY <1>1 DEF SeriesInv, Decoding, Served
<1> QED  BY <1>2 DEF Shown, NoOlder, SeriesAsks

-----------------------------------------------------------------------------
LEMMA ManifestInit == ExternalInit /\ serving = "manifest" => ManifestInv
<1> SUFFICES ASSUME ExternalInit, serving = "manifest" PROVE ManifestInv
  OBVIOUS
<1>1. asks = [c \in Readers |-> asks[c]] /\ \A c \in Readers : asks[c] = Rest
  BY DEF ExternalInit
<1> QED  BY <1>1 DEF ExternalInit, ManifestInv, Versions, Recalled, None

LEMMA ManifestScripts == ManifestInv /\ ScriptStep => ManifestInv'
<1> SUFFICES ASSUME ManifestInv, ScriptStep PROVE ManifestInv'
  OBVIOUS
<1>1. /\ UNCHANGED <<serving, remembered>> /\ serving = "manifest"
      /\ written \in Nat /\ written' = written + 1 /\ Versions' /\ Seen(written')
  BY DEF ScriptStep, WritesSeries, ManifestInv, Versions, None
<1>2. ASSUME NEW c \in Readers  PROVE Recalled(asks'[c], written')
  <2>1. CASE asks[c] = Rest
    BY <1>1, <2>1, AtRest DEF Seen, Recalled
  <2>2. CASE asks[c] # Rest
    <3> DEFINE b == [asks[c] EXCEPT !.since = asks[c].since \cup {written'}]
    <3>1. asks[c] \in ManifestAsks /\ Recalled(asks[c], written) /\ Shown(asks[c], written)
          /\ asks[c].at # "rest"
      BY <2>2 DEF ManifestInv, Recalled, ManifestAsks
    <3>2. asks[c].since \cup {written'} \in SUBSET Nat
      BY <1>1, <3>1 DEF ManifestAsks
    <3>3. /\ b \in ManifestAsks /\ b.at = asks[c].at /\ b.sig = asks[c].sig /\ b.got = asks[c].got
          /\ b.since = asks[c].since \cup {written'}
      BY <3>1, <3>2 DEF ManifestAsks
    <3>4. asks'[c] = b
      BY <1>1, <3>1 DEF Seen
    <3> HIDE DEF b
    <3>5. Shown(b, written') /\ (NoOlder(asks[c], written) => NoOlder(b, written'))
      BY <1>1, <3>1, <3>3 DEF Shown, NoOlder, ManifestAsks
    <3> QED  BY <2>2, <3>1, <3>3, <3>4, <3>5 DEF Recalled
  <2> QED  BY <2>1, <2>2
<1>3. asks' = [c \in Readers |-> asks'[c]]
  BY <1>1 DEF Seen
<1>4. remembered'.read <= written'
  BY <1>1 DEF ManifestInv
<1> QED  BY <1>1, <1>2, <1>3, <1>4 DEF ManifestInv

LEMMA ManifestCalls ==
  ASSUME ManifestInv, NEW c \in Readers, ExternalStep(c)
  PROVE  ManifestInv'
<1>0. /\ serving = "manifest" /\ written \in Nat /\ 1 <= written /\ series = written /\ Versions
      /\ remembered \in [sig : Nat, read : Nat] /\ remembered.sig <= remembered.read
      /\ remembered.read <= written
      /\ \A d \in Readers : Recalled(asks[d], written)
      /\ asks = [d \in Readers |-> asks[d]]
  BY DEF ManifestInv, Versions
<1>a. asks[c] # Rest => asks[c] \in ManifestAsks /\ Shown(asks[c], written)
  BY <1>0 DEF Recalled
<1>r. asks[c] \notin ManifestAsks => asks[c] = Rest /\ asks[c].at = "rest"
  BY <1>a, AtRest
<1>m. ASSUME NEW b, asks' = [asks EXCEPT ![c] = b], Recalled(b, written), UNCHANGED sourceVars,
             remembered' \in [sig : Nat, read : Nat], remembered'.sig <= remembered'.read,
             remembered'.read <= written
      PROVE  ManifestInv'
  <2>1. Versions' /\ serving' = "manifest" /\ written' = written
    BY <1>0, <1>m DEF sourceVars, Versions
  <2>2. \A d \in Readers : asks'[d] = IF d = c THEN b ELSE asks[d]
    BY <1>0, <1>m
  <2>3. asks' = [d \in Readers |-> asks'[d]]
    BY <1>0, <1>m
  <2> QED  BY <1>0, <1>m, <2>1, <2>2, <2>3 DEF ManifestInv
<1>1. CASE OpenManifest(c)
  <2> DEFINE b == [at |-> "recalls", sig |-> series, got |-> None, since |-> {series}]
  <2>1. b \in ManifestAsks /\ Shown(b, written) /\ b.at = "recalls"
    BY <1>0 DEF ManifestAsks, Shown, None
  <2>2. Recalled(b, written)
    BY <2>1 DEF Recalled
  <2>3. asks' = [asks EXCEPT ![c] = b] /\ UNCHANGED <<sourceVars, remembered>>
    BY <1>1 DEF OpenManifest, Calls
  <2> HIDE DEF b
  <2> QED  BY <1>0, <1>m, <2>2, <2>3
<1>2. CASE Recalls(c) \/ Remembers(c)
  <2>1. asks[c] \in ManifestAsks /\ asks[c].at \in {"recalls", "remembers"} /\ UNCHANGED sourceVars
        /\ Shown(asks[c], written) /\ asks[c].sig \in Nat /\ asks[c].got \in Nat /\ asks[c] # Rest
    BY <1>2, <1>r, <1>a, AtRest DEF Recalls, Remembers, ManifestAsks
  <2>2. PICK at \in {"answered", "remembers"}, got \in Nat :
          /\ asks' = [asks EXCEPT ![c].at = at, ![c].got = got]
          /\ asks[c].sig <= got /\ got <= written
          /\ \/ UNCHANGED remembered
             \/ remembered' = [sig |-> asks[c].sig, read |-> got]
    <3>1. CASE Recalls(c) /\ remembered.sig = asks[c].sig
      BY <1>0, <3>1 DEF Recalls, Serves
    <3>2. CASE Recalls(c) /\ remembered.sig # asks[c].sig
      <4>1. asks' = [asks EXCEPT ![c].got = written, ![c].at = "remembers"] /\ UNCHANGED remembered
        BY <1>0, <3>2 DEF Recalls
      <4>2. asks' = [asks EXCEPT ![c].at = "remembers", ![c].got = written]
        BY <2>1, <4>1 DEF ManifestAsks
      <4>3. asks[c].sig <= written /\ written <= written
        BY <1>0, <2>1 DEF Shown
      <4> QED  BY <1>0, <4>1, <4>2, <4>3
    <3>3. CASE Remembers(c)
      <4>1. NoOlder(asks[c], written)
        BY <1>0, <2>1, <3>3 DEF Recalled, Remembers
      <4> QED  BY <2>1, <3>3, <4>1 DEF Remembers, Serves, NoOlder
    <3> QED  BY <1>2, <3>1, <3>2, <3>3
  <2> DEFINE b == [asks[c] EXCEPT !.at = at, !.got = got]
  <2>3. b \in ManifestAsks /\ b.at = at /\ b.got = got /\ b.sig = asks[c].sig /\ b.since = asks[c].since
    BY <2>1, <2>2 DEF ManifestAsks
  <2>4. asks' = [asks EXCEPT ![c] = b]
    BY <2>2
  <2> HIDE DEF b
  <2>5. Recalled(b, written)
    BY <2>1, <2>2, <2>3 DEF Recalled, Shown, NoOlder
  <2>6. remembered' \in [sig : Nat, read : Nat] /\ remembered'.sig <= remembered'.read /\ remembered'.read <= written
    BY <1>0, <2>1, <2>2
  <2> QED  BY <1>m, <2>1, <2>4, <2>5, <2>6
<1>3. CASE Returns(c) \/ ManifestUnread(c)
  BY <1>0, <1>m, <1>3 DEF Returns, ManifestUnread, Leaves, Recalled
<1>4. CASE CallerDies(c)
  BY <1>0, <1>m, <1>4 DEF CallerDies, Leaves, Recalled
<1>5. /\ asks[c].at \notin Locked \cup Looking \cup {"compares", "waits", "looks", "scans", "opens", "rows", "adds"}
      /\ ~LoadSeries(c) /\ ~OpenPage(c)
  BY <1>0, <1>a, AtRest DEF ManifestAsks, Locked, Looking, LoadSeries, OpenPage
<1> QED  BY <1>1, <1>2, <1>3, <1>4, <1>5
         DEF ExternalStep, Compares, Reads, TakesLock, Decodes, Keeps, Looks, Scans, Opens, Row, Adds,
             Locked, Looking

-----------------------------------------------------------------------------
(* The data page.  A window counts from before its scan, and a row joins    *)
(* the window it was read for, so everything in it was read since.          *)
PageAsks ==
  [at : {"looks", "scans", "opens", "rows", "adds", "answered"}, began : Nat, stamp : Nat,
   roots : {1, 2}, scanned : Nat \cup {NoRow}, row : Nat \cup {NoRow}]
Pages == [since : Nat, roots : {1, 2}, scanned : Nat, row : Nat \cup {NoRow}]

(* Of a call: the window it goes by, and what it has read for it.           *)
Fresh(a) ==
  \/ a = Rest
  \/ /\ a \in PageAsks
     /\ a.at = "looks" => a.began <= clock /\ a.row = NoRow
     /\ a.at # "looks" => a.stamp > a.began - Window
     /\ a.at = "scans" => a.stamp <= clock
     /\ a.at \in {"scans", "opens"} => a.row = NoRow /\ a.stamp <= clock
     /\ a.at \in {"opens", "rows", "adds", "answered"} => a.scanned >= a.stamp
     /\ a.at = "rows" => (a.row = NoRow \/ a.row >= a.stamp) /\ a.stamp <= clock
     /\ a.at \in {"adds", "answered"} => a.row >= a.stamp

PageInv ==
  /\ serving = "page" /\ clock \in Nat /\ roots \in {1, 2}
  /\ \/ page = NoPage
     \/ /\ page \in Pages /\ page.scanned >= page.since /\ page.since <= clock
        /\ page.row = NoRow \/ page.row >= page.since
  /\ asks = [c \in Readers |-> asks[c]]
  /\ \A c \in Readers : Fresh(asks[c])

LEMMA PageInit == ExternalInit /\ serving = "page" => PageInv
<1> SUFFICES ASSUME ExternalInit, serving = "page" PROVE PageInv
  OBVIOUS
<1>1. asks = [c \in Readers |-> asks[c]] /\ \A c \in Readers : asks[c] = Rest
  BY DEF ExternalInit
<1> QED  BY <1>1 DEF ExternalInit, PageInv, Fresh

LEMMA PagePasses == PageInv /\ Passes => PageInv'
<1> SUFFICES ASSUME PageInv, Passes PROVE PageInv'
  OBVIOUS
<1>1. clock' \in Nat /\ clock <= clock' /\ clock \in Nat /\ roots' \in {1, 2} /\ UNCHANGED <<page, asks, serving>>
  BY DEF Passes, PageInv, sourceVars
<1>2. ASSUME NEW c \in Readers  PROVE Fresh(asks[c])'
  <2>1. CASE asks[c] = Rest
    BY <1>1, <2>1 DEF Fresh
  <2>2. CASE asks[c] # Rest
    <3>1. asks[c] \in PageAsks /\ Fresh(asks[c])
      BY <2>2 DEF PageInv, Fresh
    <3> QED  BY <1>1, <2>2, <3>1 DEF Fresh, PageAsks
  <2> QED  BY <2>1, <2>2
<1>3. page = NoPage \/ page.since <= clock'
  BY <1>1 DEF PageInv, Pages
<1> QED  BY <1>1, <1>2, <1>3 DEF PageInv

LEMMA PageCalls ==
  ASSUME PageInv, NEW c \in Readers, ExternalStep(c)
  PROVE  PageInv'
<1>0. /\ serving = "page" /\ clock \in Nat /\ roots \in {1, 2} /\ Window \in Nat /\ 0 < Window
      /\ \A d \in Readers : Fresh(asks[d])
      /\ asks = [d \in Readers |-> asks[d]]
      /\ page = NoPage \/ (/\ page \in Pages /\ page.scanned >= page.since /\ page.since <= clock
                           /\ page.row = NoRow \/ page.row >= page.since)
  BY ExternalAssumption DEF PageInv
<1>a. asks[c] # Rest => asks[c] \in PageAsks
  BY <1>0 DEF Fresh
<1>r. asks[c] \notin PageAsks => asks[c] = Rest /\ asks[c].at = "rest"
  BY <1>a, AtRest
<1>m. ASSUME NEW b, asks' = [asks EXCEPT ![c] = b], Fresh(b), UNCHANGED <<serving, clock, roots>>,
             \/ UNCHANGED page
             \/ /\ page' \in Pages /\ page'.scanned >= page'.since /\ page'.since <= clock
                /\ page'.row = NoRow \/ page'.row >= page'.since
      PROVE  PageInv'
  <2>1. \A d \in Readers : asks'[d] = IF d = c THEN b ELSE asks[d]
    BY <1>0, <1>m
  <2>2. asks' = [d \in Readers |-> asks'[d]]
    BY <1>0, <1>m
  <2>3. \A d \in Readers : Fresh(asks[d])'
    <3> SUFFICES ASSUME NEW d \in Readers PROVE Fresh(asks[d])'
      OBVIOUS
    <3>1. Fresh(b) /\ Fresh(asks[d]) /\ (asks'[d] = b \/ asks'[d] = asks[d])
      BY <1>0, <1>m, <2>1
    <3> QED  BY <3>1, <1>m DEF Fresh
  <2> QED  BY <1>0, <1>m, <2>2, <2>3 DEF PageInv
<1>1. CASE OpenPage(c)
  <2> DEFINE b == [at |-> "looks", began |-> clock, stamp |-> clock, roots |-> roots,
                   scanned |-> NoRow, row |-> NoRow]
  <2>1. b \in PageAsks /\ b.at = "looks" /\ b.began = clock /\ b.row = NoRow
    BY <1>0 DEF PageAsks
  <2>2. Fresh(b)
    BY <1>0, <2>1 DEF Fresh
  <2>3. asks' = [asks EXCEPT ![c] = b] /\ UNCHANGED <<serving, clock, roots, page>>
    BY <1>1 DEF OpenPage, Calls, sourceVars, pageVars
  <2> HIDE DEF b
  <2> QED  BY <1>0, <1>m, <2>2, <2>3
<1>2. CASE Looks(c)
  <2>1. asks[c] \in PageAsks /\ asks[c].at = "looks" /\ UNCHANGED <<serving, clock, roots, page>>
        /\ asks[c] # Rest
    BY <1>2, <1>r, AtRest DEF Looks, sourceVars, pageVars
  <2>2. asks[c].began \in Nat /\ asks[c].began <= clock /\ asks[c].row = NoRow
    BY <1>0, <2>1 DEF Fresh, PageAsks
  <2>3. CASE page # NoPage /\ page.roots = roots /\ Lasts(page.since)
    <3> DEFINE b == [asks[c] EXCEPT !.at = "rows", !.stamp = page.since, !.row = page.row,
                                    !.scanned = page.scanned]
    <3>1. asks' = [asks EXCEPT ![c] = b]
      BY <1>2, <2>3 DEF Looks
    <3>2. /\ page \in Pages /\ page.scanned >= page.since /\ page.since <= clock
          /\ page.row = NoRow \/ page.row >= page.since
          /\ page.since > clock - Window
      BY <1>0, <2>3 DEF Lasts, Pages
    <3>3. /\ b \in PageAsks /\ b.at = "rows" /\ b.stamp = page.since /\ b.row = page.row
          /\ b.scanned = page.scanned /\ b.began = asks[c].began
      BY <2>1, <3>2 DEF PageAsks, Pages
    <3> HIDE DEF b
    <3>4. b.stamp > b.began - Window /\ page.since \in Nat
      BY <1>0, <2>2, <3>2, <3>3 DEF Pages
    <3>5. Fresh(b)
      BY <3>2, <3>3, <3>4 DEF Fresh
    <3> QED  BY <1>m, <2>1, <3>1, <3>5
  <2>4. CASE ~(page # NoPage /\ page.roots = roots /\ Lasts(page.since))
    <3> DEFINE b == [asks[c] EXCEPT !.at = "scans", !.stamp = clock, !.roots = roots]
    <3>1. asks' = [asks EXCEPT ![c] = b]
      BY <1>2, <2>4 DEF Looks
    <3>2. /\ b \in PageAsks /\ b.at = "scans" /\ b.stamp = clock /\ b.row = NoRow
          /\ b.began = asks[c].began
      BY <1>0, <2>1, <2>2 DEF PageAsks
    <3> HIDE DEF b
    <3>3. Fresh(b)
      BY <1>0, <2>2, <3>2 DEF Fresh
    <3> QED  BY <1>m, <2>1, <3>1, <3>3
  <2> QED  BY <2>3, <2>4
<1>3. CASE Scans(c)
  <2> DEFINE b == [asks[c] EXCEPT !.at = "opens", !.scanned = clock]
  <2>1. /\ asks[c] \in PageAsks /\ asks[c].at = "scans" /\ UNCHANGED <<serving, clock, roots, page>>
        /\ asks[c] # Rest /\ Fresh(asks[c])
    BY <1>0, <1>3, <1>r, AtRest DEF Scans, sourceVars, pageVars
  <2>2. asks' = [asks EXCEPT ![c] = b]
    BY <1>3 DEF Scans
  <2>3. /\ b \in PageAsks /\ b.at = "opens" /\ b.scanned = clock /\ b.row = asks[c].row
        /\ b.began = asks[c].began /\ b.stamp = asks[c].stamp
    BY <1>0, <2>1 DEF PageAsks
  <2> HIDE DEF b
  <2>4. Fresh(b)
    BY <1>0, <2>1, <2>3 DEF Fresh
  <2> QED  BY <1>m, <2>1, <2>2, <2>4
<1>4. CASE Opens(c)
  <2> DEFINE b == [asks[c] EXCEPT !.at = "rows"]
             p == [since |-> asks[c].stamp, roots |-> asks[c].roots, scanned |-> asks[c].scanned, row |-> NoRow]
  <2>1. /\ asks[c] \in PageAsks /\ asks[c].at = "opens" /\ UNCHANGED <<serving, clock, roots>>
        /\ asks[c] # Rest /\ Fresh(asks[c])
    BY <1>0, <1>4, <1>r, AtRest DEF Opens, sourceVars
  <2>2. asks' = [asks EXCEPT ![c] = b] /\ page' = p
    BY <1>4 DEF Opens, Turns
  <2>3. /\ b \in PageAsks /\ b.at = "rows" /\ b.scanned = asks[c].scanned /\ b.row = asks[c].row
        /\ b.began = asks[c].began /\ b.stamp = asks[c].stamp
    BY <2>1 DEF PageAsks
  <2>4. asks[c].scanned >= asks[c].stamp /\ asks[c].row = NoRow /\ asks[c].stamp <= clock
    BY <2>1 DEF Fresh
  <2>5. asks[c].scanned \in Nat /\ asks[c].stamp \in Nat
    BY <2>1, <2>4 DEF PageAsks, NoRow
  <2>6. p \in Pages /\ p.scanned >= p.since /\ p.since <= clock /\ p.row = NoRow
    BY <2>1, <2>4, <2>5 DEF Pages, PageAsks
  <2> HIDE DEF b, p
  <2>7. Fresh(b)
    BY <2>1, <2>3, <2>4 DEF Fresh
  <2> QED  BY <1>m, <2>1, <2>2, <2>6, <2>7
<1>5. CASE Row(c)
  <2>1. /\ asks[c] \in PageAsks /\ asks[c].at = "rows" /\ UNCHANGED <<serving, clock, roots, page>>
        /\ asks[c] # Rest /\ Fresh(asks[c])
    BY <1>0, <1>5, <1>r, AtRest DEF Row, sourceVars, pageVars
  <2>2. CASE asks[c].row # NoRow
    <3> DEFINE b == [asks[c] EXCEPT !.at = "answered"]
    <3>1. asks' = [asks EXCEPT ![c] = b]
      BY <1>5, <2>2 DEF Row, Turns
    <3>2. /\ b \in PageAsks /\ b.at = "answered" /\ b.scanned = asks[c].scanned /\ b.row = asks[c].row
          /\ b.began = asks[c].began /\ b.stamp = asks[c].stamp
      BY <2>1 DEF PageAsks
    <3> HIDE DEF b
    <3>3. Fresh(b)
      BY <2>1, <2>2, <3>2 DEF Fresh
    <3> QED  BY <1>m, <2>1, <3>1, <3>3
  <2>3. CASE asks[c].row = NoRow
    <3> DEFINE b == [asks[c] EXCEPT !.row = clock, !.at = "adds"]
    <3>1. asks' = [asks EXCEPT ![c] = b]
      BY <1>5, <2>3 DEF Row
    <3>2. /\ b \in PageAsks /\ b.at = "adds" /\ b.scanned = asks[c].scanned /\ b.row = clock
          /\ b.began = asks[c].began /\ b.stamp = asks[c].stamp
      BY <1>0, <2>1 DEF PageAsks
    <3> HIDE DEF b
    <3>3. Fresh(b)
      BY <1>0, <2>1, <3>2 DEF Fresh, PageAsks
    <3> QED  BY <1>m, <2>1, <3>1, <3>3
  <2> QED  BY <2>2, <2>3
<1>6. CASE Adds(c)
  <2> DEFINE b == [asks[c] EXCEPT !.at = "answered"]
             p == [page EXCEPT !.row = asks[c].row]
  <2>1. /\ asks[c] \in PageAsks /\ asks[c].at = "adds" /\ UNCHANGED <<serving, clock, roots>>
        /\ asks[c] # Rest /\ Fresh(asks[c])
    BY <1>0, <1>6, <1>r, AtRest DEF Adds, sourceVars
  <2>2. asks' = [asks EXCEPT ![c] = b] /\ page' = IF page.since = asks[c].stamp THEN p ELSE page
    BY <1>6 DEF Adds, Turns
  <2>3. /\ b \in PageAsks /\ b.at = "answered" /\ b.scanned = asks[c].scanned /\ b.row = asks[c].row
        /\ b.began = asks[c].began /\ b.stamp = asks[c].stamp
    BY <2>1 DEF PageAsks
  <2>4. asks[c].row >= asks[c].stamp /\ asks[c].stamp \in Nat /\ asks[c].row \in Nat
    BY <2>1 DEF Fresh, PageAsks, NoRow
  <2>5. page = NoPage => page.since # asks[c].stamp
    BY <2>4 DEF NoPage
  <2>6. page \in Pages => p \in Pages /\ p.since = page.since /\ p.scanned = page.scanned /\ p.row = asks[c].row
    BY <2>4 DEF Pages
  <2>7. Fresh(b)
    BY <2>1, <2>3, <2>4 DEF Fresh
  <2> HIDE DEF b, p
  <2>8. CASE page.since = asks[c].stamp
    <3>1. page \in Pages /\ page.scanned >= page.since /\ page.since <= clock
      BY <1>0, <2>5, <2>8
    <3>2. page' \in Pages /\ page'.since = page.since /\ page'.scanned = page.scanned /\ page'.row = asks[c].row
      BY <2>2, <2>6, <2>8, <3>1
    <3>3. page'.scanned >= page'.since /\ page'.since <= clock /\ page'.row >= page'.since
      BY <2>4, <2>8, <3>1, <3>2
    <3> QED  BY <1>m, <2>1, <2>2, <2>7, <3>2, <3>3
  <2>9. CASE page.since # asks[c].stamp
    BY <1>m, <2>1, <2>2, <2>7, <2>9
  <2> QED  BY <2>8, <2>9
<1>7. CASE Returns(c) \/ CallerDies(c)
  BY <1>m, <1>7 DEF Returns, CallerDies, Leaves, Fresh, sourceVars, pageVars
<1>8. /\ asks[c].at \notin Locked \cup Looking \cup {"compares", "waits", "recalls", "remembers"}
      /\ ~LoadSeries(c) /\ ~OpenManifest(c)
  BY <1>0, <1>a, AtRest DEF PageAsks, Locked, Looking, LoadSeries, OpenManifest
<1> QED  BY <1>1, <1>2, <1>3, <1>4, <1>5, <1>6, <1>7, <1>8
         DEF ExternalStep, Compares, Reads, TakesLock, Decodes, Keeps, Recalls, ManifestUnread, Remembers,
             Locked, Looking

-----------------------------------------------------------------------------
(* Whichever of the three a behaviour reads.                                *)
ReaderInv == SeriesInv \/ ManifestInv \/ PageInv

LEMMA ReaderInvariance == ExternalSpec => []ReaderInv
<1>1. ExternalInit => ReaderInv
  BY SeriesInit, ManifestInit, PageInit DEF ExternalInit, ReaderInv
<1>2. ReaderInv /\ [ExternalNext]_externalVars => ReaderInv'
  <2> SUFFICES ASSUME ReaderInv, [ExternalNext]_externalVars PROVE ReaderInv'
    OBVIOUS
  <2>1. CASE ScriptStep
    <3>1. ~PageInv
      BY <2>1 DEF ScriptStep, PageInv
    <3> QED  BY <2>1, <3>1, SeriesScripts, ManifestScripts DEF ReaderInv
  <2>2. CASE Passes
    <3>1. ~SeriesInv /\ ~ManifestInv
      BY <2>2 DEF Passes, SeriesInv, ManifestInv
    <3> QED  BY <2>2, <3>1, PagePasses DEF ReaderInv
  <2>3. ASSUME NEW c \in Readers, ExternalStep(c)  PROVE ReaderInv'
    BY <2>3, SeriesCalls, ManifestCalls, PageCalls DEF ReaderInv
  <2>4. CASE UNCHANGED externalVars
    <3>1. UNCHANGED <<serving, series, aside, written, frame, signature, decodeLock, remembered,
                      roots, clock, page, asks>>
      BY <2>4 DEF externalVars, sourceVars, diskVars, pageVars
    <3>2. SeriesInv => SeriesInv'
      BY <3>1 DEF SeriesInv, Versions
    <3>3. ManifestInv => ManifestInv'
      BY <3>1 DEF ManifestInv, Versions
    <3>4. PageInv => PageInv'
      BY <3>1 DEF PageInv, Fresh
    <3> QED  BY <3>2, <3>3, <3>4 DEF ReaderInv
  <2> QED  BY <2>1, <2>2, <2>3, <2>4 DEF ExternalNext
<1> QED  BY <1>1, <1>2, PTL DEF ExternalSpec

(* What the application is given of a catalog a script is rewriting, decoded *)
(* now or kept from before, is something the catalog held since the call     *)
(* looked at it: data.load_external_bars and data._external_manifest.        *)
THEOREM CachesNeverLagAlways == ExternalSpec => []CachesNeverLag
<1>1. ReaderInv => CachesNeverLag
  <2> SUFFICES ASSUME ReaderInv, serving # "page", NEW c \in Readers, Served(c)
               PROVE  asks[c].got \in asks[c].since
    BY DEF CachesNeverLag
  <2>1. CASE SeriesInv
    BY <2>1, SeriesNeverLags
  <2>2. CASE ManifestInv
    <3>1. asks[c] # Rest
      BY AtRest DEF Served
    <3>2. asks[c] \in ManifestAsks /\ Shown(asks[c], written) /\ NoOlder(asks[c], written)
      BY <2>2, <3>1 DEF ManifestInv, Recalled, Served
    <3> QED  BY <3>2 DEF Shown, NoOlder, ManifestAsks
  <2> QED  BY <2>1, <2>2 DEF ReaderInv, PageInv
<1> QED  BY <1>1, ReaderInvariance, PTL

(* The data page never shows what was read before the window it goes by,    *)
(* so never anything older than a window: data._external_catalog_rows.      *)
THEOREM RowsOfTheirWindowAlways == ExternalSpec => []RowsOfTheirWindow
<1>1. ReaderInv => RowsOfTheirWindow
  <2> SUFFICES ASSUME ReaderInv, serving = "page", NEW c \in Readers, Served(c)
               PROVE  asks[c].row > asks[c].began - Window /\ asks[c].scanned > asks[c].began - Window
    BY DEF RowsOfTheirWindow
  <2>1. Fresh(asks[c]) /\ asks[c] # Rest /\ asks[c].at = "answered" /\ Window \in Nat
    BY AtRest, ExternalAssumption DEF ReaderInv, SeriesInv, ManifestInv, PageInv, Served
  <2>2. /\ asks[c] \in PageAsks /\ asks[c].stamp > asks[c].began - Window
        /\ asks[c].scanned >= asks[c].stamp /\ asks[c].row >= asks[c].stamp
    BY <2>1 DEF Fresh
  <2> QED  BY <2>1, <2>2 DEF PageAsks, NoRow
<1> QED  BY <1>1, ReaderInvariance, PTL

-----------------------------------------------------------------------------
(* The file of the exchange's bars.  Bars are few and numbered, so a file   *)
(* that is not empty has a first and a last one.                            *)
Qualities == {"half", "final"}
Bars == UNION {[S -> Qualities] : S \in SUBSET (0..Horizon)}

LEMMA BarsAre ==
  ASSUME NEW b \in Bars
  PROVE  /\ DOMAIN b \in SUBSET (0..Horizon) /\ b \in [DOMAIN b -> Qualities]
         /\ \A t \in DOMAIN b : t \in Nat /\ t <= Horizon
<1>1. PICK S \in SUBSET (0..Horizon) : b \in [S -> Qualities]
  BY DEF Bars
<1>2. DOMAIN b = S
  BY <1>1
<1> QED  BY <1>1, <1>2, BarAssumption

LEMMA AreBars ==
  ASSUME NEW b, NEW S \in SUBSET (0..Horizon), b \in [S -> Qualities]
  PROVE  b \in Bars /\ DOMAIN b = S
BY DEF Bars

LEMMA NoBarsAre == NoBars \in Bars /\ DOMAIN NoBars = {}
<1>1. NoBars = [t \in {} |-> "half"]
  BY DEF NoBars
<1>2. [t \in {} |-> "half"] \in [{} -> Qualities]
  BY DEF Qualities
<1>3. {} \in SUBSET (0..Horizon)
  OBVIOUS
<1> QED  BY <1>1, <1>2, <1>3, AreBars

LEMMA LeastOf ==
  ASSUME NEW T \in SUBSET Nat, T # {}
  PROVE  Min(T) \in T /\ \A t \in T : Min(T) <= t
<1>1. PICK u \in T : \A y \in T : <<y, u>> \notin OpToRel(<, Nat)
  BY NatLessThanWellFounded, WFMin
<1>2. \A y \in T : ~(y < u)
  BY <1>1 DEF OpToRel
<1>3. \A y \in T : u <= y
  BY <1>2
<1> QED  BY <1>3 DEF Min

LEMMA GreatestOf ==
  ASSUME NEW n \in Nat, NEW T \in SUBSET (0..n), T # {}
  PROVE  Max(T) \in T /\ \A t \in T : t <= Max(T)
<1> DEFINE U == {n - x : x \in T}
<1>1. U \in SUBSET Nat /\ U # {}
  <2>1. PICK x \in T : TRUE
    OBVIOUS
  <2>2. n - x \in U
    BY <2>1
  <2>3. \A y \in T : n - y \in Nat
    OBVIOUS
  <2> QED  BY <2>2, <2>3
<1>2. PICK u \in U : \A y \in U : u <= y
  <2> HIDE DEF U
  <2> QED  BY <1>1, LeastOf
<1>3. PICK x \in T : u = n - x
  BY <1>2
<1>4. \A t \in T : x >= t
  <2> SUFFICES ASSUME NEW t \in T PROVE x >= t
    OBVIOUS
  <2>1. n - t \in U
    OBVIOUS
  <2>2. n - x <= n - t
    BY <1>2, <1>3, <2>1
  <2> QED  BY <2>2
<1>5. Max(T) \in T /\ \A t \in T : Max(T) >= t
  BY <1>4 DEF Max
<1> QED  BY <1>5

LEMMA Ends ==
  ASSUME NEW b \in Bars, Has(b)
  PROVE  /\ FirstBar(b) \in DOMAIN b /\ LastBar(b) \in DOMAIN b
         /\ FirstBar(b) \in Nat /\ LastBar(b) \in Nat /\ LastBar(b) <= Horizon
         /\ \A t \in DOMAIN b : FirstBar(b) <= t /\ t <= LastBar(b)
<1>1. DOMAIN b \in SUBSET (0..Horizon) /\ DOMAIN b \in SUBSET Nat /\ DOMAIN b # {} /\ Horizon \in Nat
  BY BarsAre, BarAssumption DEF Has
<1>2. Min(DOMAIN b) \in DOMAIN b /\ \A t \in DOMAIN b : Min(DOMAIN b) <= t
  BY <1>1, LeastOf
<1>3. Max(DOMAIN b) \in DOMAIN b /\ \A t \in DOMAIN b : t <= Max(DOMAIN b)
  BY <1>1, GreatestOf
<1> QED  BY <1>1, <1>2, <1>3, BarsAre DEF FirstBar, LastBar

(* What each of the operations on files makes of its bars.                  *)
LEMMA FetchedBars ==
  ASSUME now \in 0..Horizon, NEW from \in Nat, NEW to \in Nat
  PROVE  /\ Fetch(from, to) \in Bars
         /\ DOMAIN Fetch(from, to) = {t \in from..to : t <= now /\ t \notin missing}
         /\ \A t \in DOMAIN Fetch(from, to) : Fetch(from, to)[t] = IF t = now THEN "half" ELSE "final"
<1> DEFINE S == {t \in from..to : t <= now /\ t \notin missing}
<1>1. S \in SUBSET (0..Horizon)
  BY BarAssumption
<1>2. Fetch(from, to) \in [S -> Qualities]
  BY DEF Fetch, Qualities
<1>3. \A t \in S : Fetch(from, to)[t] = IF t = now THEN "half" ELSE "final"
  BY DEF Fetch
<1> HIDE DEF S
<1>4. Fetch(from, to) \in Bars /\ DOMAIN Fetch(from, to) = S
  BY <1>1, <1>2, AreBars
<1> QED  BY <1>3, <1>4 DEF S

LEMMA OverBars ==
  ASSUME NEW a \in Bars, NEW b \in Bars
  PROVE  /\ Over(a, b) \in Bars /\ DOMAIN Over(a, b) = DOMAIN a \cup DOMAIN b
         /\ \A t \in DOMAIN a : Over(a, b)[t] = a[t]
         /\ \A t \in DOMAIN b \ DOMAIN a : Over(a, b)[t] = b[t]
<1>1. DOMAIN a \cup DOMAIN b \in SUBSET (0..Horizon) /\ a \in [DOMAIN a -> Qualities] /\ b \in [DOMAIN b -> Qualities]
  BY BarsAre
<1>2. Over(a, b) \in [DOMAIN a \cup DOMAIN b -> Qualities]
  BY <1>1 DEF Over
<1>3. Over(a, b) \in Bars /\ DOMAIN Over(a, b) = DOMAIN a \cup DOMAIN b
  BY <1>1, <1>2, AreBars
<1> QED  BY <1>3 DEF Over

LEMMA RestrictedBars ==
  ASSUME NEW b \in Bars, NEW S \in SUBSET DOMAIN b
  PROVE  Restrict(b, S) \in Bars /\ DOMAIN Restrict(b, S) = S /\ \A t \in S : Restrict(b, S)[t] = b[t]
<1>1. S \in SUBSET (0..Horizon) /\ b \in [DOMAIN b -> Qualities]
  BY BarsAre
<1>2. Restrict(b, S) \in [S -> Qualities] /\ \A t \in S : Restrict(b, S)[t] = b[t]
  BY <1>1 DEF Restrict
<1> QED  BY <1>1, <1>2, AreBars

LEMMA WithinBars ==
  ASSUME NEW b \in Bars, NEW start \in Nat, NEW end \in Nat
  PROVE  /\ Within(b, start, end) \in Bars
         /\ DOMAIN Within(b, start, end) = {t \in DOMAIN b : start <= t /\ t < end}
         /\ \A t \in DOMAIN Within(b, start, end) : Within(b, start, end)[t] = b[t]
<1> DEFINE S == {t \in DOMAIN b : start <= t /\ t < end}
<1>1. Within(b, start, end) = Restrict(b, S) /\ S \in SUBSET DOMAIN b
  BY DEF Within
<1> HIDE DEF S
<1>2. /\ Within(b, start, end) \in Bars /\ DOMAIN Within(b, start, end) = S
      /\ \A t \in S : Within(b, start, end)[t] = b[t]
  BY <1>1, RestrictedBars
<1> QED  BY <1>2 DEF S

(* A bar that a file spans and lacks is in one of its holes.                *)
LEMMA InAGap ==
  ASSUME NEW b \in Bars, Has(b), NEW t \in Nat, FirstBar(b) <= t, t <= LastBar(b), t \notin DOMAIN b
  PROVE  \E g \in Gaps(b) : g[1] <= t /\ t <= g[2]
<1> DEFINE P == {u \in DOMAIN b : u < t}
           N == {u \in DOMAIN b : t < u}
<1>1. FirstBar(b) \in P /\ LastBar(b) \in N
  BY Ends
<1>2. P \in SUBSET (0..Horizon) /\ N \in SUBSET Nat /\ P # {} /\ N # {} /\ Horizon \in Nat
  BY <1>1, BarsAre, BarAssumption
<1>3. Max(P) \in P /\ \A u \in P : u <= Max(P)
  <2> HIDE DEF P
  <2> QED  BY <1>2, GreatestOf
<1>4. Min(N) \in N /\ \A u \in N : Min(N) <= u
  <2> HIDE DEF N
  <2> QED  BY <1>2, LeastOf
<1>5. PICK p \in DOMAIN b : p < t /\ \A u \in DOMAIN b : u < t => u <= p
  BY <1>3
<1>6. PICK n \in DOMAIN b : t < n /\ \A u \in DOMAIN b : t < u => n <= u
  BY <1>4
<1>7. p \in Nat /\ n \in Nat /\ n <= Horizon /\ Horizon \in Nat
  BY <1>5, <1>6, BarsAre, BarAssumption
<1> DEFINE g == <<p + 1, n - 1>>
<1>8. g \in (1..Horizon) \X (1..Horizon) /\ g[1] = p + 1 /\ g[2] = n - 1
  BY <1>5, <1>6, <1>7
<1>9. g[1] <= t /\ t <= g[2] /\ g[1] - 1 = p /\ g[2] + 1 = n
  BY <1>5, <1>6, <1>7, <1>8
<1>10. ASSUME NEW u \in g[1]..g[2]  PROVE u \notin DOMAIN b
  <2>1. u \in Nat /\ p < u /\ u < n
    BY <1>7, <1>8
  <2>2. CASE u < t
    BY <1>5, <1>7, <2>1, <2>2
  <2>3. CASE t < u
    BY <1>6, <1>7, <2>1, <2>3
  <2> QED  BY <2>1, <2>2, <2>3
<1> HIDE DEF g
<1>11. g \in Gaps(b)
  BY <1>5, <1>6, <1>8, <1>9, <1>10 DEF Gaps
<1> QED  BY <1>9, <1>11

-----------------------------------------------------------------------------
(* What holds of the file, of the sidecar, and of a load a of c, when the   *)
(* lock is l, the file b, the bar that forms n, and e the bars a forced     *)
(* refresh has buried.                                                      *)
Writing == {"window", "head", "gaps", "tail", "merge"}
Copying == {"copies", "exports", "rewrites"}
Stages == {"idle", "wants", "read", "fetched"} \cup Writing \cup Copying
LoadCalls ==
  [at : Stages, start : Nat, end : Nat, force : BOOLEAN, since : Nat, old : Bars, new : Bars, got : Bars]

FileSound(b, n, e) ==
  /\ b \in Bars
  /\ \A t \in DOMAIN b :
       t < n /\ t \notin missing /\ (b[t] = "half" => t = LastBar(b) \/ t \in e)

HolesEmpty(k) == k \subseteq Nat \X Nat /\ \A g \in k : \A t \in g[1]..g[2] : t \in missing

(* A writer owns the lock, has read the file under it, and what it fetched  *)
(* spoils no bar of the file.                                               *)
UnderLock(c, a, l, b, n) ==
  a.at \in Writing =>
    /\ l = c /\ a.old = b
    /\ \A t \in DOMAIN a.new :
         /\ t <= n /\ t \notin missing
         /\ a.new[t] = "half" => (\A u \in DOMAIN b : u < t) /\ (\A u \in DOMAIN a.new : u <= t)

(* Of what was asked for, the bars before n are among those of S.           *)
Gathered(a, n, S) ==
  \A t \in Nat : a.start <= t /\ t < n /\ t < a.since /\ t \notin missing => t \in S

(* How far a writer has got.                                                *)
Collected(a) == DOMAIN a.new \cup DOMAIN a.old
Collecting(a) ==
  /\ a.at \in {"wants", "window", "head"} => DOMAIN a.new = {}
  /\ a.at = "window" => a.force \/ ~Has(a.old)
  /\ a.at \in {"head", "gaps", "tail"} => ~a.force /\ Has(a.old)
  /\ a.at \in {"gaps", "tail"} => \A t \in DOMAIN a.new : t <= LastBar(a.old)
  /\ a.at = "gaps" => Gathered(a, FirstBar(a.old), Collected(a))
  /\ a.at = "tail" => Gathered(a, LastBar(a.old), Collected(a))
  /\ a.at = "merge" => Gathered(a, a.end, Collected(a))
  /\ a.at = "merge" /\ ~a.force /\ Has(a.old) =>
       \/ LastBar(a.old) \in DOMAIN a.new
       \/ \A t \in DOMAIN a.new : t <= LastBar(a.old)

Answering(a, e) ==
  /\ a.at \in {"read", "fetched"} \cup Copying => Gathered(a, a.end, DOMAIN a.got)
  /\ a.at = "read" => \A t \in DOMAIN a.got : a.got[t] = "final" \/ t \in e

Loading(c, a, l, b, n, e) ==
  /\ a \in LoadCalls /\ a.since <= n
  /\ UnderLock(c, a, l, b, n) /\ Collecting(a) /\ Answering(a, e)

BarInv ==
  /\ now \in 0..Horizon /\ FileSound(cache, now, buried) /\ HolesEmpty(knownEmpty)
  /\ call = [c \in Loaders |-> call[c]]
  /\ \A c \in Loaders : Loading(c, call[c], cacheLock, cache, now, buried)

LEMMA Resting ==
  ASSUME NEW c, NEW l, NEW b, NEW n \in Nat, NEW e
  PROVE  Loading(c, Idle, l, b, n, e) /\ Idle \in LoadCalls
<1>1. Idle \in LoadCalls
  BY NoBarsAre DEF Idle, LoadCalls, Stages
<1>2. Idle.at = "idle" /\ Idle.since = 0
  BY DEF Idle
<1> QED  BY <1>1, <1>2 DEF Loading, UnderLock, Collecting, Answering, Writing, Copying

LEMMA BarInvInit == BarInit => BarInv
<1> SUFFICES ASSUME BarInit PROVE BarInv
  OBVIOUS
<1>1. now \in 0..Horizon /\ now \in Nat
  BY BarAssumption DEF BarInit
<1>2. FileSound(cache, now, buried) /\ HolesEmpty(knownEmpty)
  BY NoBarsAre DEF BarInit, FileSound, HolesEmpty
<1>3. call = [c \in Loaders |-> call[c]] /\ \A c \in Loaders : call[c] = Idle
  BY DEF BarInit
<1> QED  BY <1>1, <1>2, <1>3, Resting DEF BarInv

(* One call moved: the others still fit, for what they rely on stays while  *)
(* they hold the lock.                                                      *)
LEMMA CallMoved ==
  ASSUME BarInv, NEW c \in Loaders, NEW a, call' = [call EXCEPT ![c] = a],
         UNCHANGED <<missing, now>>,
         FileSound(cache', now, buried'), HolesEmpty(knownEmpty'), buried \subseteq buried',
         UNCHANGED <<cache, cacheLock>> \/ cacheLock = c \/ cacheLock \notin Loaders,
         Loading(c, a, cacheLock', cache', now, buried')
  PROVE  BarInv'
<1>1. call' = [d \in Loaders |-> call'[d]] /\ call'[c] = a /\ \A d \in Loaders \ {c} : call'[d] = call[d]
  BY DEF BarInv
<1>2. ASSUME NEW d \in Loaders \ {c}
      PROVE  Loading(d, call[d], cacheLock', cache', now, buried')
  <2>1. Loading(d, call[d], cacheLock, cache, now, buried)
    BY DEF BarInv
  <2>2. UnderLock(d, call[d], cacheLock', cache', now)
    BY <2>1 DEF Loading, UnderLock
  <2>3. Answering(call[d], buried')
    BY <2>1 DEF Loading, Answering
  <2> QED  BY <2>1, <2>2, <2>3 DEF Loading
<1>3. \A d \in Loaders : Loading(d, call'[d], cacheLock', cache', now, buried')
  BY <1>1, <1>2
<1>4. missing' = missing /\ now' = now
  OBVIOUS
<1>5. FileSound(cache, now, buried)' /\ HolesEmpty(knownEmpty)'
  BY <1>4 DEF FileSound, HolesEmpty
<1>6. \A d \in Loaders : Loading(d, call[d], cacheLock, cache, now, buried)'
  BY <1>3, <1>4 DEF Loading, UnderLock, Collecting, Answering, Gathered
<1> QED  BY <1>1, <1>4, <1>5, <1>6 DEF BarInv

LEMMA BarTicks == BarInv /\ Ticks => BarInv'
<1> SUFFICES ASSUME BarInv, Ticks PROVE BarInv'
  OBVIOUS
<1>1. /\ now \in Nat /\ now' = now + 1 /\ now' \in 0..Horizon
      /\ UNCHANGED <<missing, cache, knownEmpty, cacheLock, call, buried>>
  BY BarAssumption DEF Ticks, BarInv
<1>2. FileSound(cache, now, buried)'
  <2>1. FileSound(cache, now, buried) /\ \A t \in DOMAIN cache : t \in Nat
    BY BarsAre DEF BarInv, FileSound
  <2> QED  BY <1>1, <2>1 DEF FileSound
<1>3. ASSUME NEW c \in Loaders  PROVE Loading(c, call[c], cacheLock, cache, now, buried)'
  <2>1. Loading(c, call[c], cacheLock, cache, now, buried)
    BY DEF BarInv
  <2>2. call[c].since \in Nat /\ \A t \in DOMAIN call[c].new : t \in Nat
    BY <2>1, BarsAre DEF Loading, LoadCalls
  <2>3. UnderLock(c, call[c], cacheLock, cache, now + 1)
    <3>1. \A t \in DOMAIN call[c].new : t <= now => t <= now + 1
      BY <1>1, <2>2
    <3> QED  BY <2>1, <3>1 DEF Loading, UnderLock
  <2>4. call[c].since <= now + 1
    BY <1>1, <2>1, <2>2 DEF Loading
  <2> QED  BY <1>1, <2>1, <2>3, <2>4 DEF Loading, UnderLock, Collecting, Answering, Gathered
<1> QED  BY <1>1, <1>2, <1>3 DEF BarInv, HolesEmpty

-----------------------------------------------------------------------------
(* The steps of a load.                                                     *)
LEMMA CallFacts ==
  ASSUME BarInv, NEW c \in Loaders
  PROVE  /\ call[c] \in LoadCalls /\ Loading(c, call[c], cacheLock, cache, now, buried)
         /\ now \in 0..Horizon /\ now \in Nat /\ FileSound(cache, now, buried) /\ HolesEmpty(knownEmpty)
         /\ cache \in Bars /\ call[c].start \in Nat /\ call[c].end \in Nat /\ call[c].since \in Nat
         /\ call[c].since <= now /\ call[c].new \in Bars /\ call[c].old \in Bars /\ call[c].got \in Bars
<1>1. Loading(c, call[c], cacheLock, cache, now, buried) /\ call[c] \in LoadCalls
  BY DEF BarInv, Loading
<1>2. now \in 0..Horizon /\ FileSound(cache, now, buried) /\ HolesEmpty(knownEmpty) /\ cache \in Bars
  BY DEF BarInv, FileSound
<1>3. now \in Nat
  BY <1>2, BarAssumption
<1> QED  BY <1>1, <1>2, <1>3 DEF Loading, LoadCalls

(* Holes that are not noted hold every bar the exchange has within the file *)
(* and the file lacks.                                                      *)
LEMMA InAPendingGap ==
  ASSUME NEW b \in Bars, Has(b), HolesEmpty(knownEmpty),
         NEW t \in Nat, FirstBar(b) <= t, t <= LastBar(b), t \notin DOMAIN b, t \notin missing
  PROVE  \E g \in PendingGaps(b) : g[1] <= t /\ t <= g[2]
<1>1. PICK g \in Gaps(b) : g[1] <= t /\ t <= g[2]
  BY InAGap
<1>2. g[1] \in Nat /\ g[2] \in Nat
  BY <1>1 DEF Gaps
<1>3. ASSUME NEW k \in knownEmpty, k[1] <= g[1], g[2] <= k[2]  PROVE FALSE
  <2>1. k[1] \in Nat /\ k[2] \in Nat
    BY DEF HolesEmpty
  <2>2. t \in k[1]..k[2]
    BY <1>1, <1>2, <1>3, <2>1
  <2> QED  BY <2>2 DEF HolesEmpty
<1> QED  BY <1>1, <1>3 DEF PendingGaps

LEMMA LoadKeeps ==
  ASSUME BarInv, NEW c \in Loaders, NEW start \in Nat, NEW end \in Nat, NEW force \in BOOLEAN,
         Load(c, start, end, force)
  PROVE  BarInv'
<1> DEFINE asked == [Idle EXCEPT !.start = start, !.end = end, !.force = force, !.since = now]
<1>0. /\ now \in 0..Horizon /\ now \in Nat /\ FileSound(cache, now, buried) /\ HolesEmpty(knownEmpty)
      /\ cache \in Bars
  BY CallFacts
<1>1. /\ asked \in LoadCalls /\ asked.at = "idle" /\ asked.start = start /\ asked.end = end
      /\ asked.force = force /\ asked.since = now /\ asked.old = NoBars /\ asked.new = NoBars
      /\ asked.got = NoBars
  BY <1>0, NoBarsAre DEF Idle, LoadCalls, Stages
<1> HIDE DEF asked
<1>2. CASE ~force /\ Covers(cache, start, end)
  <2> DEFINE a == [asked EXCEPT !.at = "read", !.got = Within(cache, start, end)]
  <2>1. call' = [call EXCEPT ![c] = a]
    BY <1>2 DEF Load, asked
  <2>2. /\ Within(cache, start, end) \in Bars
        /\ DOMAIN Within(cache, start, end) = {t \in DOMAIN cache : start <= t /\ t < end}
        /\ \A t \in DOMAIN Within(cache, start, end) : Within(cache, start, end)[t] = cache[t]
    BY <1>0, WithinBars
  <2>3. /\ a \in LoadCalls /\ a.at = "read" /\ a.start = start /\ a.end = end /\ a.since = now
        /\ a.got = Within(cache, start, end)
    BY <1>1, <2>2 DEF LoadCalls, Stages
  <2> HIDE DEF a
  <2>4. /\ Has(cache) /\ FirstBar(cache) <= start /\ end <= LastBar(cache)
        /\ PendingGaps(cache) = {} /\ FirstBar(cache) \in Nat /\ LastBar(cache) \in Nat
    BY <1>0, <1>2, Ends DEF Covers
  <2>5. Gathered(a, a.end, DOMAIN a.got)
    <3> SUFFICES ASSUME NEW t \in Nat, start <= t, t < end, t \notin missing
                 PROVE  t \in DOMAIN cache
      BY <2>2, <2>3 DEF Gathered
    <3>1. FirstBar(cache) <= t /\ t <= LastBar(cache)
      BY <2>4
    <3> QED  BY <1>0, <2>4, <3>1, InAPendingGap
  <2>6. ASSUME NEW t \in DOMAIN a.got  PROVE a.got[t] = "final" \/ t \in buried
    <3>1. t \in DOMAIN cache /\ t < end /\ a.got[t] = cache[t] /\ t \in Nat
      BY <1>0, <2>2, <2>3, <2>6, BarsAre
    <3>2. t # LastBar(cache)
      BY <2>4, <3>1
    <3>3. cache[t] \in Qualities
      BY <1>0, <3>1, BarsAre
    <3> QED  BY <1>0, <3>1, <3>2, <3>3 DEF FileSound, Qualities
  <2>7. Loading(c, a, cacheLock, cache, now, buried)
    BY <1>0, <2>3, <2>5, <2>6 DEF Loading, UnderLock, Collecting, Answering, Writing
  <2> QED  BY <1>0, <2>1, <2>7, CallMoved DEF Load
<1>3. CASE ~(~force /\ Covers(cache, start, end))
  <2> DEFINE a == [asked EXCEPT !.at = "wants"]
  <2>1. call' = [call EXCEPT ![c] = a]
    BY <1>3 DEF Load, asked
  <2>2. a \in LoadCalls /\ a.at = "wants" /\ a.since = now /\ a.new = NoBars
    BY <1>1 DEF LoadCalls, Stages
  <2> HIDE DEF a
  <2>3. Loading(c, a, cacheLock, cache, now, buried)
    BY <1>0, <2>2, NoBarsAre DEF Loading, UnderLock, Collecting, Answering, Writing, Copying
  <2> QED  BY <1>0, <2>1, <2>3, CallMoved DEF Load
<1> QED  BY <1>2, <1>3

LEMMA LocksKeeps == ASSUME BarInv, NEW c \in Loaders, Locks(c)  PROVE BarInv'
<1>1. PICK at \in {"window", "head"} :
        /\ at = IF call[c].force \/ ~Has(cache) THEN "window" ELSE "head"
        /\ call' = [call EXCEPT ![c].at = at, ![c].old = cache]
  BY DEF Locks
<1> DEFINE a == [call[c] EXCEPT !.at = at, !.old = cache]
<1>2. call' = [call EXCEPT ![c] = a]
  BY <1>1
<1>3. /\ a \in LoadCalls /\ a.at = at /\ a.old = cache /\ a.new = call[c].new /\ a.force = call[c].force
      /\ a.since = call[c].since
  BY CallFacts DEF LoadCalls, Stages, Writing
<1> HIDE DEF a
<1>4. call[c].at = "wants" /\ cacheLock' = c /\ cacheLock \notin Loaders /\ UNCHANGED <<missing, now, cache, buried, knownEmpty>>
  BY BarAssumption DEF Locks, Nobody, Dead
<1>5. DOMAIN a.new = {}
  BY <1>3, <1>4, CallFacts DEF Loading, Collecting
<1>6. Loading(c, a, cacheLock', cache, now, buried)
  BY <1>1, <1>3, <1>4, <1>5, CallFacts DEF Loading, UnderLock, Collecting, Answering, Writing, Copying
<1> QED  BY <1>2, <1>4, <1>6, CallFacts, CallMoved

(* What a page adds to what was fetched before.                             *)
LEMMA Getting ==
  ASSUME BarInv, NEW c \in Loaders, call[c].at \in Writing, NEW bars \in Bars, NEW next \in Writing,
         Gets(c, bars, next)
  PROVE  \E a \in LoadCalls :
           /\ call' = [call EXCEPT ![c] = a] /\ a.at = next
           /\ a.start = call[c].start /\ a.end = call[c].end /\ a.force = call[c].force
           /\ a.since = call[c].since /\ a.old = call[c].old /\ a.old = cache /\ cacheLock = c
           /\ DOMAIN a.new = DOMAIN bars \cup DOMAIN call[c].new
           /\ \A t \in DOMAIN bars : a.new[t] = bars[t]
           /\ \A t \in DOMAIN call[c].new \ DOMAIN bars : a.new[t] = call[c].new[t]
<1> DEFINE over == Over(bars, call[c].new)
           a == [call[c] EXCEPT !.new = over, !.at = next]
<1>1. /\ over \in Bars /\ DOMAIN over = DOMAIN bars \cup DOMAIN call[c].new
      /\ \A t \in DOMAIN bars : over[t] = bars[t]
      /\ \A t \in DOMAIN call[c].new \ DOMAIN bars : over[t] = call[c].new[t]
  BY CallFacts, OverBars
<1>2. call' = [call EXCEPT ![c] = a]
  BY DEF Gets
<1> HIDE DEF over
<1>3. /\ a \in LoadCalls /\ a.at = next /\ a.new = over /\ a.old = call[c].old
      /\ a.start = call[c].start /\ a.end = call[c].end /\ a.force = call[c].force
      /\ a.since = call[c].since
  BY <1>1, CallFacts DEF LoadCalls, Stages
<1>4. call[c].old = cache /\ cacheLock = c
  BY CallFacts DEF Loading, UnderLock
<1> HIDE DEF a
<1> QED  BY <1>1, <1>2, <1>3, <1>4

LEMMA Going ==
  ASSUME BarInv, NEW c \in Loaders, NEW next \in Stages, To(c, next)
  PROVE  \E a \in LoadCalls :
           /\ call' = [call EXCEPT ![c] = a] /\ a.at = next
           /\ a.start = call[c].start /\ a.end = call[c].end /\ a.force = call[c].force
           /\ a.since = call[c].since /\ a.old = call[c].old /\ a.new = call[c].new /\ a.got = call[c].got
<1> DEFINE a == [call[c] EXCEPT !.at = next]
<1>1. call' = [call EXCEPT ![c] = a]
  BY DEF To
<1>2. /\ a \in LoadCalls /\ a.at = next /\ a.old = call[c].old /\ a.new = call[c].new /\ a.got = call[c].got
      /\ a.start = call[c].start /\ a.end = call[c].end /\ a.force = call[c].force
      /\ a.since = call[c].since
  BY CallFacts DEF LoadCalls
<1> HIDE DEF a
<1> QED  BY <1>1, <1>2

LEMMA FetchWindowKeeps == ASSUME BarInv, NEW c \in Loaders, FetchWindow(c)  PROVE BarInv'
<1> DEFINE bars == Fetch(call[c].start, call[c].end)
<1>1. /\ bars \in Bars /\ DOMAIN bars = {t \in call[c].start..call[c].end : t <= now /\ t \notin missing}
      /\ \A t \in DOMAIN bars : bars[t] = IF t = now THEN "half" ELSE "final"
  BY CallFacts, FetchedBars
<1>2. call[c].at = "window" /\ Gets(c, bars, "merge") /\ UNCHANGED <<missing, now, cache, knownEmpty, cacheLock, buried>>
  BY DEF FetchWindow
<1> HIDE DEF bars
<1>3. PICK a \in LoadCalls :
        /\ call' = [call EXCEPT ![c] = a] /\ a.at = "merge"
        /\ a.start = call[c].start /\ a.end = call[c].end /\ a.force = call[c].force
        /\ a.since = call[c].since /\ a.old = call[c].old /\ a.old = cache /\ cacheLock = c
        /\ DOMAIN a.new = DOMAIN bars \cup DOMAIN call[c].new
        /\ \A t \in DOMAIN bars : a.new[t] = bars[t]
        /\ \A t \in DOMAIN call[c].new \ DOMAIN bars : a.new[t] = call[c].new[t]
  BY <1>1, <1>2, Getting DEF Writing
<1>4. DOMAIN call[c].new = {} /\ (call[c].force \/ ~Has(call[c].old))
  BY <1>2, CallFacts DEF Loading, Collecting
<1>5. UnderLock(c, a, cacheLock, cache, now)
  <2> SUFFICES ASSUME NEW t \in DOMAIN a.new
               PROVE  /\ t <= now /\ t \notin missing
                      /\ a.new[t] = "half" => (\A u \in DOMAIN cache : u < t) /\ (\A u \in DOMAIN a.new : u <= t)
    BY <1>3 DEF UnderLock
  <2>1. t \in DOMAIN bars /\ DOMAIN a.new = DOMAIN bars /\ (a.new[t] = "half" => t = now)
    BY <1>1, <1>3, <1>4
  <2>2. \A u \in DOMAIN cache : u < now
    BY CallFacts DEF FileSound
  <2> QED  BY <1>1, <2>1, <2>2
<1>6. Gathered(a, a.end, Collected(a))
  <2> SUFFICES ASSUME NEW t \in Nat, a.start <= t, t < a.end, t < a.since, t \notin missing
               PROVE  t \in DOMAIN a.new
    BY DEF Gathered, Collected
  <2>1. t \in call[c].start..call[c].end /\ t <= now
    BY <1>3, CallFacts
  <2> QED  BY <1>1, <1>3, <2>1
<1>7. Loading(c, a, cacheLock, cache, now, buried)
  BY <1>3, <1>4, <1>5, <1>6, CallFacts DEF Loading, Collecting, Answering, Copying
<1> QED  BY <1>2, <1>3, <1>7, CallFacts, CallMoved

LEMMA FetchHeadKeeps == ASSUME BarInv, NEW c \in Loaders, FetchHead(c)  PROVE BarInv'
<1>1. /\ call[c].at = "head" /\ UNCHANGED <<missing, now, cache, knownEmpty, cacheLock, buried>>
      /\ ~call[c].force /\ Has(call[c].old) /\ DOMAIN call[c].new = {}
      /\ call[c].old = cache /\ cacheLock = c
  BY CallFacts DEF FetchHead, Loading, Collecting, UnderLock, Writing
<1> DEFINE first == FirstBar(cache)
<1>2. first \in Nat /\ first <= LastBar(cache) /\ first < now /\ LastBar(cache) \in Nat /\ Has(cache)
      /\ \A u \in DOMAIN cache : u < now
  BY <1>1, CallFacts, Ends DEF FileSound
<1>3. CASE call[c].start < first
  <2> DEFINE bars == Fetch(call[c].start, first)
  <2>1. /\ bars \in Bars /\ DOMAIN bars = {t \in call[c].start..first : t <= now /\ t \notin missing}
        /\ \A t \in DOMAIN bars : bars[t] = IF t = now THEN "half" ELSE "final"
    BY <1>2, CallFacts, FetchedBars
  <2>2. Gets(c, bars, "gaps")
    BY <1>1, <1>3 DEF FetchHead
  <2> HIDE DEF bars
  <2>3. PICK a \in LoadCalls :
          /\ call' = [call EXCEPT ![c] = a] /\ a.at = "gaps"
          /\ a.start = call[c].start /\ a.end = call[c].end /\ a.force = call[c].force
          /\ a.since = call[c].since /\ a.old = call[c].old /\ a.old = cache /\ cacheLock = c
          /\ DOMAIN a.new = DOMAIN bars \cup DOMAIN call[c].new
          /\ \A t \in DOMAIN bars : a.new[t] = bars[t]
          /\ \A t \in DOMAIN call[c].new \ DOMAIN bars : a.new[t] = call[c].new[t]
    BY <1>1, <2>1, <2>2, Getting DEF Writing
  <2>4. DOMAIN a.new = DOMAIN bars
        /\ \A t \in DOMAIN a.new : t \in Nat /\ t <= first /\ t < now /\ t \notin missing /\ a.new[t] = "final"
    BY <1>1, <1>2, <2>1, <2>3, CallFacts
  <2>5. Gathered(a, FirstBar(a.old), Collected(a))
    <3> SUFFICES ASSUME NEW t \in Nat, a.start <= t, t < first, t < a.since, t \notin missing
                 PROVE  t \in DOMAIN a.new
      BY <2>3 DEF Gathered, Collected
    <3>1. t \in call[c].start..first /\ t <= now
      BY <1>2, <2>3, CallFacts
    <3> QED  BY <2>1, <2>3, <3>1
  <2>6. \A t \in DOMAIN a.new : t <= LastBar(a.old)
    BY <1>2, <2>3, <2>4
  <2>7. UnderLock(c, a, cacheLock, cache, now)
    BY <1>2, <2>3, <2>4, CallFacts DEF UnderLock
  <2>8. Loading(c, a, cacheLock, cache, now, buried)
    BY <1>1, <2>3, <2>5, <2>6, <2>7, CallFacts DEF Loading, Collecting, Answering, Copying
  <2> QED  BY <1>1, <2>3, <2>8, CallFacts, CallMoved
<1>4. CASE ~(call[c].start < first)
  <2>1. To(c, "gaps")
    BY <1>1, <1>4 DEF FetchHead
  <2>2. PICK a \in LoadCalls :
          /\ call' = [call EXCEPT ![c] = a] /\ a.at = "gaps"
          /\ a.start = call[c].start /\ a.end = call[c].end /\ a.force = call[c].force
          /\ a.since = call[c].since /\ a.old = call[c].old /\ a.new = call[c].new /\ a.got = call[c].got
    BY <2>1, Going DEF Stages, Writing
  <2>3. Gathered(a, FirstBar(a.old), Collected(a))
    BY <1>1, <1>2, <1>4, <2>2, CallFacts DEF Gathered
  <2>4. UnderLock(c, a, cacheLock, cache, now)
    BY <1>1, <2>2 DEF UnderLock
  <2>5. Loading(c, a, cacheLock, cache, now, buried)
    BY <1>1, <2>2, <2>3, <2>4, CallFacts DEF Loading, Collecting, Answering, Copying
  <2> QED  BY <1>1, <2>2, <2>5, CallFacts, CallMoved
<1> QED  BY <1>3, <1>4

(* The bars of the holes, all of them finished, and the holes that stay.    *)
LEMMA FetchGapsKeeps == ASSUME BarInv, NEW c \in Loaders, FetchGaps(c)  PROVE BarInv'
<1> DEFINE pending == PendingGaps(call[c].old)
           Got(g) == Fetch(g[1], g[2])
           filled == {g \in pending : Has(Got(g))}
           U == UNION {DOMAIN Got(g) : g \in filled}
           bars == [t \in U |-> Fetch(t, t)[t]]
<1>1. /\ call[c].at = "gaps" /\ UNCHANGED <<missing, now, cache, cacheLock, buried>>
      /\ Gets(c, bars, "tail") /\ knownEmpty' = knownEmpty \cup (pending \ filled)
  BY DEF FetchGaps
<1>2. /\ ~call[c].force /\ Has(call[c].old) /\ call[c].old = cache /\ cacheLock = c
      /\ \A t \in DOMAIN call[c].new : t <= LastBar(call[c].old)
      /\ Gathered(call[c], FirstBar(call[c].old), Collected(call[c]))
  BY <1>1, CallFacts DEF Loading, Collecting, UnderLock, Writing
<1>3. /\ FirstBar(cache) \in Nat /\ LastBar(cache) \in Nat /\ LastBar(cache) < now /\ Has(cache)
      /\ \A t \in DOMAIN cache : t \in Nat /\ t <= LastBar(cache)
  <2>1. cache \in Bars /\ Has(cache) /\ \A t \in DOMAIN cache : t < now
    BY <1>2, CallFacts DEF FileSound
  <2>2. LastBar(cache) \in DOMAIN cache /\ FirstBar(cache) \in Nat /\ LastBar(cache) \in Nat
    BY <2>1, Ends
  <2>3. \A t \in DOMAIN cache : t \in Nat /\ t <= LastBar(cache)
    BY <2>1, Ends, BarsAre
  <2> QED  BY <2>1, <2>2, <2>3
<1>4. ASSUME NEW g \in pending
      PROVE  /\ g[1] \in Nat /\ g[2] \in Nat /\ g \in Nat \X Nat
             /\ \A t \in g[1]..g[2] : t \in Nat /\ t < LastBar(cache) /\ t < now
             /\ DOMAIN Got(g) = {t \in g[1]..g[2] : t \notin missing}
  <2>1. g[1] \in Nat /\ g[2] \in Nat /\ g \in Nat \X Nat /\ g[2] + 1 <= LastBar(cache)
    BY <1>2, <1>3 DEF PendingGaps, Gaps
  <2>2. \A t \in g[1]..g[2] : t \in Nat /\ t < LastBar(cache) /\ t < now
    BY <1>3, <2>1, CallFacts
  <2>3. DOMAIN Got(g) = {t \in g[1]..g[2] : t <= now /\ t \notin missing}
    BY <2>1, CallFacts, FetchedBars
  <2>4. \A t \in g[1]..g[2] : t <= now
    BY <2>2, CallFacts
  <2> QED  BY <2>1, <2>2, <2>3, <2>4
<1> HIDE DEF pending, Got
<1>5. ASSUME NEW t \in U
      PROVE  t \in Nat /\ t < LastBar(cache) /\ t < now /\ t \notin missing
  BY <1>4
<1>6. ASSUME NEW t \in U  PROVE Fetch(t, t)[t] = "final"
  <2>1. t \in Nat /\ t < now /\ t \notin missing /\ now \in Nat
    BY <1>5, CallFacts
  <2>2. t \in {u \in t..t : u <= now /\ u \notin missing}
    BY <2>1
  <2>3. now \in 0..Horizon
    BY CallFacts
  <2>4. /\ DOMAIN Fetch(t, t) = {u \in t..t : u <= now /\ u \notin missing}
        /\ \A u \in DOMAIN Fetch(t, t) : Fetch(t, t)[u] = IF u = now THEN "half" ELSE "final"
    BY <2>1, <2>3, FetchedBars
  <2> QED  BY <2>1, <2>2, <2>4
<1>7. bars \in Bars /\ DOMAIN bars = U /\ \A t \in U : bars[t] = "final"
  <2>1. U \in SUBSET (0..Horizon)
    BY <1>5, CallFacts, BarAssumption
  <2>2. \A t \in U : bars[t] = "final"
    BY <1>6
  <2>3. bars \in [U -> Qualities]
    BY <2>2 DEF Qualities
  <2> HIDE DEF U, bars
  <2> QED  BY <2>1, <2>2, <2>3, AreBars
<1> HIDE DEF bars
<1>8. PICK a \in LoadCalls :
        /\ call' = [call EXCEPT ![c] = a] /\ a.at = "tail"
        /\ a.start = call[c].start /\ a.end = call[c].end /\ a.force = call[c].force
        /\ a.since = call[c].since /\ a.old = call[c].old /\ a.old = cache /\ cacheLock = c
        /\ DOMAIN a.new = DOMAIN bars \cup DOMAIN call[c].new
        /\ \A t \in DOMAIN bars : a.new[t] = bars[t]
        /\ \A t \in DOMAIN call[c].new \ DOMAIN bars : a.new[t] = call[c].new[t]
  BY <1>1, <1>7, Getting DEF Writing
<1>9. ASSUME NEW t \in DOMAIN a.new
      PROVE  /\ t <= now /\ t \notin missing /\ t <= LastBar(cache) /\ a.new[t] # "half"
  <2>1. CASE t \in U
    BY <1>3, <1>5, <1>7, <1>8, <2>1, CallFacts
  <2>2. CASE t \in DOMAIN call[c].new \ U
    <3>1. t <= LastBar(cache) /\ t <= now /\ t \notin missing
      BY <1>1, <1>2, <2>2, CallFacts DEF Loading, UnderLock, Writing
    <3>2. call[c].new[t] = "half" => LastBar(cache) < t
      BY <1>1, <1>2, <2>2, CallFacts, Ends DEF Loading, UnderLock, Writing
    <3>3. t \in Nat
      BY <2>2, CallFacts, BarsAre
    <3> QED  BY <1>3, <1>7, <1>8, <2>2, <3>1, <3>2, <3>3
  <2> QED  BY <1>7, <1>8, <2>1, <2>2
<1>10. UnderLock(c, a, cacheLock, cache, now)
  BY <1>8, <1>9 DEF UnderLock
<1>11. Gathered(a, LastBar(a.old), Collected(a))
  <2> SUFFICES ASSUME NEW t \in Nat, a.start <= t, t < LastBar(cache), t < a.since, t \notin missing,
                      t \notin DOMAIN cache
               PROVE  t \in DOMAIN a.new
    BY <1>8 DEF Gathered, Collected
  <2>1. CASE t < FirstBar(cache)
    BY <1>2, <1>8, <2>1 DEF Gathered, Collected
  <2>2. CASE FirstBar(cache) <= t
    <3>1. PICK g \in pending : g[1] <= t /\ t <= g[2]
      BY <1>2, <1>3, <2>2, CallFacts, InAPendingGap DEF pending
    <3>2. t \in g[1]..g[2] /\ g \in pending
      BY <1>4, <3>1
    <3>4. t \in DOMAIN Got(g)
      BY <1>4, <3>2
    <3>3. t \in U
      BY <3>2, <3>4 DEF Has
    <3> QED  BY <1>7, <1>8, <3>3
  <2> QED  BY <1>3, <2>1, <2>2
<1>12. HolesEmpty(knownEmpty')
  <2>1. ASSUME NEW g \in pending \ filled  PROVE g \in Nat \X Nat /\ \A t \in g[1]..g[2] : t \in missing
    BY <1>4 DEF Has
  <2> QED  BY <1>1, <2>1, CallFacts DEF HolesEmpty
<1>13. Loading(c, a, cacheLock, cache, now, buried)
  BY <1>2, <1>8, <1>9, <1>10, <1>11, CallFacts DEF Loading, Collecting, Answering, Copying
<1> QED  BY <1>1, <1>8, <1>12, <1>13, CallFacts, CallMoved

LEMMA FetchTailKeeps == ASSUME BarInv, NEW c \in Loaders, FetchTail(c)  PROVE BarInv'
<1> DEFINE last == LastBar(cache)
<1>1. /\ call[c].at = "tail" /\ UNCHANGED <<missing, now, cache, knownEmpty, cacheLock, buried>>
      /\ ~call[c].force /\ Has(call[c].old) /\ call[c].old = cache /\ cacheLock = c
      /\ \A t \in DOMAIN call[c].new : t <= last
      /\ Gathered(call[c], last, Collected(call[c]))
  BY CallFacts DEF FetchTail, Loading, Collecting, UnderLock, Writing
<1>2. last \in DOMAIN cache /\ last \in Nat /\ last < now /\ last \notin missing
      /\ \A t \in DOMAIN cache : t \in Nat /\ t <= last
  <2>1. cache \in Bars /\ Has(cache) /\ \A t \in DOMAIN cache : t < now /\ t \notin missing
    BY <1>1, CallFacts DEF FileSound
  <2>2. last \in DOMAIN cache /\ last \in Nat
    BY <2>1, Ends
  <2>3. \A t \in DOMAIN cache : t \in Nat /\ t <= last
    BY <2>1, Ends, BarsAre
  <2> QED  BY <2>1, <2>2, <2>3
<1>3. ASSUME NEW t \in DOMAIN call[c].new
      PROVE  t \in Nat /\ t <= last /\ t <= now /\ t \notin missing /\ call[c].new[t] # "half"
  <2>1. t \in Nat /\ t <= last
    BY <1>1, CallFacts, BarsAre
  <2>2. t <= now /\ t \notin missing /\ (call[c].new[t] = "half" => last < t)
    BY <1>1, <1>2, CallFacts DEF Loading, UnderLock, Writing
  <2> QED  BY <1>2, <2>1, <2>2
<1>4. CASE last < call[c].end
  <2> DEFINE bars == Fetch(last, call[c].end)
  <2>1. /\ bars \in Bars /\ DOMAIN bars = {t \in last..call[c].end : t <= now /\ t \notin missing}
        /\ \A t \in DOMAIN bars : bars[t] = IF t = now THEN "half" ELSE "final"
    BY <1>2, CallFacts, FetchedBars
  <2>2. Gets(c, bars, "merge")
    BY <1>1, <1>4 DEF FetchTail
  <2>a. last \in DOMAIN bars /\ \A t \in DOMAIN bars : t \in Nat /\ last <= t /\ t <= now /\ t \notin missing
    <3>1. last \in last..call[c].end
      BY <1>2, <1>4, CallFacts
    <3>2. last <= now
      BY <1>2, CallFacts
    <3>3. \A t \in last..call[c].end : t \in Nat /\ last <= t
      BY <1>2, CallFacts
    <3> HIDE DEF bars
    <3> QED  BY <1>2, <2>1, <3>1, <3>2, <3>3
  <2> HIDE DEF bars
  <2>3. PICK a \in LoadCalls :
          /\ call' = [call EXCEPT ![c] = a] /\ a.at = "merge"
          /\ a.start = call[c].start /\ a.end = call[c].end /\ a.force = call[c].force
          /\ a.since = call[c].since /\ a.old = call[c].old /\ a.old = cache /\ cacheLock = c
          /\ DOMAIN a.new = DOMAIN bars \cup DOMAIN call[c].new
          /\ \A t \in DOMAIN bars : a.new[t] = bars[t]
          /\ \A t \in DOMAIN call[c].new \ DOMAIN bars : a.new[t] = call[c].new[t]
    BY <1>1, <2>1, <2>2, Getting DEF Writing
  <2>4. ASSUME NEW t \in DOMAIN a.new
        PROVE  /\ t \in Nat /\ t <= now /\ t \notin missing
               /\ a.new[t] = "half" => t = now
    <3>1. CASE t \in DOMAIN bars
      BY <2>1, <2>a, <2>3, <3>1
    <3>2. CASE t \in DOMAIN call[c].new \ DOMAIN bars
      BY <1>3, <2>3, <3>2
    <3> QED  BY <2>3, <3>1, <3>2
  <2>5. UnderLock(c, a, cacheLock, cache, now)
    <3> SUFFICES ASSUME NEW t \in DOMAIN a.new
                 PROVE  /\ t <= now /\ t \notin missing
                        /\ a.new[t] = "half" => (\A u \in DOMAIN cache : u < t) /\ (\A u \in DOMAIN a.new : u <= t)
      BY <2>3 DEF UnderLock
    <3>1. \A u \in DOMAIN cache : u < now
      BY CallFacts DEF FileSound
    <3>2. \A u \in DOMAIN a.new : u <= now
      BY <2>4
    <3> QED  BY <2>4, <3>1, <3>2
  <2>6. Gathered(a, a.end, Collected(a))
    <3> SUFFICES ASSUME NEW t \in Nat, a.start <= t, t < a.end, t < a.since, t \notin missing
                 PROVE  t \in Collected(a)
      BY DEF Gathered
    <3>1. CASE t < last
      BY <1>1, <2>3, <3>1 DEF Gathered, Collected
    <3>2. CASE last <= t
      <4>1. t \in last..call[c].end /\ t <= now
        BY <1>2, <2>3, <3>2, CallFacts
      <4> QED  BY <2>1, <2>3, <4>1 DEF Collected
    <3> QED  BY <1>2, <3>1, <3>2
  <2>7. Loading(c, a, cacheLock, cache, now, buried)
    BY <1>1, <2>a, <2>3, <2>5, <2>6, CallFacts DEF Loading, Collecting, Answering, Copying
  <2> QED  BY <1>1, <2>3, <2>7, CallFacts, CallMoved
<1>5. CASE ~(last < call[c].end)
  <2>1. To(c, "merge")
    BY <1>1, <1>5 DEF FetchTail
  <2>2. PICK a \in LoadCalls :
          /\ call' = [call EXCEPT ![c] = a] /\ a.at = "merge"
          /\ a.start = call[c].start /\ a.end = call[c].end /\ a.force = call[c].force
          /\ a.since = call[c].since /\ a.old = call[c].old /\ a.new = call[c].new /\ a.got = call[c].got
    BY <2>1, Going DEF Stages, Writing
  <2>3. Gathered(a, a.end, Collected(a))
    <3> SUFFICES ASSUME NEW t \in Nat, a.start <= t, t < a.end, t < a.since, t \notin missing
                 PROVE  t \in Collected(a)
      BY DEF Gathered
    <3>1. t < last
      BY <1>2, <1>5, <2>2, CallFacts
    <3> QED  BY <1>1, <2>2, <3>1 DEF Gathered, Collected
  <2>4. UnderLock(c, a, cacheLock, cache, now)
    BY <1>1, <1>3, <2>2 DEF UnderLock
  <2>5. Loading(c, a, cacheLock, cache, now, buried)
    BY <1>1, <2>2, <2>3, <2>4, CallFacts DEF Loading, Collecting, Answering, Copying
  <2> QED  BY <1>1, <2>2, <2>5, CallFacts, CallMoved
<1> QED  BY <1>4, <1>5

(* What a merge writes: every bar of the file and every one fetched, but    *)
(* the one that forms.                                                      *)
LEMMA MergedBars ==
  ASSUME BarInv, NEW c \in Loaders, call[c].at = "merge"
  PROVE  /\ Merged(c) \in Bars
         /\ DOMAIN Merged(c) = {t \in Collected(call[c]) : t < now}
         /\ \A t \in DOMAIN Merged(c) :
              Merged(c)[t] = IF t \in DOMAIN call[c].new THEN call[c].new[t] ELSE call[c].old[t]
<1> DEFINE all == Over(call[c].new, call[c].old)
<1>1. /\ all \in Bars /\ DOMAIN all = Collected(call[c])
      /\ \A t \in DOMAIN call[c].new : all[t] = call[c].new[t]
      /\ \A t \in DOMAIN call[c].old \ DOMAIN call[c].new : all[t] = call[c].old[t]
  BY CallFacts, OverBars DEF Collected
<1>2. \A t \in DOMAIN all : t \in Nat /\ t <= now
  <2>1. \A t \in DOMAIN call[c].new : t <= now
    BY CallFacts DEF Loading, UnderLock, Writing
  <2>2. \A t \in DOMAIN call[c].old : t < now
    BY CallFacts DEF Loading, UnderLock, Writing, FileSound
  <2>3. \A t \in DOMAIN all : t \in Nat
    BY <1>1, BarsAre
  <2> QED  BY <1>1, <2>1, <2>2, <2>3, CallFacts DEF Collected
<1>3. CASE Has(all) /\ LastBar(all) >= now
  <2>1. LastBar(all) = now /\ now \in DOMAIN all
    BY <1>1, <1>2, <1>3, CallFacts, Ends
  <2>2. Merged(c) = Restrict(all, DOMAIN all \ {now})
    BY <1>3, <2>1 DEF Merged
  <2>3. Merged(c) \in Bars /\ DOMAIN Merged(c) = DOMAIN all \ {now} /\ \A t \in DOMAIN Merged(c) : Merged(c)[t] = all[t]
    <3> HIDE DEF all
    <3> QED  BY <1>1, <2>2, RestrictedBars
  <2>4. \A t \in DOMAIN all : t # now <=> t < now
    BY <1>2, CallFacts
  <2> HIDE DEF all
  <2> QED  BY <1>1, <2>3, <2>4 DEF Collected
<1>4. CASE ~(Has(all) /\ LastBar(all) >= now)
  <2>1. Merged(c) = all
    BY <1>4 DEF Merged
  <2>2. \A t \in DOMAIN all : t < now
    <3> SUFFICES ASSUME NEW t \in DOMAIN all PROVE t < now
      OBVIOUS
    <3>1. Has(all) /\ t <= LastBar(all) /\ LastBar(all) \in Nat /\ t \in Nat
      BY <1>1, <1>2, Ends DEF Has
    <3> QED  BY <1>4, <3>1, CallFacts
  <2> HIDE DEF all
  <2> QED  BY <1>1, <2>1, <2>2 DEF Collected
<1> QED  BY <1>3, <1>4

(* So a merge loses nothing of the file, and spoils nothing.                *)
LEMMA MergeKeepsBars ==
  ASSUME BarInv, NEW c \in Loaders, call[c].at = "merge", NEW t \in DOMAIN cache
  PROVE  t \in DOMAIN Merged(c) /\ (cache[t] = "final" => Merged(c)[t] = "final")
<1>1. call[c].old = cache /\ t < now
  BY CallFacts DEF Loading, UnderLock, Writing, FileSound
<1>2. t \in DOMAIN Merged(c)
  BY <1>1, MergedBars DEF Collected
<1>3. Merged(c)[t] = IF t \in DOMAIN call[c].new THEN call[c].new[t] ELSE cache[t]
  BY <1>1, <1>2, MergedBars
<1>4. t \in Nat
  BY CallFacts, BarsAre
<1>5. t \in DOMAIN call[c].new => call[c].new[t] # "half" /\ call[c].new[t] \in Qualities
  BY <1>4, CallFacts, BarsAre DEF Loading, UnderLock, Writing
<1> QED  BY <1>2, <1>3, <1>5 DEF Qualities

LEMMA MergeSound ==
  ASSUME BarInv, NEW c \in Loaders, call[c].at = "merge"
  PROVE  FileSound(Merged(c), now, IF call[c].force THEN buried \cup Buried(Merged(c)) ELSE buried)
<1> DEFINE m == Merged(c)
           old == call[c].old
           new == call[c].new
<1>1. /\ m \in Bars /\ DOMAIN m = {t \in DOMAIN new \cup DOMAIN old : t < now}
      /\ \A t \in DOMAIN m : m[t] = IF t \in DOMAIN new THEN new[t] ELSE old[t]
  BY MergedBars DEF Collected
<1>2. /\ old = cache /\ old \in Bars /\ new \in Bars
      /\ \A t \in DOMAIN old : t < now /\ t \notin missing /\ (old[t] = "half" => t = LastBar(old) \/ t \in buried)
      /\ \A t \in DOMAIN new :
           /\ t \notin missing
           /\ new[t] = "half" => (\A u \in DOMAIN old : u < t) /\ (\A u \in DOMAIN new : u <= t)
  BY CallFacts DEF Loading, UnderLock, Writing, FileSound
<1>3. ~call[c].force /\ Has(old) =>
        LastBar(old) \in DOMAIN new \/ \A t \in DOMAIN new : t <= LastBar(old)
  BY CallFacts DEF Loading, Collecting
<1> HIDE DEF m, old, new
<1>4. ASSUME NEW t \in DOMAIN m
      PROVE  t < now /\ t \notin missing /\ t \in Nat
  BY <1>1, <1>2, BarsAre
<1>5. ASSUME NEW t \in DOMAIN m, m[t] = "half", t \notin buried, ~call[c].force
      PROVE  t = LastBar(m)
  <2>1. Has(m) /\ t <= LastBar(m) /\ LastBar(m) \in DOMAIN m /\ LastBar(m) \in Nat
    BY <1>1, <1>5, Ends DEF Has
  <2>2. CASE t \in DOMAIN new
    <3>1. \A u \in DOMAIN m : u <= t
      <4>1. new[t] = "half"
        BY <1>1, <1>5, <2>2
      <4>2. (\A u \in DOMAIN old : u < t) /\ (\A u \in DOMAIN new : u <= t)
        BY <1>2, <2>2, <4>1
      <4>3. \A u \in DOMAIN old : u \in Nat
        BY <1>2, BarsAre
      <4> QED  BY <1>1, <1>4, <4>2, <4>3
    <3> QED  BY <1>4, <2>1, <3>1
  <2>3. CASE t \notin DOMAIN new
    <3>1. t \in DOMAIN old /\ old[t] = "half" /\ Has(old)
      BY <1>1, <1>5, <2>3 DEF Has
    <3>2. t = LastBar(old)
      BY <1>2, <1>5, <3>1
    <3>3. \A u \in DOMAIN m : u <= t
      <4>1. \A u \in DOMAIN new : u <= t
        BY <1>3, <1>5, <2>3, <3>1, <3>2
      <4>2. \A u \in DOMAIN old : u <= t
        BY <1>2, <3>1, <3>2, Ends
      <4> QED  BY <1>1, <4>1, <4>2
    <3> QED  BY <1>4, <2>1, <3>3
  <2> QED  BY <2>2, <2>3
<1>6. ASSUME NEW t \in DOMAIN m, m[t] = "half", t # LastBar(m)
      PROVE  t \in Buried(m)
  <2>1. Has(m) /\ t <= LastBar(m) /\ LastBar(m) \in Nat
    BY <1>1, <1>6, Ends DEF Has
  <2> QED  BY <1>4, <1>6, <2>1 DEF Buried
<1> QED  BY <1>1, <1>4, <1>5, <1>6 DEF FileSound, m

LEMMA MergeKeeps == ASSUME BarInv, NEW c \in Loaders, Merge(c)  PROVE BarInv'
<1>0. /\ call[c].at = "merge" /\ UNCHANGED <<missing, now, knownEmpty>> /\ cacheLock = c
      /\ call[c].old = cache /\ Gathered(call[c], call[c].end, Collected(call[c]))
  BY CallFacts DEF Merge, Loading, UnderLock, Writing, Collecting
<1>1. CASE Has(call[c].new)
  <2> DEFINE m == Merged(c)
             got == Within(m, call[c].start, call[c].end)
             next == IF Has(m) THEN "copies" ELSE "fetched"
             a == [call[c] EXCEPT !.at = next, !.old = m, !.got = got]
  <2>1. /\ cache' = m /\ call' = [call EXCEPT ![c] = a]
        /\ buried' = IF call[c].force THEN buried \cup Buried(m) ELSE buried
    BY <1>1 DEF Merge
  <2>2. m \in Bars /\ DOMAIN m = {t \in Collected(call[c]) : t < now}
    BY <1>0, MergedBars
  <2>3. FileSound(cache', now, buried') /\ buried \subseteq buried'
    BY <1>0, <2>1, MergeSound
  <2> HIDE DEF m
  <2>4. got \in Bars /\ DOMAIN got = {t \in DOMAIN m : call[c].start <= t /\ t < call[c].end}
    <3>1. call[c].start \in Nat /\ call[c].end \in Nat /\ m \in Bars
      BY <2>2, CallFacts
    <3> QED  BY <3>1, WithinBars
  <2> HIDE DEF got
  <2>5. /\ a \in LoadCalls /\ a.at \in {"copies", "fetched"} /\ a.got = got /\ a.since = call[c].since
        /\ a.start = call[c].start /\ a.end = call[c].end
    BY <2>2, <2>4, CallFacts DEF LoadCalls, Stages, Copying
  <2> HIDE DEF a
  <2>6. Gathered(a, a.end, DOMAIN a.got)
    <3> SUFFICES ASSUME NEW t \in Nat, a.start <= t, t < a.end, t < a.since, t \notin missing
                 PROVE  t \in DOMAIN got
      BY <2>5 DEF Gathered
    <3>1. t \in Collected(call[c])
      BY <1>0, <2>5 DEF Gathered
    <3>2. t < now
      BY <2>5, CallFacts
    <3> QED  BY <2>2, <2>4, <2>5, <3>1, <3>2
  <2>7. Loading(c, a, cacheLock', cache', now, buried')
    BY <2>5, <2>6, CallFacts DEF Loading, UnderLock, Collecting, Answering, Writing
  <2> QED  BY <1>0, <2>1, <2>3, <2>7, CallFacts, CallMoved
<1>2. CASE ~Has(call[c].new)
  <2> DEFINE got == Within(call[c].old, call[c].start, call[c].end)
             a == [call[c] EXCEPT !.at = "fetched", !.got = got]
  <2>1. call' = [call EXCEPT ![c] = a] /\ UNCHANGED <<cache, buried>>
    BY <1>2 DEF Merge
  <2>2. got \in Bars /\ DOMAIN got = {t \in DOMAIN call[c].old : call[c].start <= t /\ t < call[c].end}
    <3>1. call[c].start \in Nat /\ call[c].end \in Nat /\ call[c].old \in Bars
      BY CallFacts
    <3> QED  BY <3>1, WithinBars
  <2> HIDE DEF got
  <2>3. /\ a \in LoadCalls /\ a.at = "fetched" /\ a.got = got /\ a.since = call[c].since
        /\ a.start = call[c].start /\ a.end = call[c].end
    BY <2>2, CallFacts DEF LoadCalls, Stages
  <2> HIDE DEF a
  <2>4. Gathered(a, a.end, DOMAIN a.got)
    <3> SUFFICES ASSUME NEW t \in Nat, a.start <= t, t < a.end, t < a.since, t \notin missing
                 PROVE  t \in DOMAIN got
      BY <2>3 DEF Gathered
    <3>1. t \in Collected(call[c])
      BY <1>0, <2>3 DEF Gathered
    <3> QED  BY <1>2, <2>2, <2>3, <3>1 DEF Collected, Has
  <2>5. Loading(c, a, cacheLock', cache', now, buried')
    BY <2>3, <2>4, CallFacts DEF Loading, UnderLock, Collecting, Answering, Writing
  <2> QED  BY <1>0, <2>1, <2>5, CallFacts, CallMoved
<1> QED  BY <1>1, <1>2

(* A call that ends, is given up or dies.                                   *)
LEMMA EndsKeep ==
  ASSUME BarInv, NEW c \in Loaders, call' = [call EXCEPT ![c] = Idle],
         cacheLock' = cacheLock \/ cacheLock = c, UNCHANGED <<missing, now, cache, knownEmpty, buried>>
  PROVE  BarInv'
<1>1. Loading(c, Idle, cacheLock', cache', now, buried')
  BY CallFacts, Resting
<1> QED  BY <1>1, CallFacts, CallMoved

(* The copies to the catalog.                                               *)
LEMMA CopyKeeps ==
  ASSUME BarInv, NEW c \in Loaders, call[c].at \in Copying, NEW next \in {"rewrites", "fetched"}, To(c, next),
         UNCHANGED <<missing, now, cache, knownEmpty, cacheLock, buried>>
  PROVE  BarInv'
<1>1. PICK a \in LoadCalls :
        /\ call' = [call EXCEPT ![c] = a] /\ a.at = next
        /\ a.start = call[c].start /\ a.end = call[c].end /\ a.force = call[c].force
        /\ a.since = call[c].since /\ a.old = call[c].old /\ a.new = call[c].new /\ a.got = call[c].got
  BY Going DEF Stages, Copying
<1>2. Gathered(a, a.end, DOMAIN a.got)
  BY <1>1, CallFacts DEF Loading, Answering, Gathered
<1>3. Loading(c, a, cacheLock', cache', now, buried')
  BY <1>1, <1>2, CallFacts DEF Loading, UnderLock, Collecting, Answering, Writing
<1> QED  BY <1>1, <1>3, CallFacts, CallMoved

LEMMA ExportKeeps == ASSUME BarInv, NEW c \in Loaders, Export(c)  PROVE BarInv'
<1> DEFINE a == [Idle EXCEPT !.at = "exports", !.old = cache, !.since = now]
<1>1. call' = [call EXCEPT ![c] = a] /\ UNCHANGED <<missing, now, cache, knownEmpty, cacheLock, buried>>
  BY DEF Export
<1>2. a \in LoadCalls /\ a.at = "exports" /\ a.since = now /\ a.start = 0 /\ a.end = 0
  BY NoBarsAre, CallFacts DEF Idle, LoadCalls, Stages, Copying
<1> HIDE DEF a
<1>3. Gathered(a, a.end, DOMAIN a.got)
  BY <1>2 DEF Gathered
<1>4. Loading(c, a, cacheLock', cache', now, buried')
  BY <1>1, <1>2, <1>3, CallFacts DEF Loading, UnderLock, Collecting, Answering, Writing
<1> QED  BY <1>1, <1>4, CallFacts, CallMoved

LEMMA BarInvNext == BarInv /\ [BarNext]_barVars => BarInv'
<1> SUFFICES ASSUME BarInv, [BarNext]_barVars PROVE BarInv'
  OBVIOUS
<1>1. ASSUME NEW c \in Loaders, NEW r \in Requests, NEW force \in BOOLEAN, Load(c, r[1], r[2], force)
      PROVE  BarInv'
  <2>1. r[1] \in Nat /\ r[2] \in Nat
    BY BarAssumption
  <2> QED  BY <1>1, <2>1, LoadKeeps
<1>2. ASSUME NEW c \in Loaders, LoadStep(c)  PROVE BarInv'
  <2>1. CASE Copies(c)
    BY <2>1, CopyKeeps DEF Copies, Copying
  <2>2. CASE Rewrites(c)
    BY <2>2, CopyKeeps DEF Rewrites, Copying
  <2>3. CASE HandsOver(c)
    BY <2>3, EndsKeep DEF HandsOver
  <2> QED  BY <1>2, <2>1, <2>2, <2>3, LocksKeeps, FetchWindowKeeps, FetchHeadKeeps, FetchGapsKeeps,
              FetchTailKeeps, MergeKeeps DEF LoadStep
<1>3. ASSUME NEW c \in Loaders, Fails(c) \/ Dies(c)  PROVE BarInv'
  BY <1>3, EndsKeep DEF Fails, Dies
<1>4. ASSUME NEW c \in Loaders, CopyFails(c)  PROVE BarInv'
  BY <1>4, CopyKeeps DEF CopyFails, Copying
<1>5. CASE UNCHANGED barVars
  BY <1>5 DEF barVars, BarInv, FileSound, HolesEmpty, Loading, UnderLock, Collecting, Answering, Gathered
<1> QED  BY <1>1, <1>2, <1>3, <1>4, <1>5, ExportKeeps, BarTicks DEF BarNext

LEMMA BarInvariance == BarSpec => []BarInv
BY BarInvInit, BarInvNext, PTL DEF BarSpec

-----------------------------------------------------------------------------
(* Nothing that was fetched is lost or spoilt, for any number of loaders,   *)
(* requests and bars, and wherever a writer dies: data.load_bybit_bars,     *)
(* which reads, merges and writes under _cache_lock.                        *)
THEOREM FetchedIsAlwaysKept == BarSpec => FetchedIsKept
<1>1. ASSUME BarInv, [BarNext]_barVars, NEW t \in DOMAIN cache
      PROVE  t \in DOMAIN cache' /\ (cache[t] = "final" => cache'[t] = "final")
  <2>1. CASE UNCHANGED cache
    BY <2>1
  <2>2. ASSUME NEW c \in Loaders, Merge(c)
        PROVE  t \in DOMAIN cache' /\ (cache[t] = "final" => cache'[t] = "final")
    <3>1. call[c].at = "merge" /\ (cache' = Merged(c) \/ UNCHANGED cache)
      BY <2>2 DEF Merge
    <3>2. t \in DOMAIN Merged(c) /\ (cache[t] = "final" => Merged(c)[t] = "final")
      BY <1>1, <3>1, MergeKeepsBars
    <3> QED  BY <2>1, <3>1, <3>2
  <2>3. UNCHANGED cache \/ \E c \in Loaders : Merge(c)
    BY <1>1 DEF barVars, BarNext, LoadStep, Load, Locks, FetchWindow, FetchHead, FetchGaps, FetchTail, Copies,
                Rewrites, HandsOver, Fails, CopyFails, Export, Dies, Ticks
  <2> QED  BY <2>1, <2>2, <2>3
<1>2. BarInv /\ [BarNext]_barVars =>
        [\A t \in DOMAIN cache : t \in DOMAIN cache' /\ (cache[t] = "final" => cache'[t] = "final")]_barVars
  BY <1>1
<1> QED  BY <1>2, BarInvariance, PTL DEF BarSpec, FetchedIsKept

-----------------------------------------------------------------------------
(* The catalog.  While no copy has failed and no two have waited at once,   *)
(* there is at most one copier, what it copies is the file, and but for     *)
(* what it has still to copy the catalog has the bars of the file.          *)
Calm == faults = 0 /\ ~contended
Copier(c) == call[c].at \in Copying

CatalogInv ==
  /\ faults \in Nat /\ contended \in BOOLEAN /\ catalog \in Bars
  /\ Calm =>
       /\ \A c, d \in Loaders : Copier(c) /\ Copier(d) => c = d
       /\ \A c \in Loaders : Copier(c) => call[c].old = cache /\ DOMAIN catalog \subseteq DOMAIN cache
       /\ (\A c \in Loaders : ~Copier(c)) => DOMAIN catalog = DOMAIN cache

LEMMA CatalogInvInit == BarInit => CatalogInv
<1> SUFFICES ASSUME BarInit PROVE CatalogInv
  OBVIOUS
<1>1. \A c \in Loaders : call[c] = Idle /\ Idle.at = "idle"
  BY DEF BarInit, Idle
<1> QED  BY <1>1, NoBarsAre DEF BarInit, CatalogInv, Copier, Copying

(* A step of a call that copies neither before nor after, and leaves the    *)
(* bars of both as they are.                                                *)
LEMMA NotCopying ==
  ASSUME BarInv, CatalogInv, NEW c \in Loaders, ~Copier(c), NEW a, a.at \notin Copying,
         call' = [call EXCEPT ![c] = a], UNCHANGED <<faults, contended, catalog, cache>>
  PROVE  CatalogInv'
<1>1. call'[c] = a /\ \A d \in Loaders \ {c} : call'[d] = call[d]
  BY DEF BarInv
<1>2. ~Copier(c)' /\ \A d \in Loaders \ {c} : Copier(d)' <=> Copier(d)
  BY <1>1 DEF Copier
<1>3. \A d \in Loaders : Copier(d)' <=> Copier(d)
  BY <1>2
<1>4. Calm' <=> Calm
  BY DEF Calm
<1>5. Calm => \A d \in Loaders : Copier(d)' => call'[d].old = cache'
  BY <1>1, <1>2 DEF CatalogInv
<1> QED  BY <1>3, <1>4, <1>5 DEF CatalogInv

(* Once a copy has failed or a process died, nothing more is claimed.       *)
LEMMA Failed ==
  ASSUME CatalogInv, faults' = faults + 1, UNCHANGED <<contended, catalog>>
  PROVE  CatalogInv'
BY DEF CatalogInv, Calm

(* A call begins to copy the file, alone or not.                            *)
LEMMA BeginsToCopy ==
  ASSUME BarInv, CatalogInv, NEW c \in Loaders, ~Copier(c), NEW a, a.at \in Copying, a.old = cache',
         call' = [call EXCEPT ![c] = a], contended' = (contended \/ OtherCopies(c)),
         UNCHANGED <<faults, catalog>>, DOMAIN cache \subseteq DOMAIN cache'
  PROVE  CatalogInv'
<1>1. call'[c] = a /\ \A d \in Loaders \ {c} : call'[d] = call[d]
  BY DEF BarInv
<1>2. Copier(c)' /\ \A d \in Loaders \ {c} : Copier(d)' <=> Copier(d)
  BY <1>1 DEF Copier
<1>3. ASSUME Calm'
      PROVE  Calm /\ \A d \in Loaders \ {c} : ~Copier(d)
  BY <1>3 DEF Calm, OtherCopies, Copier, Copying, CatalogInv
<1>4. ASSUME Calm'
      PROVE  DOMAIN catalog = DOMAIN cache
  BY <1>3, <1>4 DEF CatalogInv
<1>5. contended' \in BOOLEAN
  BY DEF CatalogInv, OtherCopies
<1> QED  BY <1>1, <1>2, <1>3, <1>4, <1>5 DEF CatalogInv

(* What is appended to a catalog without gaps.                              *)
LEMMA AppendedBars ==
  ASSUME catalog \in Bars, NEW b \in Bars
  PROVE  /\ Appended(b) \in Bars
         /\ DOMAIN Appended(b) = DOMAIN catalog \cup {t \in DOMAIN b : t > LastBar(catalog)}
<1> DEFINE S == {t \in DOMAIN b : t > LastBar(catalog)}
<1>1. S \in SUBSET DOMAIN b /\ Appended(b) = Over(catalog, Restrict(b, S))
  BY DEF Appended
<1> HIDE DEF S
<1>2. Restrict(b, S) \in Bars /\ DOMAIN Restrict(b, S) = S
  BY <1>1, RestrictedBars
<1>3. Appended(b) \in Bars /\ DOMAIN Appended(b) = DOMAIN catalog \cup S
  BY <1>1, <1>2, OverBars
<1> QED  BY <1>3 DEF S

(* As many bars as from the first to the last: all of them.                 *)
LEMMA NoGaps ==
  ASSUME NEW b \in Bars, Has(b), Cardinality(DOMAIN b) = LastBar(b) - FirstBar(b) + 1
  PROVE  DOMAIN b = FirstBar(b)..LastBar(b)
<1>1. FirstBar(b) \in Nat /\ LastBar(b) \in Nat /\ FirstBar(b) <= LastBar(b)
      /\ DOMAIN b \subseteq FirstBar(b)..LastBar(b)
  BY Ends, BarsAre
<1>2. /\ IsFiniteSet(FirstBar(b)..LastBar(b))
      /\ Cardinality(FirstBar(b)..LastBar(b)) = LastBar(b) - FirstBar(b) + 1
  BY <1>1, FS_Interval
<1> QED  BY <1>1, <1>2, FS_Subset

LEMMA AppendsAll ==
  ASSUME catalog \in Bars, NEW b \in Bars, DOMAIN catalog \subseteq DOMAIN b, MayAppend(b)
  PROVE  DOMAIN Appended(b) = DOMAIN b
<1>1. Has(catalog) /\ Has(b) /\ FirstBar(b) >= FirstBar(catalog)
      /\ DOMAIN catalog = FirstBar(catalog)..LastBar(catalog)
  BY NoGaps DEF MayAppend, Has
<1>2. ASSUME NEW t \in DOMAIN b, ~(t > LastBar(catalog))  PROVE t \in DOMAIN catalog
  <2>1. t \in Nat /\ FirstBar(b) <= t /\ FirstBar(b) \in Nat /\ FirstBar(catalog) \in Nat /\ LastBar(catalog) \in Nat
    BY <1>1, Ends, BarsAre
  <2>2. FirstBar(catalog) <= t /\ t <= LastBar(catalog)
    BY <1>1, <1>2, <2>1
  <2> QED  BY <1>1, <2>1, <2>2
<1> QED  BY <1>2, AppendedBars

(* The only copier is done, and the catalog has the bars of the file.       *)
LEMMA CopyOver ==
  ASSUME BarInv, CatalogInv, NEW c \in Loaders, Copier(c), To(c, "fetched"),
         UNCHANGED <<faults, contended, cache>>, catalog' \in Bars,
         Calm => DOMAIN catalog' = DOMAIN cache
  PROVE  CatalogInv'
<1>1. PICK a \in LoadCalls : call' = [call EXCEPT ![c] = a] /\ a.at = "fetched"
  BY Going DEF Stages
<1>2. call'[c] = a /\ \A d \in Loaders \ {c} : call'[d] = call[d]
  BY <1>1 DEF BarInv
<1>3. ~Copier(c)' /\ \A d \in Loaders \ {c} : Copier(d)' <=> Copier(d)
  BY <1>1, <1>2 DEF Copier, Copying
<1>4. Calm' <=> Calm
  BY DEF Calm
<1>5. Calm => \A d \in Loaders : ~Copier(d)'
  BY <1>3 DEF CatalogInv
<1>6. faults' \in Nat /\ contended' \in BOOLEAN
  BY DEF CatalogInv
<1> QED  BY <1>4, <1>5, <1>6 DEF CatalogInv

LEMMA CatalogInvNext == BarInv /\ CatalogInv /\ [BarNext]_barVars => CatalogInv'
<1> SUFFICES ASSUME BarInv, CatalogInv, [BarNext]_barVars PROVE CatalogInv'
  OBVIOUS
<1>0. catalog \in Bars /\ faults \in Nat /\ contended \in BOOLEAN /\ cache \in Bars
  BY DEF CatalogInv, BarInv, FileSound
<1>1. ASSUME NEW c \in Loaders, NEW r \in Requests, NEW force \in BOOLEAN, Load(c, r[1], r[2], force)
      PROVE  CatalogInv'
  <2> DEFINE asked == [Idle EXCEPT !.start = r[1], !.end = r[2], !.force = force, !.since = now]
             a == IF ~force /\ Covers(cache, r[1], r[2])
                  THEN [asked EXCEPT !.at = "read", !.got = Within(cache, r[1], r[2])]
                  ELSE [asked EXCEPT !.at = "wants"]
  <2>1. call' = [call EXCEPT ![c] = a] /\ UNCHANGED <<faults, contended, catalog, cache>> /\ ~Copier(c)
    BY <1>1 DEF Load, Copier, Copying
  <2>2. a.at \in {"read", "wants"}
    BY DEF Idle
  <2> HIDE DEF a
  <2> QED  BY <2>1, <2>2, NotCopying DEF Copying
<1>2. ASSUME NEW c \in Loaders, Locks(c) \/ FetchWindow(c) \/ FetchHead(c) \/ FetchGaps(c) \/ FetchTail(c)
      PROVE  CatalogInv'
  <2>1. call[c].at \in {"wants", "window", "head", "gaps", "tail"} /\ UNCHANGED <<faults, contended, catalog, cache>>
    BY <1>2 DEF Locks, FetchWindow, FetchHead, FetchGaps, FetchTail
  <2>2. call[c] \in LoadCalls /\ ~Copier(c)
    BY <2>1, CallFacts DEF Copier, Copying
  <2>3. ASSUME NEW next \in Writing, NEW old, call' = [call EXCEPT ![c].at = next, ![c].old = old]
        PROVE  CatalogInv'
    <3> DEFINE a == [call[c] EXCEPT !.at = next, !.old = old]
    <3>1. call' = [call EXCEPT ![c] = a]
      BY <2>3
    <3>2. a.at \notin Copying
      BY <2>2, <2>3 DEF LoadCalls, Writing, Copying
    <3> HIDE DEF a
    <3> QED  BY <2>1, <2>2, <3>1, <3>2, NotCopying
  <2>4. ASSUME NEW next \in Writing, NEW bars, Gets(c, bars, next)  PROVE CatalogInv'
    <3> DEFINE over == Over(bars, call[c].new)
               a == [call[c] EXCEPT !.new = over, !.at = next]
    <3>1. call' = [call EXCEPT ![c] = a]
      BY <2>4 DEF Gets
    <3> HIDE DEF over
    <3>2. a.at \notin Copying
      BY <2>2, <2>4 DEF LoadCalls, Writing, Copying
    <3> HIDE DEF a
    <3> QED  BY <2>1, <2>2, <3>1, <3>2, NotCopying
  <2>5. ASSUME NEW next \in Writing, To(c, next)  PROVE CatalogInv'
    <3> DEFINE a == [call[c] EXCEPT !.at = next]
    <3>1. call' = [call EXCEPT ![c] = a]
      BY <2>5 DEF To
    <3>2. a.at \notin Copying
      BY <2>2, <2>5 DEF LoadCalls, Writing, Copying
    <3> HIDE DEF a
    <3> QED  BY <2>1, <2>2, <3>1, <3>2, NotCopying
  <2>6. Locks(c) => \E next \in Writing : call' = [call EXCEPT ![c].at = next, ![c].old = cache]
    BY DEF Locks, Writing
  <2>7. ~Locks(c) => \E next \in Writing : To(c, next) \/ \E bars : Gets(c, bars, next)
    BY <1>2 DEF FetchWindow, FetchHead, FetchGaps, FetchTail, Writing
  <2> QED  BY <2>3, <2>4, <2>5, <2>6, <2>7
<1>3. ASSUME NEW c \in Loaders, Merge(c)  PROVE CatalogInv'
  <2>1. call[c].at = "merge" /\ UNCHANGED <<faults, catalog>> /\ ~Copier(c) /\ call[c] \in LoadCalls
    BY <1>3, CallFacts DEF Merge, Copier, Copying
  <2>2. CASE Has(call[c].new)
    <3> DEFINE m == Merged(c)
               got == Within(m, call[c].start, call[c].end)
               next == IF Has(m) THEN "copies" ELSE "fetched"
               a == [call[c] EXCEPT !.at = next, !.old = m, !.got = got]
    <3>1. /\ cache' = m /\ call' = [call EXCEPT ![c] = a] /\ contended' = (contended \/ OtherCopies(c))
      BY <1>3, <2>2 DEF Merge
    <3>2. DOMAIN cache \subseteq DOMAIN m
      BY <2>1, MergeKeepsBars
    <3> HIDE DEF m, got
    <3>3. a.at = next /\ a.old = m
      BY <2>1 DEF LoadCalls
    <3>4. CASE Has(m)
      <4>1. a.at \in Copying
        BY <3>3, <3>4 DEF Copying
      <4> HIDE DEF a
      <4> QED  BY <2>1, <3>1, <3>2, <3>3, <4>1, BeginsToCopy
    <3>5. CASE ~Has(m)
      <4>1. a.at \notin Copying /\ DOMAIN cache' = DOMAIN cache
        BY <3>1, <3>2, <3>3, <3>5 DEF Copying, Has
      <4> HIDE DEF a
      <4>2. Calm' => Calm /\ \A d \in Loaders : ~Copier(d)
        BY <1>0, <2>1, <3>1 DEF Calm, OtherCopies, Copier, Copying
      <4>3. call'[c] = a /\ \A d \in Loaders \ {c} : call'[d] = call[d]
        BY <3>1 DEF BarInv
      <4>4. Calm' => \A d \in Loaders : ~Copier(d)'
        BY <4>1, <4>2, <4>3 DEF Copier
      <4>5. contended' \in BOOLEAN
        BY <1>0, <3>1 DEF OtherCopies
      <4> QED  BY <2>1, <4>1, <4>2, <4>4, <4>5 DEF CatalogInv
    <3> QED  BY <3>4, <3>5
  <2>3. CASE ~Has(call[c].new)
    <3> DEFINE got == Within(call[c].old, call[c].start, call[c].end)
               a == [call[c] EXCEPT !.at = "fetched", !.got = got]
    <3>1. call' = [call EXCEPT ![c] = a] /\ UNCHANGED <<cache, contended>>
      BY <1>3, <2>3 DEF Merge
    <3> HIDE DEF got
    <3>2. a.at \notin Copying
      BY <2>1 DEF LoadCalls, Copying
    <3> HIDE DEF a
    <3> QED  BY <2>1, <3>1, <3>2, NotCopying
  <2> QED  BY <2>2, <2>3
<1>4. ASSUME NEW c \in Loaders, Export(c)  PROVE CatalogInv'
  <2> DEFINE a == [Idle EXCEPT !.at = "exports", !.old = cache, !.since = now]
  <2>1. /\ call' = [call EXCEPT ![c] = a] /\ UNCHANGED <<faults, catalog, cache>> /\ ~Copier(c)
        /\ contended' = (contended \/ OtherCopies(c))
    BY <1>4 DEF Export, Copier, Copying
  <2>2. a.at \in Copying /\ a.old = cache'
    BY <2>1 DEF Idle, Copying
  <2> HIDE DEF a
  <2> QED  BY <2>1, <2>2, BeginsToCopy
<1>5. ASSUME NEW c \in Loaders, Copies(c)  PROVE CatalogInv'
  <2>1. Copier(c) /\ UNCHANGED <<faults, contended, cache>> /\ call[c].old \in Bars
    BY <1>5, CallFacts DEF Copies, Copier, Copying
  <2>2. CASE call[c].at = "copies" /\ MayAppend(call[c].old)
    <3>1. catalog' = Appended(call[c].old) /\ To(c, "fetched")
      BY <1>5, <2>2 DEF Copies
    <3>2. Calm => call[c].old = cache /\ DOMAIN catalog \subseteq DOMAIN cache
      BY <2>1 DEF CatalogInv
    <3>3. Calm => DOMAIN catalog' = DOMAIN cache
      BY <1>0, <2>1, <2>2, <3>1, <3>2, AppendsAll
    <3>4. catalog' \in Bars
      BY <1>0, <2>1, <3>1, AppendedBars
    <3> QED  BY <2>1, <3>1, <3>3, <3>4, CopyOver DEF Stages
  <2>3. CASE ~(call[c].at = "copies" /\ MayAppend(call[c].old))
    <3>1. catalog' = NoBars /\ To(c, "rewrites")
      BY <1>5, <2>3 DEF Copies
    <3>2. PICK a \in LoadCalls : call' = [call EXCEPT ![c] = a] /\ a.at = "rewrites" /\ a.old = call[c].old
      BY <3>1, Going DEF Stages, Copying
    <3>3. call'[c] = a /\ \A d \in Loaders \ {c} : call'[d] = call[d]
      BY <3>2 DEF BarInv
    <3>4. \A d \in Loaders : Copier(d)' <=> Copier(d)
      BY <2>1, <3>2, <3>3 DEF Copier, Copying
    <3>5. Calm' <=> Calm
      BY <2>1 DEF Calm
    <3>6. Calm => \A d \in Loaders : Copier(d) => call'[d].old = cache
      BY <2>1, <3>2, <3>3 DEF CatalogInv
    <3>7. Copier(c)' /\ catalog' \in Bars /\ DOMAIN catalog' \subseteq DOMAIN cache'
      BY <2>1, <3>1, <3>4, NoBarsAre
    <3> QED  BY <1>0, <2>1, <3>4, <3>5, <3>6, <3>7 DEF CatalogInv
  <2> QED  BY <2>2, <2>3
<1>6. ASSUME NEW c \in Loaders, Rewrites(c)  PROVE CatalogInv'
  <2>1. /\ Copier(c) /\ UNCHANGED <<faults, contended, cache>> /\ call[c].old \in Bars
        /\ To(c, "fetched") /\ catalog' = call[c].old
    BY <1>6, CallFacts DEF Rewrites, Copier, Copying
  <2>2. Calm => DOMAIN catalog' = DOMAIN cache
    BY <2>1 DEF CatalogInv
  <2> QED  BY <2>1, <2>2, CopyOver
<1>7. ASSUME NEW c \in Loaders, HandsOver(c) \/ Fails(c)  PROVE CatalogInv'
  <2>1. call' = [call EXCEPT ![c] = Idle] /\ UNCHANGED <<faults, contended, catalog, cache>> /\ ~Copier(c)
    BY <1>7 DEF HandsOver, Fails, Copier, Copying
  <2>2. Idle.at \notin Copying
    BY DEF Idle, Copying
  <2> QED  BY <2>1, <2>2, NotCopying
<1>8. ASSUME NEW c \in Loaders, CopyFails(c) \/ Dies(c)  PROVE CatalogInv'
  BY <1>8, Failed DEF CopyFails, Dies
<1>9. CASE Ticks
  BY <1>9 DEF Ticks, CatalogInv, Calm, Copier
<1>10. CASE UNCHANGED barVars
  BY <1>10 DEF barVars, CatalogInv, Calm, Copier
<1> QED  BY <1>1, <1>2, <1>3, <1>4, <1>5, <1>6, <1>7, <1>8, <1>9, <1>10 DEF BarNext, LoadStep

(* What a load is given is finished bars only, and every one the exchange   *)
(* had; and once the calls are over the catalog has the bars of the file,   *)
(* unless a copy failed or two were under way at once: for any number of    *)
(* loaders, requests, outages and bars.                                     *)
THEOREM BarsAlwaysSound == BarSpec => []BarsAreSound
<1>1. BarInv => AnswersAreSound
  <2> SUFFICES ASSUME BarInv PROVE AnswersAreSound
    OBVIOUS
  <2>1. ReadBarsAreFinal
    BY DEF ReadBarsAreFinal, BarInv, Loading, Answering
  <2>2. ASSUME NEW c \in Loaders, call[c].at \in {"read", "copies", "fetched"},
               NEW t \in call[c].start..call[c].end - 1, t < call[c].since, t \notin missing
        PROVE  t \in DOMAIN call[c].got
    <3>1. Gathered(call[c], call[c].end, DOMAIN call[c].got)
      BY <2>2, CallFacts DEF Loading, Answering, Copying
    <3>2. t \in Nat /\ call[c].start <= t /\ t < call[c].end
      BY <2>2, CallFacts
    <3> QED  BY <2>2, <3>1, <3>2 DEF Gathered
  <2> QED  BY <2>1, <2>2 DEF AnswersAreSound, LoadsAreComplete
<1>2. CatalogInv => CatalogFollows
  BY DEF CatalogInv, CatalogFollows, Calm, Copier, Copying
<1>3. BarSpec => []CatalogInv
  BY CatalogInvInit, CatalogInvNext, BarInvariance, PTL DEF BarSpec
<1> QED  BY <1>1, <1>2, <1>3, BarInvariance, PTL DEF BarsAreSound
=============================================================================
