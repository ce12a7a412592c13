------------------------------ MODULE CallProofs ------------------------------
(***************************************************************************)
(* Invariance proofs for the calls a thread waits for: of a model          *)
(* (LlmCall), what a run spends and what is left of a call that was given  *)
(* up, and of a killable child (GuardedSuite), what it is said to have     *)
(* answered.  A ceiling is looked at when a request is admitted and met    *)
(* when its answer is accounted, so Paid carries the reservation from the  *)
(* one to the other.  Heeds does the same for a stop, and Left for the     *)
(* processes of earlier calls; Looked is what the server's thread knows of *)
(* a child it has seen dead.                                               *)
(***************************************************************************)
EXTENDS LlmCall, GuardedSuite, SequenceTheorems, TLAPS

InFlight == {"send", "poll", "wait", "backoff"}
Asks ==
  [n : Nat, pc : {"idle", "admit", "answered"} \cup InFlight, model : Models \cup {"none"},
   max : Nat, retry : BOOLEAN, waits : Nat, reserve : Nat,
   got : {"none", "answer", "truncated"}, ceiling : BOOLEAN]

Typed ==
  /\ client \in {"api", "cli"} /\ active \in {"main", "fallback"}
  /\ high \in [Models -> Nat] /\ learned \in [Models -> Nat]
  /\ ended \in [Callers -> {"no", "stop", "hours"}]
  /\ used \in [Callers -> Nat] /\ over \in [Callers -> Nat] /\ late \in [Callers -> Nat]
  /\ ask \in [Callers -> Asks]
  /\ process \subseteq [of : Callers, n : Nat]

(* Of a call a, what its run used, and what the last answer had too much.   *)
Paid(a, u, o) ==
  /\ u <= TokenCap + o /\ (o > 0 => client = "cli")
  /\ a.pc # "idle" => a.model \in Models /\ a.max > 0 /\ ~a.ceiling
  /\ a.pc \in InFlight =>
       u < CostCap /\ u + a.reserve <= TokenCap /\ PromptBytes + a.max <= a.reserve

(* Of a call, the requests its run sent after the stop, its end, and the     *)
(* model that is active.                                                    *)
Heeds(a, l, e, m) ==
  /\ a.pc = "backoff" => a.model = "routed"
  /\ l > 0 =>
       /\ e = "stop" /\ (a.pc # "idle" => a.model # "routed")
       /\ client = "cli" => l = 1 /\ a.pc \in {"idle", "poll"}
       /\ client = "api" =>
            /\ a.pc \in {"idle", "admit", "send", "wait", "answered"} /\ l <= 2
            /\ l = 1 /\ a.pc \in {"admit", "send"} => m = "fallback" /\ a.model = "fallback"
            /\ l = 2 => /\ m = "fallback" /\ a.pc \in {"idle", "wait", "answered"}
                        /\ a.pc = "wait" => a.model = "fallback"

(* Of a process, its run's call and end.                                    *)
Left(p, a, e) ==
  /\ p.n <= a.n
  /\ \/ p.n = a.n /\ a.pc \in {"poll", "wait"}
     \/ client = "cli" /\ e = "hours" /\ (p.n = a.n => a.ceiling)

LInv ==
  /\ Typed
  /\ \A c \in Callers : Paid(ask[c], used[c], over[c]) /\ Heeds(ask[c], late[c], ended[c], active)
  /\ \A p \in process : Left(p, ask[p.of], ended[p.of])

-----------------------------------------------------------------------------
LEMMA Numbers ==
  /\ TokenCap \in Nat /\ CostCap \in Nat /\ PromptBytes \in Nat /\ PromptTokens \in Nat
  /\ Configured \in Nat /\ Scale \in Nat /\ AskCap \in Nat /\ Excess \in Nat /\ Waits \in Nat
  /\ PromptTokens <= PromptBytes /\ 0 < Configured
BY LlmAssumption

LEMMA Estimates ==
  ASSUME NEW why
  PROVE  Estimate(why) \in Nat /\ Estimate(why) <= PromptBytes
<1>1. PromptBytes \div 4 \in Nat /\ PromptBytes \div 4 <= PromptBytes
  BY Numbers
<1> QED  BY <1>1, Numbers DEF Estimate

LEMMA LInvInit == LlmInit => LInv
<1> SUFFICES ASSUME LlmInit PROVE LInv
  OBVIOUS
<1>1. NoAsk \in Asks /\ NoAsk.pc = "idle"
  BY DEF NoAsk, Asks, InFlight
<1>2. Typed
  BY <1>1 DEF LlmInit, Typed
<1>3. \A c \in Callers : Paid(ask[c], used[c], over[c]) /\ Heeds(ask[c], late[c], ended[c], active)
  BY <1>1, Numbers DEF LlmInit, Paid, Heeds, InFlight
<1> QED  BY <1>2, <1>3 DEF LInv, LlmInit

(* A step of one caller: the others stay as they were, but for the model    *)
(* that is active, which becomes the fallback and stays it.                 *)
LEMMA OneCaller ==
  ASSUME LInv, NEW c \in Callers, NEW a \in Asks, NEW u \in Nat, NEW o \in Nat, NEW l \in Nat,
         ask' = [ask EXCEPT ![c] = a], used' = [used EXCEPT ![c] = u],
         over' = [over EXCEPT ![c] = o], late' = [late EXCEPT ![c] = l],
         UNCHANGED <<client, ended>>, active' \in {active, "fallback"},
         high' \in [Models -> Nat], learned' \in [Models -> Nat],
         process' \subseteq [of : Callers, n : Nat],
         Paid(a, u, o), Heeds(a, l, ended[c], active'),
         \A p \in process' : p.of # c => p \in process,
         \A p \in process' : p.of = c => Left(p, a, ended[c])
  PROVE  LInv'
<1>1. Typed'
  BY DEF LInv, Typed
<1>2. /\ ask'[c] = a /\ used'[c] = u /\ over'[c] = o /\ late'[c] = l
      /\ \A d \in Callers \ {c} : /\ ask'[d] = ask[d] /\ used'[d] = used[d]
                                  /\ over'[d] = over[d] /\ late'[d] = late[d]
  BY DEF LInv, Typed
<1>3. ASSUME NEW d \in Callers PROVE Paid(ask[d], used[d], over[d])' /\ Heeds(ask[d], late[d], ended[d], active)'
  <2>1. CASE d = c
    BY <1>2, <2>1 DEF Paid, Heeds
  <2>2. CASE d # c
    BY <1>2, <2>2 DEF LInv, Paid, Heeds
  <2> QED  BY <2>1, <2>2
<1>4. ASSUME NEW p \in process' PROVE Left(p, ask[p.of], ended[p.of])'
  <2>1. CASE p.of = c
    BY <1>2, <1>4, <2>1 DEF Left
  <2>2. CASE p.of # c
    BY <1>2, <1>4, <2>2 DEF LInv, Typed, Left
  <2> QED  BY <2>1, <2>2
<1> QED  BY <1>1, <1>3, <1>4 DEF LInv

LEMMA CallFacts ==
  ASSUME LInv, NEW c \in Callers
  PROVE  /\ ask[c] \in Asks /\ used[c] \in Nat /\ over[c] \in Nat /\ late[c] \in Nat
         /\ ended[c] \in {"no", "stop", "hours"}
         /\ used = [used EXCEPT ![c] = used[c]] /\ over = [over EXCEPT ![c] = over[c]]
         /\ late = [late EXCEPT ![c] = late[c]]
         /\ client \in {"api", "cli"} /\ active \in {"main", "fallback"}
         /\ high \in [Models -> Nat] /\ learned \in [Models -> Nat]
         /\ process \subseteq [of : Callers, n : Nat]
         /\ Paid(ask[c], used[c], over[c]) /\ Heeds(ask[c], late[c], ended[c], active)
         /\ \A p \in process : p.of = c => Left(p, ask[c], ended[c])
BY DEF LInv, Typed

(* A call that has neither a process of its own nor ended under a ceiling   *)
(* has left none behind but of earlier calls.                               *)
LEMMA NoneOfThisCall ==
  ASSUME LInv, NEW c \in Callers, ask[c].pc \notin {"idle", "poll", "wait"},
         NEW p \in process, p.of = c
  PROVE  p.n < ask[c].n /\ client = "cli" /\ ended[c] = "hours"
<1>1. /\ Left(p, ask[c], ended[c]) /\ ~ask[c].ceiling /\ p.n \in Nat /\ ask[c].n \in Nat
  BY CallFacts DEF Paid, Asks
<1> QED  BY <1>1 DEF Left

(* The call alone changes.                                                  *)
LEMMA CallAlone ==
  ASSUME LInv, NEW c \in Callers, NEW a \in Asks, ask' = [ask EXCEPT ![c] = a],
         UNCHANGED <<client, active, high, ended, used, process, over, late>>,
         learned' \in [Models -> Nat],
         Paid(a, used[c], over[c]), Heeds(a, late[c], ended[c], active),
         \A p \in process : p.of = c => Left(p, a, ended[c])
  PROVE  LInv'
<1>1. /\ Heeds(a, late[c], ended[c], active') /\ UNCHANGED <<client, ended>>
      /\ \A p \in process' : p.of = c => Left(p, a, ended[c])
  OBVIOUS
<1>2. /\ used[c] \in Nat /\ over[c] \in Nat /\ late[c] \in Nat
      /\ used' = [used EXCEPT ![c] = used[c]] /\ over' = [over EXCEPT ![c] = over[c]]
      /\ late' = [late EXCEPT ![c] = late[c]] /\ active' \in {active, "fallback"}
      /\ high' \in [Models -> Nat] /\ process' \subseteq [of : Callers, n : Nat]
      /\ \A p \in process' : p.of # c => p \in process
  BY CallFacts
<1> QED  BY <1>1, <1>2, OneCaller

-----------------------------------------------------------------------------
LEMMA Endings ==
  ASSUME LInv, NEW c \in Callers, NEW why, EndsBy(c, why)
  PROVE  LET a == [NoAsk EXCEPT !.n = ask[c].n, !.ceiling = why = "ceiling"]
         IN  /\ ask' = [ask EXCEPT ![c] = a] /\ a \in Asks
             /\ a.pc = "idle" /\ a.n = ask[c].n /\ a.ceiling = (why = "ceiling")
BY CallFacts DEF EndsBy, NoAsk, Asks, InFlight

Asked(n, m, x) == [NoAsk EXCEPT !.n = n, !.pc = "admit", !.model = m, !.max = x]
AskedAgain(n, m, x) ==
  [NoAsk EXCEPT !.n = n, !.pc = "admit", !.retry = TRUE, !.model = m, !.max = x]
IsNew(a, n, m, x) ==
  /\ a \in Asks /\ a.pc = "admit" /\ a.n = n /\ a.model = m /\ a.max = x /\ a.ceiling = FALSE

LEMMA NewCall ==
  ASSUME NEW n \in Nat, NEW m \in Models, NEW x \in Nat
  PROVE  IsNew(Asked(n, m, x), n, m, x) /\ IsNew(AskedAgain(n, m, x), n, m, x)
BY DEF Asked, AskedAgain, NoAsk, Asks, IsNew

LEMMA BeginKeeps ==
  ASSUME LInv, NEW c \in Callers, Begin(c)
  PROVE  LInv'
<1>1. At(c, "idle") /\ UNCHANGED <<client, active, high, learned, ended, used, process, over, late>>
  BY DEF Begin, sharedVars
<1>0. /\ ask[c] \in Asks /\ active \in {"main", "fallback"} /\ learned \in [Models -> Nat]
      /\ Paid(ask[c], used[c], over[c]) /\ Heeds(ask[c], late[c], ended[c], active)
      /\ late[c] \in Nat /\ \A p \in process : p.of = c => Left(p, ask[c], ended[c])
      /\ process \subseteq [of : Callers, n : Nat]
  BY CallFacts
<1>2. CASE Abort(c) # "no"
  <2> DEFINE a == [ask[c] EXCEPT !.n = @ + 1]
  <2>1. ask' = [ask EXCEPT ![c] = a]
    BY <1>2 DEF Begin
  <2>2. /\ a \in Asks /\ a.pc = "idle" /\ a.n = ask[c].n + 1 /\ ask[c].n \in Nat
    BY <1>0, <1>1 DEF At, Asks
  <2>3. Paid(a, used[c], over[c]) /\ Heeds(a, late[c], ended[c], active)
    BY <1>0, <1>1, <2>2 DEF At, Paid, Heeds, InFlight
  <2>4. \A p \in process : p.of = c => Left(p, a, ended[c])
    BY <1>0, <1>1, <2>2 DEF At, Left
  <2> HIDE DEF a
  <2> QED  BY <1>0, <1>1, <2>1, <2>2, <2>3, <2>4, CallAlone
<1>3. CASE Abort(c) = "no"
  <2>1. PICK m \in {"routed", active} :
          ask' = [ask EXCEPT ![c] = [NoAsk EXCEPT !.n = ask[c].n + 1, !.pc = "admit",
                                       !.model = m, !.max = Larger(Configured, learned[m])]]
    BY <1>3 DEF Begin
  <2>2. m \in Models /\ learned[m] \in Nat /\ ask[c].n + 1 \in Nat
    BY <1>0 DEF Models, Asks
  <2>3. Larger(Configured, learned[m]) \in Nat /\ Larger(Configured, learned[m]) > 0
    BY <2>2, Numbers DEF Larger
  <2>a. ask' = [ask EXCEPT ![c] = Asked(ask[c].n + 1, m, Larger(Configured, learned[m]))]
    BY <2>1 DEF Asked
  <2>b. IsNew(Asked(ask[c].n + 1, m, Larger(Configured, learned[m])),
              ask[c].n + 1, m, Larger(Configured, learned[m]))
    BY <2>2, <2>3, NewCall
  <2>4. PICK a \in Asks :
          /\ ask' = [ask EXCEPT ![c] = a] /\ a.pc = "admit" /\ a.n = ask[c].n + 1
          /\ a.model = m /\ a.max > 0 /\ a.ceiling = FALSE
    BY <2>3, <2>a, <2>b DEF IsNew
  <2>5. late[c] = 0
    BY <1>0, <1>1, <1>3 DEF Heeds, Abort
  <2>6. Paid(a, used[c], over[c]) /\ Heeds(a, late[c], ended[c], active)
    BY <1>0, <2>2, <2>4, <2>5 DEF Paid, Heeds, InFlight
  <2>7. \A p \in process : p.of = c => Left(p, a, ended[c])
    BY <1>0, <1>1, <2>2, <2>4 DEF At, Left, Asks
  <2> QED  BY <1>0, <1>1, <2>4, <2>6, <2>7, CallAlone
<1> QED  BY <1>2, <1>3

LEMMA AdmitKeeps ==
  ASSUME LInv, NEW c \in Callers, Admit(c)
  PROVE  LInv'
<1> USE CallFacts
<1>1. /\ ask[c].pc = "admit"
      /\ UNCHANGED <<client, active, high, learned, ended, used, process, over, late>>
  BY DEF Admit, At, sharedVars
<1>2. CASE Fits(c)
  <2> DEFINE a == [ask[c] EXCEPT !.pc = "send", !.reserve = Reserve(c)]
  <2>1. ask' = [ask EXCEPT ![c] = a]
    BY <1>2 DEF Admit, LInv, Typed
  <2>2. ask[c].model \in Models /\ ask[c].max \in Nat /\ high[ask[c].model] \in Nat
    BY <1>1 DEF Paid, Asks
  <2>3. Reserve(c) \in Nat /\ PromptBytes + ask[c].max <= Reserve(c)
    BY <2>2, Numbers DEF Reserve, Larger
  <2>4. /\ a \in Asks /\ a.pc = "send" /\ a.n = ask[c].n /\ a.model = ask[c].model
        /\ a.max = ask[c].max /\ a.ceiling = ask[c].ceiling /\ a.reserve = Reserve(c)
    BY <2>3 DEF Asks, InFlight
  <2>5. Paid(a, used[c], over[c])
    BY <1>1, <1>2, <2>3, <2>4 DEF Paid, Fits
  <2>6. Heeds(a, late[c], ended[c], active)
    BY <1>1, <2>4 DEF Heeds
  <2>7. \A p \in process : p.of = c => Left(p, a, ended[c])
    BY <1>1, <2>4, NoneOfThisCall DEF Left, Asks
  <2> HIDE DEF a
  <2> QED  BY <1>1, <2>1, <2>4, <2>5, <2>6, <2>7, CallAlone
<1>3. CASE ~Fits(c)
  <2> DEFINE a == [NoAsk EXCEPT !.n = ask[c].n, !.ceiling = "ceiling" = "ceiling"]
  <2>1. /\ ask' = [ask EXCEPT ![c] = a] /\ a \in Asks /\ a.pc = "idle" /\ a.n = ask[c].n
    BY <1>3, Endings DEF Admit
  <2>2. Paid(a, used[c], over[c]) /\ Heeds(a, late[c], ended[c], active)
    BY <1>1, <2>1 DEF Paid, Heeds, InFlight
  <2>3. \A p \in process : p.of = c => Left(p, a, ended[c])
    BY <1>1, <2>1, NoneOfThisCall DEF Left, Asks
  <2> HIDE DEF a
  <2> QED  BY <1>1, <2>1, <2>2, <2>3, CallAlone
<1> QED  BY <1>2, <1>3

(* A call in flight fails: it goes on with the fallback, or it is over and   *)
(* leaves a process only if a ceiling ended a call of the CLI.               *)
LEMMA RaisedKeeps ==
  ASSUME LInv, NEW c \in Callers, NEW why, ask[c].pc \in InFlight, Raised(c, why),
         why = "credit" => ask[c].pc = "wait",
         UNCHANGED late, process' \subseteq process,
         \A p \in process' : p.of = c /\ p.n = ask[c].n =>
           client = "cli" /\ ended[c] = "hours" /\ why = "ceiling"
  PROVE  LInv'
<1> DEFINE u == used[c] + Estimate(why)
<1>1. /\ used' = [used EXCEPT ![c] = u] /\ UNCHANGED <<client, high, learned, ended, over>>
  BY DEF Raised
<1>2. /\ ask[c] \in Asks /\ used[c] \in Nat /\ over[c] \in Nat /\ late[c] \in Nat
      /\ Paid(ask[c], used[c], over[c]) /\ Heeds(ask[c], late[c], ended[c], active)
  BY CallFacts
<1>3. ask[c].model \in Models /\ ask[c].max > 0 /\ ask[c].max \in Nat /\ ask[c].reserve \in Nat
      /\ ask[c].n \in Nat /\ ~ask[c].ceiling
  BY <1>2 DEF Paid, InFlight, Asks
<1>4. u \in Nat /\ u <= TokenCap + over[c]
  BY <1>2, <1>3, Estimates, Numbers DEF Paid
<1>5. over[c] > 0 => client = "cli"
  BY <1>2 DEF Paid
<1>6. ASSUME NEW p \in process', p.of = c
      PROVE  /\ p.n \in Nat /\ p.n <= ask[c].n
             /\ client = "cli" /\ ended[c] = "hours" /\ (p.n = ask[c].n => why = "ceiling")
  <2>1. p \in process /\ Left(p, ask[c], ended[c]) /\ p.n \in Nat
    BY <1>6, CallFacts
  <2> QED  BY <1>6, <2>1 DEF Left
<1>9. /\ late' = [late EXCEPT ![c] = late[c]] /\ over' = [over EXCEPT ![c] = over[c]]
      /\ UNCHANGED <<client, ended>>
      /\ high' \in [Models -> Nat] /\ learned' \in [Models -> Nat]
      /\ process' \subseteq [of : Callers, n : Nat]
      /\ \A p \in process' : p.of # c => p \in process
  BY <1>1, CallFacts
<1> HIDE DEF u
<1>7. CASE FallsBack(c, why)
  <2> DEFINE a == [ask[c] EXCEPT !.pc = "admit", !.model = "fallback"]
  <2>1. active' = "fallback" /\ ask' = [ask EXCEPT ![c] = a]
    BY <1>7 DEF Raised, LInv, Typed
  <2>2. /\ a \in Asks /\ a.pc = "admit" /\ a.n = ask[c].n /\ a.model = "fallback"
        /\ a.max = ask[c].max /\ a.ceiling = ask[c].ceiling
    BY <1>2 DEF Asks, Models
  <2> HIDE DEF a
  <2>3. Paid(a, u, over[c])
    BY <1>3, <1>4, <1>5, <2>2 DEF Paid, Models, InFlight
  <2>4. ask[c].pc = "wait" /\ ask[c].model # "fallback"
    BY <1>7 DEF FallsBack
  <2>5. Heeds(a, late[c], ended[c], active')
    BY <1>1, <1>2, <2>1, <2>2, <2>4, CallFacts DEF Heeds
  <2>6. \A p \in process' : p.of = c => Left(p, a, ended[c])
    BY <1>6, <1>7, <2>2 DEF Left, FallsBack
  <2> QED  BY <1>1, <1>2, <1>4, <1>9, <2>1, <2>2, <2>3, <2>5, <2>6, OneCaller
<1>8. CASE ~FallsBack(c, why)
  <2> DEFINE a == [NoAsk EXCEPT !.n = ask[c].n, !.ceiling = why = "ceiling"]
  <2>1. UNCHANGED active /\ EndsBy(c, why)
    BY <1>8 DEF Raised
  <2>2. /\ ask' = [ask EXCEPT ![c] = a] /\ a \in Asks
        /\ a.pc = "idle" /\ a.n = ask[c].n /\ a.ceiling = (why = "ceiling")
    BY <2>1, Endings
  <2> HIDE DEF a
  <2>3. Paid(a, u, over[c])
    BY <1>4, <1>5, <2>2 DEF Paid, InFlight
  <2>4. Heeds(a, late[c], ended[c], active')
    BY <1>1, <1>2, <2>1, <2>2, CallFacts DEF Heeds
  <2>5. \A p \in process' : p.of = c => Left(p, a, ended[c])
    BY <1>6, <2>2 DEF Left
  <2> QED  BY <1>1, <1>2, <1>4, <1>9, <2>1, <2>2, <2>3, <2>4, <2>5, OneCaller
<1> QED  BY <1>7, <1>8

LEMMA SendKeeps ==
  ASSUME LInv, NEW c \in Callers, Send(c)
  PROVE  LInv'
<1>0. /\ ask[c] \in Asks /\ late[c] \in Nat /\ client \in {"api", "cli"}
      /\ Paid(ask[c], used[c], over[c]) /\ Heeds(ask[c], late[c], ended[c], active)
      /\ process \subseteq [of : Callers, n : Nat] /\ ask[c].pc = "send"
  BY CallFacts DEF Send, At
<1>1. \A p \in process : p.of = c => p.n < ask[c].n /\ client = "cli" /\ ended[c] = "hours"
  BY <1>0, NoneOfThisCall
<1>2. CASE Routed(c) /\ Abort(c) # "no"
  <2>1. Raised(c, Abort(c)) /\ UNCHANGED <<process, late>>
    BY <1>2 DEF Send
  <2>2. Abort(c) # "credit"
    BY DEF Abort
  <2>3. \A p \in process : p.of = c => p.n # ask[c].n
    BY <1>0, <1>1 DEF Asks
  <2>4. process' \subseteq process /\ UNCHANGED late /\ ask[c].pc \in InFlight
    BY <1>0, <2>1 DEF InFlight
  <2> QED  BY <2>1, <2>2, <2>3, <2>4, RaisedKeeps
<1>3. CASE ~(Routed(c) /\ Abort(c) # "no")
  <2>1. Sends(c)
    BY <1>3 DEF Send
  <2> DEFINE step == IF Polled(c) THEN "poll" ELSE "wait"
             a == [ask[c] EXCEPT !.pc = step]
             l == IF ended[c] = "stop" THEN late[c] + 1 ELSE late[c]
  <2>2. /\ ask' = [ask EXCEPT ![c] = a] /\ late' = [late EXCEPT ![c] = l] /\ l \in Nat
        /\ UNCHANGED <<client, active, high, learned, ended, used, over>>
    BY <1>0, <2>1 DEF Sends, AsksAt, sharedVars, LInv, Typed
  <2>3. /\ a \in Asks /\ a.pc = step /\ a.n = ask[c].n /\ a.model = ask[c].model
        /\ a.max = ask[c].max /\ a.ceiling = ask[c].ceiling /\ a.reserve = ask[c].reserve
    BY <1>0 DEF Asks, InFlight
  <2> HIDE DEF a
  <2>4. Paid(a, used[c], over[c])
    BY <1>0, <2>3 DEF Paid, InFlight
  <2>5. ended[c] = "stop" => ~Routed(c)
    BY <1>3 DEF Abort
  <2>6. Heeds(a, l, ended[c], active)
    BY <1>0, <2>3, <2>5 DEF Heeds, Routed, Polled
  <2>7. \A p \in process' : p \in process \/ (Polled(c) /\ p = [of |-> c, n |-> ask[c].n])
    <3>1. process' = IF Polled(c) THEN process \cup {Viewed(c)} ELSE process
      BY <2>1 DEF Sends
    <3>2. CASE Polled(c)
      BY <3>1, <3>2 DEF Viewed, Polled, Routed
    <3>3. CASE ~Polled(c)
      BY <3>1, <3>3 DEF Polled, Routed
    <3> QED  BY <3>2, <3>3
  <2>8. \A p \in process' : p.of = c => Left(p, a, ended[c])
    BY <1>0, <1>1, <2>3, <2>7 DEF Left, Asks
  <2>9. process' \subseteq [of : Callers, n : Nat] /\ \A p \in process' : p.of # c => p \in process
    BY <1>0, <2>7 DEF Asks
  <2>a. Heeds(a, l, ended[c], active') /\ UNCHANGED <<client, ended>>
    BY <2>2, <2>6
  <2> HIDE DEF l, step
  <2>b. /\ used[c] \in Nat /\ over[c] \in Nat
        /\ used' = [used EXCEPT ![c] = used[c]] /\ over' = [over EXCEPT ![c] = over[c]]
        /\ active' \in {active, "fallback"}
        /\ high' \in [Models -> Nat] /\ learned' \in [Models -> Nat]
    BY <2>2, CallFacts
  <2> QED  BY <2>2, <2>3, <2>4, <2>8, <2>9, <2>a, <2>b, OneCaller
<1> QED  BY <1>2, <1>3

(* A call that is looked at while it is in flight has met no ceiling but    *)
(* that of its hours.                                                       *)
LEMMA OnlyHours ==
  ASSUME LInv, NEW c \in Callers, ask[c].pc \in InFlight, Abort(c) = "ceiling"
  PROVE  ended[c] = "hours"
<1>1. /\ ask[c] \in Asks /\ used[c] \in Nat /\ Paid(ask[c], used[c], over[c])
      /\ ended[c] \in {"no", "stop", "hours"}
  BY CallFacts
<1>2. ask[c].max > 0 /\ ask[c].max \in Nat /\ ask[c].reserve \in Nat
  BY <1>1 DEF Paid, InFlight, Asks
<1>3. used[c] < CostCap /\ used[c] < TokenCap
  BY <1>1, <1>2, Numbers DEF Paid
<1> QED  BY <1>1, <1>3, Numbers DEF Abort

(* What is killed of a call in flight leaves only what a ceiling leaves.    *)
LEMMA CutOff ==
  ASSUME LInv, NEW c \in Callers
  PROVE  /\ Kill(c) => process' \subseteq process
                       /\ \A p \in process' : p.of = c => p.n # ask[c].n
         /\ \A why : KillsFor(c, why) =>
              process' \subseteq process /\ ((why = "ceiling" /\ ~Routed(c)) \/ Kill(c))
BY DEF Kill, KillsFor

LEMMA PollKeeps ==
  ASSUME LInv, NEW c \in Callers, Poll(c)
  PROVE  LInv'
<1>0. /\ ask[c] \in Asks /\ late[c] \in Nat /\ client \in {"api", "cli"}
      /\ Paid(ask[c], used[c], over[c]) /\ Heeds(ask[c], late[c], ended[c], active)
      /\ process \subseteq [of : Callers, n : Nat]
      /\ \A p \in process : p.of = c => Left(p, ask[c], ended[c])
      /\ ask[c].pc \in {"poll", "wait"} /\ Polled(c) /\ UNCHANGED late
  BY CallFacts DEF Poll
<1>1. CASE /\ Abort(c) = "no" /\ AsksAt(c, "wait")
           /\ UNCHANGED <<sharedVars, ended, used, process, over>>
  <2> DEFINE a == [ask[c] EXCEPT !.pc = "wait"]
  <2>1. /\ ask' = [ask EXCEPT ![c] = a] /\ learned' \in [Models -> Nat]
        /\ UNCHANGED <<client, active, high, ended, used, process, over, late>>
    BY <1>0, <1>1, CallFacts DEF AsksAt, sharedVars
  <2>2. /\ a \in Asks /\ a.pc = "wait" /\ a.n = ask[c].n /\ a.model = ask[c].model
        /\ a.max = ask[c].max /\ a.ceiling = ask[c].ceiling /\ a.reserve = ask[c].reserve
    BY <1>0 DEF Asks, InFlight
  <2> HIDE DEF a
  <2>3. late[c] = 0
    BY <1>0, <1>1 DEF Abort, Heeds
  <2>4. Paid(a, used[c], over[c]) /\ Heeds(a, late[c], ended[c], active)
    BY <1>0, <2>2, <2>3 DEF Paid, Heeds, InFlight
  <2>5. \A p \in process : p.of = c => Left(p, a, ended[c])
    BY <1>0, <2>2 DEF Left
  <2> QED  BY <2>1, <2>2, <2>4, <2>5, CallAlone
<1>2. CASE Abort(c) # "no" /\ Raised(c, Abort(c)) /\ KillsFor(c, Abort(c))
  <2>1. Abort(c) # "credit" /\ ask[c].pc \in InFlight
    BY <1>0 DEF Abort, InFlight
  <2>2. process' \subseteq process /\ ((Abort(c) = "ceiling" /\ ~Routed(c)) \/ Kill(c))
    BY <1>2, CutOff
  <2>3. CASE Abort(c) = "ceiling" /\ ~Routed(c)
    <3>1. client = "cli" /\ ended[c] = "hours"
      BY <1>0, <2>1, <2>3, OnlyHours DEF Polled
    <3> QED  BY <1>0, <1>2, <2>1, <2>2, <2>3, <3>1, RaisedKeeps
  <2>4. CASE Kill(c)
    <3>1. \A p \in process' : p.of = c => p.n # ask[c].n
      BY <2>4, CutOff
    <3> QED  BY <1>0, <1>2, <2>1, <2>2, <3>1, RaisedKeeps
  <2> QED  BY <2>2, <2>3, <2>4
<1> QED  BY <1>1, <1>2 DEF Poll

LEMMA DeadlineKeeps ==
  ASSUME LInv, NEW c \in Callers, Deadline(c)
  PROVE  LInv'
<1>1. /\ ask[c].pc \in InFlight /\ Raised(c, "deadline") /\ UNCHANGED late
      /\ KillsFor(c, "deadline")
  BY DEF Deadline, At, InFlight
<1>2. process' \subseteq process /\ Kill(c)
  BY <1>1, CutOff
<1>3. \A p \in process' : p.of = c => p.n # ask[c].n
  BY <1>2, CutOff
<1> QED  BY <1>1, <1>2, <1>3, RaisedKeeps

LEMMA RefusedKeeps ==
  ASSUME LInv, NEW c \in Callers, Refused(c)
  PROVE  LInv'
<1>1. PICK why : Raised(c, why)
  BY DEF Refused
<1>2. /\ ask[c].pc = "wait" /\ Kill(c) /\ UNCHANGED late
  BY DEF Refused, At
<1>3. process' \subseteq process /\ \A p \in process' : p.of = c => p.n # ask[c].n
  BY <1>2, CutOff
<1>4. ask[c].pc \in InFlight
  BY <1>2 DEF InFlight
<1> QED  BY <1>1, <1>2, <1>3, <1>4, RaisedKeeps

LEMMA RateLimitedKeeps ==
  ASSUME LInv, NEW c \in Callers, RateLimited(c)
  PROVE  LInv'
<1>0. /\ ask[c] \in Asks /\ late[c] \in Nat /\ client \in {"api", "cli"}
      /\ Paid(ask[c], used[c], over[c]) /\ Heeds(ask[c], late[c], ended[c], active)
      /\ process \subseteq [of : Callers, n : Nat]
      /\ \A p \in process : p.of = c => Left(p, ask[c], ended[c])
      /\ ask[c].pc = "wait" /\ ask[c].pc \in InFlight /\ UNCHANGED late /\ Kill(c)
  BY CallFacts DEF RateLimited, At, InFlight
<1>1. process' \subseteq process /\ \A p \in process' : p.of = c => p.n # ask[c].n
  BY <1>0, CutOff
<1>2. CASE Routed(c) /\ ask[c].waits < Waits
  <2> DEFINE w == ask[c].waits + 1
             a == [ask[c] EXCEPT !.pc = "backoff", !.waits = w]
  <2>7. w \in Nat
    BY <1>0 DEF Asks
  <2>1. /\ ask' = [ask EXCEPT ![c] = a] /\ learned' \in [Models -> Nat] /\ high' \in [Models -> Nat]
        /\ UNCHANGED <<client, active, ended>>
        /\ used' = [used EXCEPT ![c] = used[c]] /\ over' = [over EXCEPT ![c] = over[c]]
        /\ late' = [late EXCEPT ![c] = late[c]] /\ used[c] \in Nat /\ over[c] \in Nat
    BY <1>0, <1>2, CallFacts DEF RateLimited, WaitedOut, sharedVars
  <2> HIDE DEF w
  <2>2. /\ a \in Asks /\ a.pc = "backoff" /\ a.n = ask[c].n /\ a.model = ask[c].model
        /\ a.max = ask[c].max /\ a.ceiling = ask[c].ceiling /\ a.reserve = ask[c].reserve
    BY <1>0, <2>7 DEF Asks, InFlight
  <2> HIDE DEF a
  <2>3. ask[c].model = "routed" /\ late[c] = 0
    BY <1>0, <1>2 DEF Routed, Heeds
  <2>4. Paid(a, used[c], over[c]) /\ Heeds(a, late[c], ended[c], active')
    BY <1>0, <2>1, <2>2, <2>3 DEF Paid, Heeds, InFlight
  <2>5. \A p \in process' : p.of = c => Left(p, a, ended[c])
    BY <1>0, <1>1, <2>2 DEF Left
  <2>6. /\ active' \in {active, "fallback"} /\ process' \subseteq [of : Callers, n : Nat]
        /\ \A p \in process' : p.of # c => p \in process
    BY <1>0, <1>1, <2>1
  <2> QED  BY <1>0, <2>1, <2>2, <2>4, <2>5, <2>6, OneCaller
<1>3. CASE ~(Routed(c) /\ ask[c].waits < Waits)
  <2>1. Raised(c, "limited")
    BY <1>3 DEF RateLimited
  <2> QED  BY <1>0, <1>1, <2>1, RaisedKeeps
<1> QED  BY <1>2, <1>3

LEMMA WakeKeeps ==
  ASSUME LInv, NEW c \in Callers, Wake(c)
  PROVE  LInv'
<1>0. /\ ask[c] \in Asks /\ late[c] \in Nat /\ client \in {"api", "cli"}
      /\ Paid(ask[c], used[c], over[c]) /\ Heeds(ask[c], late[c], ended[c], active)
      /\ process \subseteq [of : Callers, n : Nat]
      /\ \A p \in process : p.of = c => Left(p, ask[c], ended[c])
      /\ ask[c].pc = "backoff" /\ ask[c].pc \in InFlight /\ UNCHANGED <<process, late>>
  BY CallFacts DEF Wake, At, InFlight
<1>1. \A p \in process : p.of = c => p.n # ask[c].n
  BY <1>0, NoneOfThisCall DEF Asks
<1>2. CASE Abort(c) = "no"
  <2> DEFINE a == [ask[c] EXCEPT !.pc = "send"]
  <2>1. /\ ask' = [ask EXCEPT ![c] = a] /\ learned' \in [Models -> Nat]
        /\ UNCHANGED <<client, active, high, ended, used, process, over, late>>
    BY <1>0, <1>2, CallFacts DEF Wake, AsksAt, sharedVars
  <2>2. /\ a \in Asks /\ a.pc = "send" /\ a.n = ask[c].n /\ a.model = ask[c].model
        /\ a.max = ask[c].max /\ a.ceiling = ask[c].ceiling /\ a.reserve = ask[c].reserve
    BY <1>0 DEF Asks, InFlight
  <2> HIDE DEF a
  <2>3. late[c] = 0
    BY <1>0 DEF Heeds
  <2>4. Paid(a, used[c], over[c]) /\ Heeds(a, late[c], ended[c], active)
    BY <1>0, <2>2, <2>3 DEF Paid, Heeds, InFlight
  <2>5. \A p \in process : p.of = c => Left(p, a, ended[c])
    BY <1>0, <1>1, <2>2 DEF Left
  <2> QED  BY <2>1, <2>2, <2>4, <2>5, CallAlone
<1>3. CASE Abort(c) # "no"
  <2>1. Raised(c, Abort(c)) /\ Abort(c) # "credit"
    BY <1>3 DEF Wake, Abort
  <2> QED  BY <1>0, <1>1, <2>1, RaisedKeeps
<1> QED  BY <1>2, <1>3

LEMMA AnsweredKeeps ==
  ASSUME LInv, NEW c \in Callers, Answered(c)
  PROVE  LInv'
<1>0. /\ ask[c] \in Asks /\ late[c] \in Nat /\ client \in {"api", "cli"}
      /\ used[c] \in Nat /\ over[c] \in Nat /\ high \in [Models -> Nat]
      /\ Paid(ask[c], used[c], over[c]) /\ Heeds(ask[c], late[c], ended[c], active)
      /\ process \subseteq [of : Callers, n : Nat] /\ learned \in [Models -> Nat]
      /\ \A p \in process : p.of = c => Left(p, ask[c], ended[c])
      /\ ask[c].pc = "wait" /\ UNCHANGED <<client, active, learned, ended, late>> /\ Kill(c)
      /\ late' = [late EXCEPT ![c] = late[c]]
  BY CallFacts DEF Answered, At
<1>1. process' \subseteq process /\ \A p \in process' : p.of = c => p.n # ask[c].n
  BY <1>0, CutOff
<1>2. PICK out \in Outputs(c), got \in {"answer", "truncated"} :
        /\ high' = [high EXCEPT ![ask[c].model] = Larger(@, out)]
        /\ used' = [used EXCEPT ![c] = @ + PromptTokens + out]
        /\ over' = [over EXCEPT ![c] = IF PromptTokens + out > ask[c].reserve
                                       THEN PromptTokens + out - ask[c].reserve ELSE 0]
        /\ ask' = [ask EXCEPT ![c].pc = "answered", ![c].got = got, ![c].reserve = 0]
  BY DEF Answered
<1>3. /\ ask[c].model \in Models /\ ask[c].max \in Nat /\ ask[c].max > 0
      /\ ask[c].reserve \in Nat /\ ~ask[c].ceiling
      /\ used[c] + ask[c].reserve <= TokenCap /\ PromptBytes + ask[c].max <= ask[c].reserve
  BY <1>0 DEF Asks, Paid, InFlight
<1>4. out \in Nat /\ (client = "api" => out <= ask[c].max)
  BY <1>2, <1>3, Numbers DEF Outputs
<1> DEFINE u == used[c] + PromptTokens + out
           o == IF PromptTokens + out > ask[c].reserve
                THEN PromptTokens + out - ask[c].reserve ELSE 0
           a == [ask[c] EXCEPT !.pc = "answered", !.got = got, !.reserve = 0]
<1>5. /\ ask' = [ask EXCEPT ![c] = a] /\ used' = [used EXCEPT ![c] = u]
      /\ over' = [over EXCEPT ![c] = o]
  BY <1>2 DEF LInv, Typed
<1>6. high' \in [Models -> Nat]
  BY <1>0, <1>2, <1>3, <1>4 DEF Larger
<1>7. /\ a \in Asks /\ a.pc = "answered" /\ a.n = ask[c].n /\ a.model = ask[c].model
      /\ a.max = ask[c].max /\ a.ceiling = ask[c].ceiling
  BY <1>0, <1>2 DEF Asks, InFlight
<1> HIDE DEF a
<1>8. u \in Nat /\ o \in Nat /\ u <= TokenCap + o /\ (o > 0 => client = "cli")
  BY <1>0, <1>3, <1>4, Numbers
<1> HIDE DEF u, o
<1>9. Paid(a, u, o)
  BY <1>3, <1>7, <1>8 DEF Paid, InFlight
<1>10. Heeds(a, late[c], ended[c], active')
  BY <1>0, <1>7 DEF Heeds
<1>11. \A p \in process' : p.of = c => Left(p, a, ended[c])
  BY <1>0, <1>1, <1>7 DEF Left
<1>12. /\ active' \in {active, "fallback"} /\ process' \subseteq [of : Callers, n : Nat]
       /\ \A p \in process' : p.of # c => p \in process
       /\ learned' \in [Models -> Nat] /\ UNCHANGED <<client, ended>>
  BY <1>0, <1>1
<1> QED  BY <1>0, <1>5, <1>6, <1>7, <1>8, <1>9, <1>10, <1>11, <1>12, OneCaller

LEMMA ReturnKeeps ==
  ASSUME LInv, NEW c \in Callers, Return(c)
  PROVE  LInv'
<1>0. /\ ask[c] \in Asks /\ late[c] \in Nat /\ client \in {"api", "cli"}
      /\ active \in {"main", "fallback"} /\ learned \in [Models -> Nat]
      /\ Paid(ask[c], used[c], over[c]) /\ Heeds(ask[c], late[c], ended[c], active)
      /\ process \subseteq [of : Callers, n : Nat] /\ ask[c].pc = "answered"
      /\ UNCHANGED <<client, active, high, ended, used, process, over, late>>
  BY CallFacts DEF Return, At
<1>1. \A p \in process : p.of = c => p.n < ask[c].n /\ client = "cli" /\ ended[c] = "hours"
  BY <1>0, NoneOfThisCall
<1>2. /\ ask[c].model \in Models /\ ask[c].max \in Nat /\ ask[c].max > 0 /\ ask[c].n \in Nat
  BY <1>0 DEF Asks, Paid
<1>3. ASSUME NEW why, EndsBy(c, why), learned' \in [Models -> Nat] PROVE LInv'
  <2> DEFINE a == [NoAsk EXCEPT !.n = ask[c].n, !.ceiling = why = "ceiling"]
  <2>1. /\ ask' = [ask EXCEPT ![c] = a] /\ a \in Asks /\ a.pc = "idle" /\ a.n = ask[c].n
    BY <1>3, Endings
  <2> HIDE DEF a
  <2>2. Paid(a, used[c], over[c]) /\ Heeds(a, late[c], ended[c], active)
    BY <1>0, <2>1 DEF Paid, Heeds, InFlight
  <2>3. \A p \in process : p.of = c => Left(p, a, ended[c])
    BY <1>0, <1>1, <1>2, <2>1 DEF Left
  <2> QED  BY <1>0, <1>3, <2>1, <2>2, <2>3, CallAlone
<1>4. CASE Abort(c) # "no"
  BY <1>0, <1>3, <1>4 DEF Return
<1>5. CASE Abort(c) = "no" /\ ask[c].got = "answer"
  <2>1. learned' \in [Models -> Nat]
    BY <1>0, <1>2, <1>5 DEF Return, Larger
  <2>2. EndsBy(c, "answer")
    BY <1>5 DEF Return
  <2> QED  BY <1>3, <2>1, <2>2
<1>6. CASE Abort(c) = "no" /\ ask[c].got # "answer" /\ ~Retries(c)
  <2>1. EndsBy(c, "truncated") /\ UNCHANGED learned
    BY <1>6 DEF Return
  <2> QED  BY <1>0, <1>3, <2>1
<1>7. CASE Abort(c) = "no" /\ ask[c].got # "answer" /\ Retries(c)
  <2> DEFINE x == Smaller(ask[c].max * Scale, AskCap)
             m == IF Routed(c) THEN "routed" ELSE active
  <2>1. UNCHANGED learned /\ ask' = [ask EXCEPT ![c] = AskedAgain(ask[c].n, m, x)]
    BY <1>7 DEF Return, AskedAgain
  <2>2. m \in Models
    BY <1>0 DEF Models
  <2>3. x \in Nat /\ x > 0
    <3>1. ask[c].max * Scale \in Nat
      BY <1>2, Numbers
    <3> QED  BY <1>2, <1>7, <3>1, Numbers DEF Retries, Smaller
  <2> HIDE DEF x, m
  <2>4. IsNew(AskedAgain(ask[c].n, m, x), ask[c].n, m, x)
    BY <1>2, <2>2, <2>3, NewCall
  <2>5. PICK a \in Asks :
          /\ ask' = [ask EXCEPT ![c] = a] /\ a.pc = "admit" /\ a.n = ask[c].n
          /\ a.model = m /\ a.max > 0 /\ a.ceiling = FALSE
    BY <2>1, <2>3, <2>4 DEF IsNew
  <2>6. late[c] = 0
    BY <1>0, <1>7 DEF Heeds, Abort
  <2>7. Paid(a, used[c], over[c]) /\ Heeds(a, late[c], ended[c], active)
    BY <1>0, <2>2, <2>5, <2>6 DEF Paid, Heeds, InFlight
  <2>8. \A p \in process : p.of = c => Left(p, a, ended[c])
    BY <1>0, <1>1, <1>2, <2>5 DEF Left
  <2> QED  BY <1>0, <2>1, <2>5, <2>7, <2>8, CallAlone
<1> QED  BY <1>4, <1>5, <1>6, <1>7

-----------------------------------------------------------------------------
LEMMA EndRunKeeps ==
  ASSUME LInv, NEW c \in Callers, EndRun(c)
  PROVE  LInv'
<1>1. PICK why \in {"stop", "hours"} : ended' = [ended EXCEPT ![c] = why]
  BY DEF EndRun
<1>2. /\ UNCHANGED <<client, active, high, learned, used, ask, process, over, late>>
      /\ ended[c] = "no"
  BY DEF EndRun, sharedVars
<1>3. Typed'
  BY <1>1, <1>2 DEF LInv, Typed
<1>4. \A d \in Callers : ended[d] # "no" => ended'[d] = ended[d]
  BY <1>1, <1>2 DEF LInv, Typed
<1>5. \A d \in Callers : late[d] > 0 => ended'[d] = ended[d]
  BY <1>4 DEF LInv, Heeds
<1>6. \A d \in Callers : Paid(ask[d], used[d], over[d])' /\ Heeds(ask[d], late[d], ended[d], active)'
  BY <1>2, <1>5 DEF LInv, Paid, Heeds
<1>7. \A p \in process' : Left(p, ask[p.of], ended[p.of])'
  BY <1>2, <1>4 DEF LInv, Typed, Left
<1> QED  BY <1>3, <1>6, <1>7 DEF LInv

LEMMA LeftEndsKeeps == LInv /\ LeftEnds => LInv'
<1> SUFFICES ASSUME LInv, LeftEnds PROVE LInv'
  OBVIOUS
<1>1. /\ process' \subseteq process
      /\ UNCHANGED <<client, active, high, learned, ended, used, ask, over, late>>
  BY DEF LeftEnds, sharedVars
<1>2. Typed'
  BY <1>1 DEF LInv, Typed
<1>3. \A d \in Callers : Paid(ask[d], used[d], over[d])' /\ Heeds(ask[d], late[d], ended[d], active)'
  BY <1>1 DEF LInv, Paid, Heeds
<1>4. \A p \in process' : Left(p, ask[p.of], ended[p.of])'
  BY <1>1 DEF LInv, Left
<1> QED  BY <1>2, <1>3, <1>4 DEF LInv

LEMMA LInvNext == LInv /\ [LlmNext]_llmVars => LInv'
<1> SUFFICES ASSUME LInv, [LlmNext]_llmVars PROVE LInv'
  OBVIOUS
<1>1. ASSUME NEW c \in Callers, Worker(c) PROVE LInv'
  BY <1>1, BeginKeeps, AdmitKeeps, SendKeeps, PollKeeps, DeadlineKeeps, RefusedKeeps,
     RateLimitedKeeps, WakeKeeps, AnsweredKeeps, ReturnKeeps DEF Worker
<1>2. ASSUME NEW c \in Callers, EndRun(c) PROVE LInv'
  BY <1>2, EndRunKeeps
<1>3. CASE LeftEnds
  BY <1>3, LeftEndsKeeps
<1>4. CASE UNCHANGED llmVars
  BY <1>4 DEF llmVars, LInv, Typed, Paid, Heeds, Left
<1> QED  BY <1>1, <1>2, <1>3, <1>4 DEF LlmNext

(* What a run spent, what it sent after a stop and what it left running are *)
(* at every step as Paid, Heeds and Left say.                               *)
THEOREM LInvInvariant == LlmSpec => []LInv
<1> QED  BY LInvInit, LInvNext, PTL DEF LlmSpec

(* No request of a run, whatever other runs do to what is known of the      *)
(* models, takes its tokens past the ceiling by more than what the CLI's    *)
(* last answer had beyond its reservation (_admit_llm_budget, _call).       *)
THEOREM CeilingsHold == LlmSpec => []CeilingHolds
<1>1. LInv => CeilingHolds
  BY DEF LInv, Paid, CeilingHolds
<1> QED  BY <1>1, LInvInvariant, PTL

(* After a stop at most one more request goes out, a second one only as the *)
(* fallback for a model without credit; and a process outlives its call     *)
(* only where the end of the run's hours ended a call of the CLI            *)
(* (_poll_until_deadline, LLMDispatcher.create).                            *)
THEOREM GivenUpStaysGivenUp == LlmSpec => []GivenUpCallsAreOver
<1>1. LInv => StopStopsSpending
  <2> SUFFICES ASSUME LInv, NEW c \in Callers
               PROVE  late[c] <= 1 \/ (late[c] = 2 /\ client = "api" /\ active = "fallback")
    BY DEF StopStopsSpending
  <2>1. /\ late[c] \in Nat /\ client \in {"api", "cli"}
        /\ Heeds(ask[c], late[c], ended[c], active)
    BY CallFacts
  <2>2. CASE late[c] > 0
    <3>1. /\ client = "cli" => late[c] = 1
          /\ client = "api" => late[c] <= 2 /\ (late[c] = 2 => active = "fallback")
      BY <2>1, <2>2 DEF Heeds
    <3> QED  BY <2>1, <3>1
  <2>3. CASE ~(late[c] > 0)
    BY <2>1, <2>3
  <2> QED  BY <2>2, <2>3
<1>2. LInv => OnlyCeilingsLeaveProcesses
  BY DEF LInv, Left, OnlyCeilingsLeaveProcesses
<1>3. LInv => GivenUpCallsAreOver
  BY <1>1, <1>2 DEF GivenUpCallsAreOver
<1> QED  BY <1>3, LInvInvariant, PTL
-----------------------------------------------------------------------------
(* Guarded children.  What a child may have delivered, and what the         *)
(* server's thread knows of it once it looks at a dead child again.         *)
Outcomes == {"result", "error"}
SuiteCalls ==
  [n : Nat, pc : {"idle", "track", "wait", "empty", "drain", "verdict", "reap"},
   expired : BOOLEAN, tracked : BOOLEAN, answer : {"none", "timed out", "crashed"} \cup Outcomes]
SuiteChildren ==
  [kind : Guarded \cup {"none"},
   pc : {"dead", "setup", "run", "flush", "exit", "stage", "collect", "alone", "next", "close", "raised"},
   put : {"none"} \cup Outcomes]

ChildTyped ==
  /\ call \in SuiteCalls /\ child \in SuiteChildren /\ pipe \in Seq(Outcomes)
  /\ child.pc = "flush" => child.put \in Outcomes

(* The last look at the pipe comes after the death it was taken for.        *)
Looked ==
  /\ call.pc = "drain" => ~ChildAlive
  /\ call.pc = "verdict" /\ ~call.expired => ~ChildAlive /\ pipe = <<>>
  /\ call.answer = "crashed" /\ ~call.expired => ~ChildAlive /\ pipe = <<>>

SuiteInv == ChildTyped /\ Looked

LEMMA SuiteInvInit == SuiteInit => SuiteInv
BY EmptySeq DEF SuiteInit, SuiteInv, ChildTyped, Looked, SuiteCalls, SuiteChildren, Guarded, Outcomes, ChildAlive

(* What neither the call, its child nor the pipe sees.                      *)
LEMMA SuiteUnseen == SuiteInv /\ UNCHANGED <<call, child, pipe>> => SuiteInv'
BY DEF SuiteInv, ChildTyped, Looked, ChildAlive

LEMMA StartedCall ==
  ASSUME NEW n \in Nat
  PROVE  [n |-> n + 1, pc |-> "track", expired |-> FALSE, tracked |-> FALSE, answer |-> "none"] \in SuiteCalls
BY DEF SuiteCalls

LEMMA ServerKeeps ==
  ASSUME SuiteInv,
         (\E kind \in Guarded : StartChild(kind)) \/ ServerThread \/ Expire \/ Exit \/ Exited \/ Killed
  PROVE  SuiteInv'
<1> USE DEF SuiteInv, ChildTyped, Looked, SuiteCalls, SuiteChildren, ChildAlive
<1>1. ASSUME NEW kind \in Guarded, StartChild(kind)  PROVE SuiteInv'
  <2>1. /\ call.n \in Nat /\ pipe' = <<>> /\ <<>> \in Seq(Outcomes)
        /\ child' = [kind |-> kind, pc |-> IF kind = "suite" THEN "setup" ELSE "run", put |-> "none"]
        /\ call' = [n |-> call.n + 1, pc |-> "track", expired |-> FALSE, tracked |-> FALSE, answer |-> "none"]
    BY <1>1, EmptySeq DEF StartChild
  <2>2. call' \in SuiteCalls /\ call'.pc = "track" /\ call'.answer = "none"
    BY <2>1, StartedCall
  <2>3. child' \in SuiteChildren /\ child'.pc # "flush"
    BY <2>1
  <2> QED  BY <2>1, <2>2, <2>3
<1>2. CASE Track \/ Expire
  BY <1>2 DEF Track, Expire, childVars
<1>3. CASE Empty
  BY <1>3 DEF Empty, Goes, LastLook, childVars
<1>4. CASE Get \/ Drain
  <2>1. CASE pipe # <<>>
    <3>1. Head(pipe) \in Outcomes /\ Tail(pipe) \in Seq(Outcomes)
      BY <2>1, HeadTailProperties
    <3>2. pipe' = Tail(pipe) /\ child' = child /\ call' = [call EXCEPT !.pc = "reap", !.answer = Head(pipe)]
      BY <1>4, <2>1 DEF Get, Drain, Take
    <3> QED  BY <3>1, <3>2 DEF Outcomes
  <2>2. CASE pipe = <<>>
    <3>1. /\ pipe' = pipe /\ child' = child
          /\ \/ call' = [call EXCEPT !.pc = "empty"] /\ call.pc = "wait"
             \/ call' = [call EXCEPT !.pc = "verdict"] /\ call.pc = "drain"
      BY <1>4, <2>2 DEF Get, Drain, Goes
    <3> QED  BY <2>2, <3>1
  <2> QED  BY <2>1, <2>2
<1>5. CASE Verdict
  BY <1>5 DEF Verdict, ChildDies
<1>6. CASE Reap
  BY <1>6 DEF Reap, ReapChild, ChildDies
<1>7. CASE Exit
  BY <1>7 DEF Exit, ChildDies
<1>8. CASE Exited \/ Killed
  BY <1>8 DEF Exited, Killed, ServerGone, childVars
<1> QED  BY <1>1, <1>2, <1>3, <1>4, <1>5, <1>6, <1>7, <1>8 DEF ServerThread

LEMMA ChildKeeps ==
  ASSUME SuiteInv, ChildStep \/ BacktestRuns \/ ChildCrashes \/ BatchTimeout \/ ChildWatchdog
  PROVE  SuiteInv'
<1> USE DEF SuiteInv, ChildTyped, Looked, SuiteCalls, SuiteChildren, ChildAlive
<1>1. CASE Flush
  <2>1. pipe' = Append(pipe, child.put) /\ pipe' \in Seq(Outcomes) /\ child.pc = "flush"
    BY <1>1, AppendProperties DEF Flush, ChildReady
  <2> QED  BY <1>1, <2>1 DEF Flush, ChildReady, ChildGoes
<1>2. CASE BacktestRuns \/ Close
  <2>1. PICK what \in Outcomes : child' = [child EXCEPT !.pc = "flush", !.put = what]
    BY <1>2 DEF BacktestRuns, Close, Put, Outcomes
  <2>2. child.pc # "dead" /\ UNCHANGED <<call, pipe>>
    BY <1>2 DEF BacktestRuns, Close, ChildReady
  <2> QED  BY <2>1, <2>2
<1>3. CASE ChildExits \/ ChildCrashes \/ ChildWatchdog
  BY <1>3 DEF ChildExits, ChildCrashes, ChildWatchdog, ChildDies, ChildReady
<1>4. CASE (\E u \in Units : Collect(u)) \/ Setup \/ Submit \/ Collected \/ Alone \/ NextStage \/ BatchTimeout
  <2>1. /\ \/ child' = child
           \/ \E pc \in {"stage", "collect", "alone", "next", "close", "raised"} :
                child' = [child EXCEPT !.pc = pc]
        /\ child.pc \notin {"dead", "flush"} /\ UNCHANGED <<call, pipe>>
    BY <1>4 DEF Setup, Submit, Collect, Collected, Alone, NextStage, BatchTimeout, ChildReady, ChildGoes
  <2> QED  BY <2>1
<1> QED  BY <1>1, <1>2, <1>3, <1>4 DEF ChildStep

(* A result that was delivered before the deadline is never answered as     *)
(* "crashed" (sandbox._run_in_child): for any number of units and calls,    *)
(* the thread drains the queue once more after it has seen the child dead,  *)
(* and a dead child delivers nothing afterwards.                            *)
THEOREM DeliveredAlwaysAnswered == SuiteSpec => []DeliveredIsAnswered
<1>1. SuiteInv /\ [SuiteNext]_suiteVars => SuiteInv'
  <2>1. ASSUME NEW g \in Pools, NEW u \in Units,
               PoolStep(g, u) \/ Finishes(g, u) \/ Hangs(g, u) \/ WorkerCrashes(g, u)
        PROVE  UNCHANGED <<call, child, pipe>>
    BY <2>1 DEF PoolStep, Takes, Retires, WorkerWatchdog, Finishes, Hangs, WorkerCrashes, WorkerGoes
  <2>2. UNCHANGED suiteVars => UNCHANGED <<call, child, pipe>>
    BY DEF suiteVars
  <2> QED  BY <2>1, <2>2, SuiteUnseen, ServerKeeps, ChildKeeps DEF SuiteNext
<1>2. SuiteInv => DeliveredIsAnswered
  BY DEF SuiteInv, Looked, DeliveredIsAnswered
<1> QED  BY <1>1, <1>2, SuiteInvInit, PTL DEF SuiteSpec
=============================================================================
