-------------------------- MODULE ComposedStrategy --------------------------
(***************************************************************************)
(* A composed strategy at work (composer.ComposedStrategy): what on_bar    *)
(* does with its blocks' signals, its position and what it deferred from   *)
(* the bar before, the orders it sends, and the log of decisions that the  *)
(* trades are joined with afterwards.  The exchange is external: it takes  *)
(* the commands of a bar in their order once the handler has returned, and *)
(* between bars a resting order may fill.  So the handler sees its own     *)
(* commands' effect on the next bar only.  A size is one unit, and a price *)
(* is whether a resting order is reached.                                  *)
(***************************************************************************)
EXTENDS Integers, Sequences, FiniteSets

CONSTANTS
  AllowShort,     \* the specification allows to sell short
  TrendFilter,    \* it filters entries by the trend of a slower series
  MaxBars         \* bound: bars of the primary series
ASSUME StrategyAssumption == AllowShort \in BOOLEAN /\ TrendFilter \in BOOLEAN /\ MaxBars \in Nat

VARIABLES
  spec,       \* what the specification of the strategy says, fixed
  bar,        \* bars so far
  bias,       \* _trend_bias
  deferred,   \* _pending_entry and _pending_exit_reason
  decisions,        \* _decision_log
  out,        \* commands on their way to the exchange
  book,       \* its working orders
  position,   \* net units, and the bar of the entry that opened it
  sent,       \* every tagged order that was sent
  flips,      \* bars on which a position was closed to be turned
  stopped

strategyVars == <<spec, bar, bias, deferred, decisions, out, book, position, sent, flips, stopped>>

Sides == {"BUY", "SELL"}
Sign(side) == IF side = "BUY" THEN 1 ELSE -1
Opposite(side) == IF side = "BUY" THEN "SELL" ELSE "BUY"
Nothing == [entry |-> "none", exit |-> FALSE, saw |-> 0, at |-> 0]
Flat == [net |-> 0, of |-> 0]

StrategyInit ==
  /\ spec \in [bracket : BOOLEAN, target : BOOLEAN, limit : BOOLEAN, delay : BOOLEAN]
  /\ spec.target => spec.bracket
  /\ bar = 0 /\ bias = "none" /\ deferred = Nothing /\ decisions = <<>> /\ out = <<>>
  /\ book = {} /\ position = Flat /\ sent = {} /\ flips = {} /\ stopped = FALSE

Long == position.net > 0
Short == position.net < 0
In(side) == IF side = "BUY" THEN Long ELSE Short

-----------------------------------------------------------------------------
(* Commands.                                                                *)
CancelAll == [do |-> "cancel"]
CloseAll(tag) == [do |-> "close", tag |-> tag]
Order(kind, side, b) == [kind |-> kind, side |-> side, of |-> b]

(* An entry goes out with its target and its stop as one list, or followed  *)
(* by a stop of its own that only reduces.                                  *)
EntryOrders(side, b) ==
  LET entry == [do |-> "submit", order |-> Order("entry", side, b),
                legs |-> IF spec.target THEN {Order("sl", Opposite(side), b), Order("tp", Opposite(side), b)} ELSE {}]
      stop  == [do |-> "submit", order |-> Order("sl", Opposite(side), b), legs |-> {}]
  IN IF spec.bracket /\ ~spec.target THEN <<entry, stop>> ELSE <<entry>>

(* close_all_positions names the positions that are open when it is called. *)
ClosesOpen(tag) == IF position.net = 0 THEN <<>> ELSE <<CloseAll(tag)>>
(* Mutant: an exit leaves the working orders to themselves. *)
ExitCommandsOnly(s) == ClosesOpen(s)
ExitCommands(s) == <<CancelAll>> \o ClosesOpen(s)
(* Mutant: working orders are cancelled for a flip only. *)
EntryClearsForFlip == (IF position.net = 0 THEN <<>> ELSE <<CancelAll>>) \o ClosesOpen(0)
EntryClears == <<CancelAll>> \o ClosesOpen(0)

Decision(kind, side) == [kind |-> kind, side |-> side]
Tagged(tag, kind, side, b) == [tag |-> tag, kind |-> kind, side |-> side, at |-> b]

(* What a bar sends and logs: commands, decisions, and the orders' tags.    *)
Silence == [cmds |-> <<>>, decisions |-> decisions, sent |-> sent, flip |-> FALSE]

Exits(b) ==
  [cmds |-> ExitCommands(Len(decisions) + 1), decisions |-> Append(decisions, Decision("exit", "none")),
   sent |-> sent \cup {Tagged(Len(decisions) + 1, "exit", "none", b)}, flip |-> FALSE]

(* _submit_entry fails when no quantity or no stop price can be had, and    *)
(* the decision that was logged for it is taken back.                       *)
(* Mutant: it stays. *)
FailedStays(side) == [Silence EXCEPT !.cmds = EntryClears, !.decisions = Append(decisions, Decision("entry", side))]
FailedEntry(side) == [Silence EXCEPT !.cmds = EntryClears]

(* A position is turned only if the entry is known to go out.               *)
MayEnter(fits) == position.net = 0 \/ fits

Enters(side, fits, b) ==
  IF ~MayEnter(fits) THEN Silence
  ELSE IF ~fits THEN FailedEntry(side)
  ELSE [cmds |-> EntryClears \o EntryOrders(side, b), decisions |-> Append(decisions, Decision("entry", side)),
        sent |-> sent \cup {Tagged(Len(decisions) + 1, "entry", side, b)}, flip |-> position.net # 0]

-----------------------------------------------------------------------------
(* on_bar: first what was deferred, then the signals of this bar.  The two  *)
(* read the same portfolio.                                                 *)
Deferred(fits, b) ==
  IF ~spec.delay THEN Silence
  ELSE IF deferred.exit /\ position.net # 0 THEN Exits(b)
  ELSE IF deferred.entry # "none" /\ ~In(deferred.entry) THEN Enters(deferred.entry, fits, b)
  ELSE Silence

Permitted(signals) ==
  [long  |-> signals.long /\ ~(TrendFilter /\ bias = "bearish"),
   short |-> signals.short /\ AllowShort /\ ~(TrendFilter /\ bias = "bullish"),
   exit  |-> signals.exit /\ position.net # 0]

Wanted(p) ==
  IF p.exit THEN "exit" ELSE IF p.long /\ ~Long THEN "BUY"
  ELSE IF p.short /\ ~Short THEN "SELL" ELSE "none"

Acts(want, fits, b) ==
  CASE want = "exit" -> Exits(b) [] want \in Sides -> Enters(want, fits, b) [] OTHER -> Silence

(* Both deferrals are for the next bar alone.                               *)
Defer(want, b) ==
  IF want = "exit" THEN [entry |-> "none", exit |-> TRUE, saw |-> position.of, at |-> b]
  ELSE IF want \in Sides THEN [entry |-> want, exit |-> FALSE, saw |-> 0, at |-> b]
  ELSE Nothing
(* Mutant: an exit that found no position is kept. *)
DefersUntilUsed(want, b) ==
  IF ~spec.delay THEN Nothing
  ELSE IF deferred.exit /\ position.net = 0
  THEN [deferred EXCEPT !.entry = Defer(want, b).entry]
  ELSE Defer(want, b)
Defers(want, b) == IF spec.delay THEN Defer(want, b) ELSE Nothing

OnBar ==
  /\ ~stopped /\ out = <<>> /\ bar < MaxBars /\ bar' = bar + 1
  /\ \E long, short, exit, fits \in BOOLEAN :
       LET want == Wanted(Permitted([long |-> long, short |-> short, exit |-> exit]))
           done == IF spec.delay THEN Deferred(fits, bar') ELSE Acts(want, fits, bar')
       IN /\ out' = done.cmds /\ decisions' = done.decisions /\ sent' = done.sent
          /\ flips' = IF done.flip THEN flips \cup {bar'} ELSE flips
          /\ deferred' = Defers(want, bar')
  /\ UNCHANGED <<spec, bias, book, position, stopped>>

(* A bar of the secondary series moves the trend's bias.                    *)
OnTrendBar ==
  /\ ~stopped /\ TrendFilter /\ out = <<>> /\ bar < MaxBars
  /\ bias' \in {"bullish", "bearish"} \ {bias}
  /\ UNCHANGED <<spec, bar, deferred, decisions, out, book, position, sent, flips, stopped>>

OnStop ==
  /\ ~stopped /\ out = <<>> /\ stopped' = TRUE
  /\ out' = <<CancelAll>> \o ClosesOpen(0)
  /\ UNCHANGED <<spec, bar, bias, deferred, decisions, book, position, sent, flips>>

-----------------------------------------------------------------------------
(* The exchange.  An entry at the market fills at once, one with a limit    *)
(* rests.  An order that only reduces is refused, or rests, while flat.     *)
Entered(o) ==
  [net |-> position.net + Sign(o.side), of |-> IF position.net = 0 THEN o.of ELSE position.of]

Takes(c) ==
  CASE c.do = "cancel" -> book' = {} /\ UNCHANGED position
    [] c.do = "close"  -> position' = Flat /\ UNCHANGED book
    [] c.do = "submit" /\ c.order.kind = "entry" /\ ~spec.limit ->
         position' = Entered(c.order) /\ book' = book \cup c.legs
    [] c.do = "submit" /\ c.order.kind = "entry" /\ spec.limit ->
         UNCHANGED position /\ book' = book \cup {c.order}
    [] OTHER ->
         /\ UNCHANGED position
         /\ \/ book' = book \cup {c.order}
            \/ position.net = 0 /\ UNCHANGED book

Deliver ==
  /\ out # <<>> /\ out' = Tail(out) /\ Takes(Head(out))
  /\ UNCHANGED <<spec, bar, bias, deferred, decisions, sent, flips, stopped>>

Legs(o) == IF spec.target THEN {Order("sl", Opposite(o.side), o.of), Order("tp", Opposite(o.side), o.of)} ELSE {}

(* A resting order is reached.  A protective order only reduces, and takes  *)
(* the other one of its list with it.                                       *)
Reached ==
  /\ out = <<>> /\ ~stopped
  /\ \E o \in book :
       IF o.kind = "entry"
       THEN position' = Entered(o) /\ book' = (book \ {o}) \cup Legs(o)
       ELSE /\ position' = IF position.net * Sign(o.side) < 0 THEN Flat ELSE position
            /\ book' = {p \in book : p.kind = "entry" \/ p.of # o.of}
  /\ UNCHANGED <<spec, bar, bias, deferred, decisions, out, sent, flips, stopped>>

StrategyNext == OnBar \/ OnTrendBar \/ OnStop \/ Deliver \/ Reached
StrategySpec == StrategyInit /\ [][StrategyNext]_strategyVars

-----------------------------------------------------------------------------
(* However signals, fills and deferrals follow each other, at most one entry *)
(* is at work: a resting one or a position of one unit (_cancel_working:     *)
(* unfilled limit entries must not add up and open double positions).        *)
OneEntryAtWork ==
  out = <<>> => LET resting == {o \in book : o.kind = "entry"}
                IN Cardinality(resting) + (IF position.net < 0 THEN -position.net ELSE position.net) <= 1

(* A stop or a target rests only for the position that is open or the entry  *)
(* that may still open one: none is left to close a later position at an old *)
(* level.  Under a bracket an open position has its stop, unless the entry   *)
(* had a limit and no target, whose stop was sent to a flat book.            *)
ProtectionIsOfThePosition ==
  out = <<>> =>
    /\ \A o \in book : o.kind # "entry" =>
         \/ position.net # 0 /\ o.of = position.of
         \/ \E e \in book : e.kind = "entry" /\ e.of = o.of
    /\ spec.bracket /\ position.net # 0 /\ (spec.limit => spec.target) =>
         Order("sl", IF Long THEN "SELL" ELSE "BUY", position.of) \in book

(* What rests on the exchange fits the position: one entry at most, and no   *)
(* protection but that of the position.                                      *)
BookFitsThePosition == OneEntryAtWork /\ ProtectionIsOfThePosition

(* The decision log and the tags of the orders are one to one: a tag finds   *)
(* the decision it was made for, though a decision whose entry failed gave   *)
(* its number to the next one (_log_decision, _rollback_decision).           *)
TagsTellTheDecision ==
  /\ \A s \in sent : s.tag \in DOMAIN decisions /\ decisions[s.tag] = Decision(s.kind, s.side)
  /\ \A i \in DOMAIN decisions : Cardinality({s \in sent : s.tag = i}) = 1

(* What a trade is later told by: its orders, its protection and the reason  *)
(* in the log are those of one decision (_submit_composed_entry, on_bar).    *)
TradesAreAccountedFor == BookFitsThePosition /\ TagsTellTheDecision

(* A deferred exit closes the position it was decided for, not one that was  *)
(* opened since; except when the bar of the signal had just turned the       *)
(* position, which the signal could not see yet.                             *)
DeferredExitsHitTheirPosition ==
  [][(OnBar /\ deferred.exit /\ position.net # 0) =>
       \/ position.of = deferred.saw
       \/ deferred.at \in flips]_strategyVars
=============================================================================
