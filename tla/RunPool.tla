------------------------------- MODULE RunPool -------------------------------
(***************************************************************************)
(* What admission to AUTO promises, without rounds, flags or logs: a run   *)
(* begins only while fewer than Slots runs are under way, publishes        *)
(* strategies only while it is under way, each in a round later than the   *)
(* rounds it published before, and once over never comes back.             *)
(***************************************************************************)
EXTENDS Naturals, FiniteSets

CONSTANTS
  Runs,     \* run ids
  Slots,    \* how many may be under way at a time
  Rounds    \* the numbers a run may give its rounds

VARIABLES
  phase,      \* "new", "running" or "over", per run
  published   \* pairs <<run, round>> in the catalog

pool == <<phase, published>>

Running == {r \in Runs : phase[r] = "running"}

Init ==
  /\ phase = [r \in Runs |-> "new"]
  /\ published = {}

Begin(r) ==
  /\ phase[r] = "new"
  /\ Cardinality(Running) < Slots
  /\ phase' = [phase EXCEPT ![r] = "running"]
  /\ UNCHANGED published

Publish(r) ==
  /\ phase[r] = "running"
  /\ \E n \in Rounds :
       /\ \A p \in published : p[1] = r => p[2] < n
       /\ published' = published \cup {<<r, n>>}
  /\ UNCHANGED phase

End(r) ==
  /\ phase[r] = "running"
  /\ phase' = [phase EXCEPT ![r] = "over"]
  /\ UNCHANGED published

Next == \E r \in Runs : Begin(r) \/ Publish(r) \/ End(r)

Spec == Init /\ [][Next]_pool
=============================================================================
