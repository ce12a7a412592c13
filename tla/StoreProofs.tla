----------------------------- MODULE StoreProofs -----------------------------
(***************************************************************************)
(* Invariance proofs for the files that outlive a run: the catalog of      *)
(* strategies (StrategyCatalog) and the store of custom blocks             *)
(* (BlockStore).                                                           *)
(*                                                                         *)
(* That nothing is lost from the catalog is not inductive: a call holds    *)
(* what it read and writes it back later.  Holding says of each call what  *)
(* it may hold, and Current that what it holds is not stale: by mutual     *)
(* exclusion for the calls that own the lock, and because nothing is       *)
(* pruned while no block was deleted and no mishap happened.               *)
(***************************************************************************)
EXTENDS StrategyCatalog, BlockStore, TLAPS

HoldingOf(w) ==
  /\ w.pc = "idle" => w.op = "none"
  /\ w.pc = "lock" => w.op \in {"append", "remove"}
  /\ w.pc \in {"unlink", "save", "unregister", "register", "rebuild", "refill"}
       => w.op \in {"delete", "edit", "replace"}
  /\ w.raw \subseteq saved /\ w.cat \subseteq saved
  /\ w.op = "append" => w.spec \subseteq asked
  /\ w.op = "remove" => w.spec \subseteq saved
Holding == \A t \in Threads : HoldingOf(th[t])

CurrentOf(w) ==
  /\ w.pc # "prune"
  /\ w.pc = "filter" /\ w.known => w.names = Blocks
  /\ w.op \in {"append", "remove"} =>
       /\ w.pc \in {"names", "filter"} => w.raw = recs
       /\ w.pc = "loaded" => w.cat = recs
Calm == gone = {} /\ mishaps = {}
Current ==
  Calm =>
    /\ disk = Blocks /\ refused = {} /\ saved \ removed \subseteq recs
    /\ \A t \in Threads : CurrentOf(th[t])

CInv == CatalogTypeOK /\ Holding /\ Current

-----------------------------------------------------------------------------
LEMMA IdleCall == Idle \in Calls /\ HoldingOf(Idle) /\ CurrentOf(Idle) /\ Idle.op = "none"
BY DEF Idle, Calls, HoldingOf, CurrentOf

LEMMA CInvInit == CatalogInit => CInv
<1> SUFFICES ASSUME CatalogInit PROVE CInv
  OBVIOUS
<1> USE DEF CatalogInit
<1>1. \A t \in Threads : th[t] = Idle
  OBVIOUS
<1>2. CatalogTypeOK
  <2>1. mishaps \in SUBSET Mishaps
    BY DEF Mishaps, Doubted
  <2>2. \A t \in Threads : th[t].pc \notin {"rebuild", "refill"} /\ registrar # t
    BY <1>1, ThreadsAssumption DEF Idle
  <2> QED  BY <1>1, <2>1, <2>2, IdleCall, RequestsAssumption, ThreadsAssumption
           DEF CatalogTypeOK, Writes, Owned, Torn
<1>3. Holding
  BY <1>1, IdleCall DEF Holding
<1>4. Current
  BY <1>1, IdleCall DEF Current, Calm, Doubted
<1> QED  BY <1>2, <1>3, <1>4 DEF CInv

(* One call changes; the others hold what they held. *)
LEMMA Becomes ==
  ASSUME CInv, NEW t \in Threads, NEW w \in Calls, Become(t, w)
  PROVE  /\ th' \in [Threads -> Calls] /\ th'[t] = w
         /\ \A u \in Threads \ {t} : th'[u] = th[u]
BY DEF CInv, CatalogTypeOK, Become

(* A step that leaves file and history alone preserves CInv if the new call *)
(* is well formed, holds nothing it may not, and owns what it owned.        *)
LEMMA Private ==
  ASSUME CInv, NEW t \in Threads, NEW w \in Calls, Become(t, w), HoldingOf(w),
         Calm' => CurrentOf(w),
         w.op \in {"append", "remove"} /\ w.pc # "lock" <=> lock = t,
         w.pc \in {"rebuild", "refill"} <=> registrar = t,
         mishaps' \in SUBSET Mishaps, mishaps \subseteq mishaps',
         UNCHANGED <<recs, broken, lock, disk, registry, asked, saved, removed, gone>>,
         requests' \in 0 .. MaxRequests
  PROVE  CInv'
<1>1. /\ th' \in [Threads -> Calls] /\ th'[t] = w
      /\ \A u \in Threads \ {t} : th'[u] = th[u]
  BY Becomes
<1>2. CatalogTypeOK'
  BY <1>1 DEF CInv, CatalogTypeOK, Writes, Owned, Torn, registry
<1>3. Holding'
  BY <1>1 DEF CInv, Holding, HoldingOf
<1>4. Current'
  BY <1>1 DEF CInv, Current, Calm, CurrentOf, registry
<1> QED  BY <1>2, <1>3, <1>4 DEF CInv

(* A step on the registry in memory alone, by a call that does not write    *)
(* the file, preserves CInv if the registry is left whole or owned.         *)
LEMMA Registers ==
  ASSUME CInv, NEW t \in Threads, NEW w \in Calls, Become(t, w), HoldingOf(w),
         CurrentOf(w), w.op \notin {"append", "remove"}, lock # t,
         mem' \in SUBSET Blocks, refused' \in SUBSET Specs,
         registrar \in {Nobody, t}, registrar' \in {Nobody, t},
         registrar' = Nobody => ~Torn',
         w.pc \in {"rebuild", "refill"} <=> registrar' = t,
         mishaps' \in SUBSET Mishaps, mishaps \subseteq mishaps',
         mishaps' = {} /\ refused = {} => refused' = {},
         UNCHANGED <<recs, broken, lock, disk, asked, saved, removed, gone, requests>>
  PROVE  CInv'
<1>1. /\ th' \in [Threads -> Calls] /\ th'[t] = w
      /\ \A u \in Threads \ {t} : th'[u] = th[u]
  BY Becomes
<1>2. CatalogTypeOK'
  <2>1. \A u \in Threads : Writes(u)' <=> Owned(u)'
    BY <1>1 DEF CInv, CatalogTypeOK, Writes, Owned
  <2>2. \A u \in Threads : th'[u].pc \in {"rebuild", "refill"} <=> registrar' = u
    BY <1>1, ThreadsAssumption DEF CInv, CatalogTypeOK
  <2> QED  BY <1>1, <2>1, <2>2 DEF CInv, CatalogTypeOK
<1>3. Holding'
  BY <1>1 DEF CInv, Holding, HoldingOf
<1>4. Current'
  BY <1>1 DEF CInv, Current, Calm, CurrentOf
<1> QED  BY <1>2, <1>3, <1>4 DEF CInv

-----------------------------------------------------------------------------
LEMMA CallFacts ==
  ASSUME CInv, NEW t \in Threads
  PROVE  /\ th[t] \in Calls /\ HoldingOf(th[t])
         /\ Calm => CurrentOf(th[t])
         /\ th[t].op \in {"append", "remove"} /\ th[t].pc # "lock" <=> lock = t
         /\ th[t].pc \in {"rebuild", "refill"} <=> registrar = t
BY DEF CInv, CatalogTypeOK, Holding, Current, Writes, Owned

LEMMA RequestKeeps ==
  ASSUME CInv, NEW t \in Threads, Request(t)
  PROVE  CInv'
<1> USE CallFacts
<1>a. th[t].pc = "idle" /\ requests < MaxRequests =>
        requests + 1 \in 0 .. MaxRequests /\ lock # t /\ registrar # t
  BY RequestsAssumption DEF CInv, CatalogTypeOK, HoldingOf
<1>b. mishaps \in SUBSET Mishaps
  BY DEF CInv, CatalogTypeOK
<1>1. CASE List(t)
  <2> DEFINE w == [Idle EXCEPT !.pc = "read", !.op = "list"]
  <2>1. w \in Calls /\ HoldingOf(w) /\ CurrentOf(w) /\ w.op = "list" /\ w.pc = "read"
    BY DEF Idle, Calls, HoldingOf, CurrentOf
  <2> QED  BY <1>1, <1>a, <1>b, <2>1, Private DEF List, Call, files, blocks
<1>2. CASE Append(t)
  <2>1. PICK s \in Specs : /\ asked' = asked \cup {s}
                           /\ Call(t, [Idle EXCEPT !.pc = "lock", !.op = "append", !.spec = {s}])
    BY <1>2 DEF Append
  <2> DEFINE w == [Idle EXCEPT !.pc = "lock", !.op = "append", !.spec = {s}]
  <2>2. w \in Calls /\ CurrentOf(w) /\ w.pc = "lock" /\ w.op = "append" /\ w.spec = {s}
        /\ w.raw = {} /\ w.cat = {}
    BY DEF Idle, Calls, CurrentOf
  <2>3. /\ th' \in [Threads -> Calls] /\ th'[t] = w
        /\ \A u \in Threads \ {t} : th'[u] = th[u]
    BY <2>1, <2>2, Becomes DEF Call
  <2>4. UNCHANGED <<recs, broken, lock, disk, mem, view, registrar, refused, mishaps,
                    saved, removed, gone>>
        /\ requests' \in 0 .. MaxRequests /\ lock # t /\ registrar # t
    BY <1>2, <1>a, <2>1 DEF Append, Call, files, blocks, registry
  <2>5. CatalogTypeOK'
    BY <2>1, <2>2, <2>3, <2>4 DEF CInv, CatalogTypeOK, Writes, Owned, Torn
  <2>6. Holding'
    BY <2>1, <2>2, <2>3, <2>4 DEF CInv, Holding, HoldingOf
  <2>7. Current'
    BY <2>2, <2>3, <2>4 DEF CInv, Current, Calm, CurrentOf
  <2> QED  BY <2>5, <2>6, <2>7 DEF CInv
<1>3. CASE Remove(t)
  <2>1. PICK s \in recs : Call(t, [Idle EXCEPT !.pc = "lock", !.op = "remove", !.spec = {s}])
    BY <1>3 DEF Remove
  <2> DEFINE w == [Idle EXCEPT !.pc = "lock", !.op = "remove", !.spec = {s}]
  <2>2. s \in Specs /\ s \in saved
    BY DEF CInv, CatalogTypeOK
  <2>3. w \in Calls /\ HoldingOf(w) /\ CurrentOf(w) /\ w.pc = "lock"
    BY <2>2 DEF Idle, Calls, HoldingOf, CurrentOf
  <2> QED  BY <1>3, <1>a, <1>b, <2>1, <2>3, Private DEF Remove, Call, files, blocks
<1>4. CASE DeleteBlock(t)
  <2>1. PICK b \in Blocks, pc \in {"read", "unlink"} :
          Call(t, [Idle EXCEPT !.pc = pc, !.op = "delete", !.block = {b}])
    BY <1>4 DEF DeleteBlock
  <2> DEFINE w == [Idle EXCEPT !.pc = pc, !.op = "delete", !.block = {b}]
  <2>2. w \in Calls /\ HoldingOf(w) /\ CurrentOf(w) /\ w.op = "delete"
        /\ w.pc \in {"read", "unlink"}
    BY DEF Idle, Calls, HoldingOf, CurrentOf
  <2> QED  BY <1>4, <1>a, <1>b, <2>1, <2>2, Private DEF DeleteBlock, Call, files, blocks
<1>5. CASE EditBlock(t)
  <2>1. PICK b \in Blocks :
          Call(t, [Idle EXCEPT !.pc = "save", !.op = "edit", !.block = {b}])
    BY <1>5 DEF EditBlock
  <2> DEFINE w == [Idle EXCEPT !.pc = "save", !.op = "edit", !.block = {b}]
  <2>2. w \in Calls /\ HoldingOf(w) /\ CurrentOf(w) /\ w.op = "edit" /\ w.pc = "save"
    BY DEF Idle, Calls, HoldingOf, CurrentOf
  <2> QED  BY <1>5, <1>a, <1>b, <2>1, <2>2, Private DEF EditBlock, Call, files, blocks
<1> QED  BY <1>1, <1>2, <1>3, <1>4, <1>5 DEF Request

LEMMA LoadKeeps ==
  ASSUME CInv, NEW t \in Threads, Load(t)
  PROVE  CInv'
<1> USE CallFacts
<1>a. requests \in 0 .. MaxRequests /\ mishaps \in SUBSET Mishaps
  BY DEF CInv, CatalogTypeOK
<1>1. CASE ReadRaw(t)
  <2> DEFINE w == [th[t] EXCEPT !.pc = "names", !.raw = recs, !.bad = broken]
  <2>1. w \in Calls /\ w.op = th[t].op /\ w.pc = "names" /\ th[t].pc = "read"
    BY <1>1 DEF ReadRaw, CInv, CatalogTypeOK, Calls
  <2>2. HoldingOf(w) /\ CurrentOf(w)
    BY <2>1 DEF CInv, CatalogTypeOK, HoldingOf, CurrentOf, Calls
  <2> QED  BY <1>1, <1>a, <2>1, <2>2, Private DEF ReadRaw, files, blocks
<1>2. CASE ReadNames(t)
  <2>1. PICK known \in BOOLEAN, names \in SUBSET Blocks :
          /\ Become(t, [th[t] EXCEPT !.pc = "filter", !.known = known, !.names = names])
          /\ known => names = disk
    <3>1. CASE Become(t, [th[t] EXCEPT !.pc = "filter", !.known = TRUE, !.names = disk])
      BY <3>1 DEF CInv, CatalogTypeOK
    <3>2. CASE Become(t, [th[t] EXCEPT !.pc = "filter", !.known = FALSE])
      <4>1. [th[t] EXCEPT !.pc = "filter", !.known = FALSE]
              = [th[t] EXCEPT !.pc = "filter", !.known = FALSE, !.names = th[t].names]
        BY DEF Calls
      <4> QED  BY <3>2, <4>1 DEF Calls
    <3> QED  BY <1>2, <3>1, <3>2 DEF ReadNames
  <2> DEFINE w == [th[t] EXCEPT !.pc = "filter", !.known = known, !.names = names]
  <2>2. /\ w \in Calls /\ w.op = th[t].op /\ w.pc = "filter" /\ th[t].pc = "names"
        /\ w.raw = th[t].raw /\ w.cat = th[t].cat /\ w.spec = th[t].spec
        /\ w.known = known /\ w.names = names
    BY <1>2 DEF ReadNames, Calls
  <2>3. HoldingOf(w) /\ (Calm => CurrentOf(w))
    BY <2>1, <2>2 DEF CInv, Current, Calm, HoldingOf, CurrentOf
  <2> QED  BY <1>2, <1>a, <2>1, <2>2, <2>3, Private DEF ReadNames, files, blocks, Calm
<1>3. CASE Filter(t)
  <2> DEFINE cat == IF th[t].known THEN Valid(t) ELSE th[t].raw
  <2>0. PICK raised \in BOOLEAN :
          Become(t, [Idle EXCEPT !.op = th[t].op, !.spec = th[t].spec, !.block = th[t].block,
                       !.cat = cat,
                       !.pc = IF Prunes(t) /\ ~raised THEN "prune" ELSE "loaded"])
    BY <1>3 DEF Filter
  <2> DEFINE pc == IF Prunes(t) /\ ~raised THEN "prune" ELSE "loaded"
             w == [Idle EXCEPT !.op = th[t].op, !.spec = th[t].spec, !.block = th[t].block,
                     !.cat = cat, !.pc = pc]
  <2>1. /\ w \in Calls /\ w.op = th[t].op /\ w.pc = pc /\ th[t].pc = "filter"
        /\ w.raw = {} /\ w.cat = cat /\ w.spec = th[t].spec
        /\ th[t].op \in {"append", "remove"} <=> lock = t
    BY <1>3 DEF Filter, Calls, Valid, Idle
  <2>a. w.pc \in {"prune", "loaded"} /\ Become(t, w)
    BY <2>0, <2>1
  <2>2. Calm' => cat = th[t].raw /\ pc = "loaded" /\ Calm
    <3> SUFFICES ASSUME Calm', th[t].known PROVE Valid(t) = th[t].raw /\ Calm
      BY <1>3 DEF Prunes, Filter, Calm
    <3>1. Calm /\ ~Torn
      BY <1>3 DEF Filter, Calm
    <3>2. refused = {} /\ th[t].names = Blocks /\ th[t].raw \subseteq Specs
      BY <2>1, <3>1 DEF CInv, Current, CurrentOf, Calls
    <3> QED  BY <3>1, <3>2, UsesAssumption DEF Valid, Passes, Torn
  <2>3. HoldingOf(w) /\ (Calm' => CurrentOf(w))
    BY <2>1, <2>2, <2>a DEF HoldingOf, CurrentOf, Valid
  <2>4. /\ UNCHANGED <<recs, broken, lock, disk, registry, asked, saved, removed, gone, requests>>
        /\ mishaps' \in SUBSET Mishaps /\ mishaps \subseteq mishaps'
    BY <1>3, <1>a DEF Filter, files, Mishaps
  <2>5. registrar # t
    BY <2>1
  <2> HIDE DEF w, pc, cat
  <2> QED  BY <1>a, <2>1, <2>a, <2>3, <2>4, <2>5, Private
<1>4. CASE Prune(t)
  <2> DEFINE w == [th[t] EXCEPT !.pc = "loaded"]
  <2>1. /\ w \in Calls /\ w.op = th[t].op /\ w.pc = "loaded" /\ th[t].pc = "prune"
        /\ w.raw = th[t].raw /\ w.cat = th[t].cat /\ w.spec = th[t].spec
    BY <1>4 DEF Prune, Calls
  <2>2. /\ th' \in [Threads -> Calls] /\ th'[t] = w
        /\ \A u \in Threads \ {t} : th'[u] = th[u]
    BY <1>4, <2>1, Becomes DEF Prune
  <2> HIDE DEF w
  <2>3. recs' \subseteq saved /\ broken' = FALSE
    BY <1>4, <2>1 DEF Prune, SaveCatalog, HoldingOf
  <2>4. CatalogTypeOK'
    BY <1>4, <2>1, <2>2, <2>3
       DEF Prune, blocks, registry, CInv, CatalogTypeOK, Writes, Owned, Torn
  <2>5. Holding'
    BY <1>4, <2>1, <2>2 DEF Prune, CInv, Holding, HoldingOf
  <2>6. ~Calm /\ gone' = gone /\ mishaps' = mishaps
    BY <1>4, <2>1 DEF CurrentOf, Prune, blocks
  <2> QED  BY <2>4, <2>5, <2>6 DEF CInv, Current, Calm
<1>5. CASE ReadRawFails(t)
  <2> DEFINE w == [th[t] EXCEPT !.pc = "loaded"]
  <2>1. /\ w \in Calls /\ w.op = th[t].op /\ w.pc = "loaded" /\ th[t].pc = "read"
        /\ w.raw = th[t].raw /\ w.cat = th[t].cat /\ w.spec = th[t].spec
        /\ th[t].op \in {"append", "remove"} <=> lock = t
        /\ registrar # t
    BY <1>5 DEF ReadRawFails, Calls
  <2>2. HoldingOf(w) /\ (Calm' => CurrentOf(w))
    BY <1>5, <2>1 DEF ReadRawFails, Writes, Calm, HoldingOf, CurrentOf
  <2>3. /\ UNCHANGED <<recs, broken, lock, disk, registry, asked, saved, removed, gone, requests>>
        /\ mishaps' \in SUBSET Mishaps /\ mishaps \subseteq mishaps' /\ Become(t, w)
    BY <1>5, <1>a DEF ReadRawFails, files, Mishaps
  <2> HIDE DEF w
  <2> QED  BY <1>a, <2>1, <2>2, <2>3, Private
<1> QED  BY <1>1, <1>2, <1>3, <1>4, <1>5 DEF Load

LEMMA LockKeeps ==
  ASSUME CInv, NEW t \in Threads, Lock(t)
  PROVE  CInv'
<1> DEFINE w == [th[t] EXCEPT !.pc = "read"]
<1>1. /\ w \in Calls /\ w.op = th[t].op /\ w.pc = "read"
      /\ w.raw = th[t].raw /\ w.cat = th[t].cat /\ w.spec = th[t].spec
      /\ w.op \in {"append", "remove"}
  BY CallFacts DEF Lock, Calls, HoldingOf
<1>2. /\ th' \in [Threads -> Calls] /\ th'[t] = w
      /\ \A u \in Threads \ {t} : th'[u] = th[u]
  BY <1>1, Becomes DEF Lock
<1>3. CatalogTypeOK'
  BY <1>1, <1>2, ThreadsAssumption
     DEF Lock, files, blocks, registry, CInv, CatalogTypeOK, Writes, Owned, Torn
<1>4. Holding'
  <2>1. HoldingOf(th[t]) /\ UNCHANGED <<asked, saved>>
    BY CallFacts DEF Lock
  <2>2. HoldingOf(w)
    BY <1>1, <2>1 DEF HoldingOf
  <2> QED  BY <1>2, <2>1, <2>2 DEF CInv, Holding, HoldingOf
<1>5. Current'
  BY <1>1, <1>2 DEF Lock, files, blocks, registry, CInv, Current, Calm, CurrentOf
<1> QED  BY <1>3, <1>4, <1>5 DEF CInv

LEMMA FinishKeeps ==
  ASSUME CInv, NEW t \in Threads, Finish(t)
  PROVE  CInv'
<1> USE CallFacts
<1>a. requests \in 0 .. MaxRequests /\ mishaps \in SUBSET Mishaps
  BY DEF CInv, CatalogTypeOK
<1>b. ASSUME Become(t, Idle)
      PROVE  /\ th' \in [Threads -> Calls] /\ th'[t] = Idle
             /\ \A u \in Threads \ {t} : th'[u] = th[u]
  BY <1>b, Becomes, IdleCall
<1>1. CASE ListDone(t)
  <2>1. Idle.pc = "idle" /\ th[t].op = "list" /\ lock # t /\ registrar # t
    BY <1>1 DEF ListDone, Idle
  <2> QED  BY <1>1, <1>a, <2>1, IdleCall, Private DEF ListDone, files, blocks
<1>2. CASE AppendSave(t)
  <2>1. /\ th[t].pc = "loaded" /\ th[t].op = "append" /\ lock = t /\ lock' = Nobody
        /\ recs' = th[t].cat \cup th[t].spec /\ saved' = saved \cup th[t].spec
        /\ broken' = FALSE /\ UNCHANGED <<disk, registry, gone, mishaps, asked, removed, requests>>
    BY <1>2 DEF AppendSave, SaveCatalog, blocks
  <2>2. th[t].spec \subseteq asked /\ th[t].cat \subseteq saved
    BY <2>1 DEF HoldingOf
  <2>3. CatalogTypeOK'
    <3>1. /\ th' \in [Threads -> Calls] /\ th'[t] = Idle
          /\ \A u \in Threads \ {t} : th'[u] = th[u]
      BY <1>2, <1>b DEF AppendSave
    <3>2. /\ recs' \in SUBSET saved' /\ saved' \in SUBSET asked' /\ removed' \in SUBSET saved'
      BY <2>1, <2>2 DEF CInv, CatalogTypeOK
    <3>3. \A u \in Threads : Writes(u)' <=> Owned(u)'
      BY <2>1, <3>1, IdleCall, ThreadsAssumption DEF CInv, CatalogTypeOK, Writes, Owned
    <3>4. registrar # t
      BY <2>1
    <3>5. Idle.pc = "idle"
      BY DEF Idle
    <3> QED  BY <2>1, <3>1, <3>2, <3>3, <3>4, <3>5 DEF CInv, CatalogTypeOK, Torn, registry
  <2>4. Holding'
    BY <1>2, <1>b, <2>1, IdleCall DEF AppendSave, CInv, Holding, HoldingOf
  <2>5. Current'
    <3> SUFFICES ASSUME Calm PROVE Current'
      BY <2>1 DEF Current, Calm
    <3>1. th[t].cat = recs
      BY <2>1 DEF CurrentOf
    <3>2. (saved \ removed \subseteq recs)'
      BY <2>1, <3>1 DEF CInv, Current
    <3>3. \A u \in Threads : CurrentOf(th[u])'
      BY <1>2, <1>b, <2>1, IdleCall DEF AppendSave, CurrentOf, CInv, CatalogTypeOK, Writes, Owned
    <3> QED  BY <2>1, <3>2, <3>3 DEF CInv, Current, Calm, registry
  <2> QED  BY <2>3, <2>4, <2>5 DEF CInv
<1>3. CASE RemoveSave(t)
  <2>1. /\ th[t].pc = "loaded" /\ th[t].op = "remove" /\ lock = t /\ lock' = Nobody
        /\ recs' = th[t].cat \ th[t].spec /\ removed' = removed \cup th[t].spec
        /\ broken' = FALSE /\ UNCHANGED <<disk, registry, gone, mishaps, asked, saved, requests>>
    BY <1>3 DEF RemoveSave, SaveCatalog, blocks
  <2>2. th[t].spec \subseteq saved /\ th[t].cat \subseteq saved
    BY <2>1 DEF HoldingOf
  <2>3. CatalogTypeOK'
    <3>1. /\ th' \in [Threads -> Calls] /\ th'[t] = Idle
          /\ \A u \in Threads \ {t} : th'[u] = th[u]
      BY <1>3, <1>b DEF RemoveSave
    <3>2. /\ recs' \in SUBSET saved' /\ saved' \in SUBSET asked' /\ removed' \in SUBSET saved'
      BY <2>1, <2>2 DEF CInv, CatalogTypeOK
    <3>3. \A u \in Threads : Writes(u)' <=> Owned(u)'
      BY <2>1, <3>1, IdleCall, ThreadsAssumption DEF CInv, CatalogTypeOK, Writes, Owned
    <3>4. registrar # t
      BY <2>1
    <3>5. Idle.pc = "idle"
      BY DEF Idle
    <3> QED  BY <2>1, <3>1, <3>2, <3>3, <3>4, <3>5 DEF CInv, CatalogTypeOK, Torn, registry
  <2>4. Holding'
    BY <1>3, <1>b, <2>1, IdleCall DEF RemoveSave, CInv, Holding, HoldingOf
  <2>5. Current'
    <3> SUFFICES ASSUME Calm PROVE Current'
      BY <2>1 DEF Current, Calm
    <3>1. th[t].cat = recs
      BY <2>1 DEF CurrentOf
    <3>2. (saved \ removed \subseteq recs)'
      BY <2>1, <3>1 DEF CInv, Current
    <3>3. \A u \in Threads : CurrentOf(th[u])'
      BY <1>3, <1>b, <2>1, IdleCall DEF RemoveSave, CurrentOf, CInv, CatalogTypeOK, Writes, Owned
    <3> QED  BY <2>1, <3>2, <3>3 DEF CInv, Current, Calm, registry
  <2> QED  BY <2>3, <2>4, <2>5 DEF CInv
<1>4. CASE DeleteChecked(t)
  <2> DEFINE w == [th[t] EXCEPT !.pc = "unlink"]
  <2>1. w \in Calls /\ HoldingOf(w) /\ CurrentOf(w) /\ w.op = "delete" /\ th[t].op = "delete"
        /\ w.pc = "unlink" /\ Idle.pc = "idle" /\ lock # t /\ registrar # t
    BY <1>4 DEF DeleteChecked, HoldingOf, CurrentOf, Calls, Idle
  <2>2. CASE Dependents(t) # {}
    BY <1>4, <1>a, <2>1, <2>2, IdleCall, Private DEF DeleteChecked, files, blocks
  <2>3. CASE Dependents(t) = {}
    BY <1>4, <1>a, <2>1, <2>3, Private DEF DeleteChecked, files, blocks
  <2> QED  BY <2>2, <2>3
<1>5. CASE DeleteOnDisk(t)
  <2> DEFINE w == [th[t] EXCEPT !.pc = "unregister"]
  <2>1. /\ w \in Calls /\ w.op = th[t].op /\ w.pc = "unregister" /\ th[t].pc = "unlink"
        /\ w.raw = th[t].raw /\ w.cat = th[t].cat /\ w.spec = th[t].spec
        /\ th[t].block \subseteq Blocks
    BY <1>5 DEF DeleteOnDisk, Calls
  <2>2. /\ th' \in [Threads -> Calls] /\ th'[t] = w
        /\ \A u \in Threads \ {t} : th'[u] = th[u]
    BY <1>5, <2>1, Becomes DEF DeleteOnDisk
  <2> HIDE DEF w
  <2>3. CatalogTypeOK'
    BY <1>5, <2>1, <2>2
       DEF DeleteOnDisk, files, registry, CInv, CatalogTypeOK, Writes, Owned, Torn
  <2>4. Holding'
    BY <1>5, <2>1, <2>2 DEF DeleteOnDisk, CInv, Holding, HoldingOf
  <2>5. Current'
    BY <1>5, <2>1, <2>2 DEF DeleteOnDisk, files, registry, CInv, Current, Calm, CurrentOf
  <2> QED  BY <2>3, <2>4, <2>5 DEF CInv
<1>6. CASE SaveBlock(t)
  <2> DEFINE w == [th[t] EXCEPT !.pc = "unregister"]
  <2>1. /\ w \in Calls /\ w.op = th[t].op /\ w.pc = "unregister" /\ th[t].pc = "save"
        /\ w.raw = th[t].raw /\ w.cat = th[t].cat /\ w.spec = th[t].spec
        /\ th[t].block \subseteq Blocks
    BY <1>6 DEF SaveBlock, Calls
  <2>2. /\ th' \in [Threads -> Calls] /\ th'[t] = w
        /\ \A u \in Threads \ {t} : th'[u] = th[u]
    BY <1>6, <2>1, Becomes DEF SaveBlock
  <2> HIDE DEF w
  <2>3. CatalogTypeOK'
    BY <1>6, <2>1, <2>2
       DEF SaveBlock, files, registry, CInv, CatalogTypeOK, Writes, Owned, Torn
  <2>4. Holding'
    BY <1>6, <2>1, <2>2 DEF SaveBlock, CInv, Holding, HoldingOf
  <2>5. Current'
    BY <1>6, <2>1, <2>2 DEF SaveBlock, files, registry, CInv, Current, Calm, CurrentOf
  <2> QED  BY <2>3, <2>4, <2>5 DEF CInv
<1> QED  BY <1>1, <1>2, <1>3, <1>4, <1>5, <1>6 DEF Finish

(* The call after a step of Rebuild: it writes no file. *)
LEMMA RebuildCall ==
  ASSUME CInv, NEW t \in Threads,
         th[t].pc \in {"unregister", "register", "rebuild", "refill"}
  PROVE  /\ lock # t
         /\ NextOf(t) \in Calls /\ HoldingOf(NextOf(t)) /\ CurrentOf(NextOf(t))
         /\ NextOf(t).op \notin {"append", "remove"}
         /\ NextOf(t).pc \notin {"rebuild", "refill"}
         /\ \A pc \in {"rebuild", "refill"}, op \in {th[t].op, "replace"} :
              LET w == [th[t] EXCEPT !.op = op, !.pc = pc] IN
              /\ w \in Calls /\ HoldingOf(w) /\ CurrentOf(w)
              /\ w.op \notin {"append", "remove"} /\ w.pc = pc
<1>1. /\ th[t] \in Calls /\ HoldingOf(th[t]) /\ lock # t
      /\ th[t].op \in {"delete", "edit", "replace"}
  BY CallFacts DEF HoldingOf
<1>2. Idle.pc = "idle"
  BY DEF Idle
<1>3. /\ NextOf(t) \in Calls /\ HoldingOf(NextOf(t)) /\ CurrentOf(NextOf(t))
      /\ NextOf(t).op \notin {"append", "remove"}
      /\ NextOf(t).pc \notin {"rebuild", "refill"}
  <2>1. CASE th[t].op = "edit"
    <3> DEFINE w == [th[t] EXCEPT !.pc = "register"]
    <3>1. /\ w \in Calls /\ w.pc = "register" /\ w.op = "edit" /\ w.raw = th[t].raw
          /\ w.cat = th[t].cat /\ w.spec = th[t].spec /\ NextOf(t) = w
      BY <1>1, <2>1 DEF Calls, NextOf
    <3> HIDE DEF w
    <3> QED  BY <1>1, <3>1 DEF HoldingOf, CurrentOf
  <2>2. CASE th[t].op # "edit"
    BY <1>2, <2>2, IdleCall DEF NextOf
  <2> QED  BY <2>1, <2>2
<1>5. ASSUME NEW pc \in {"rebuild", "refill"}, NEW op \in {th[t].op, "replace"}
      PROVE  LET w == [th[t] EXCEPT !.op = op, !.pc = pc] IN
             /\ w \in Calls /\ HoldingOf(w) /\ CurrentOf(w)
             /\ w.op \notin {"append", "remove"} /\ w.pc = pc
  <2> DEFINE w == [th[t] EXCEPT !.op = op, !.pc = pc]
  <2>1. /\ w \in Calls /\ w.pc = pc /\ w.op = op /\ w.raw = th[t].raw
        /\ w.cat = th[t].cat /\ w.spec = th[t].spec
    BY <1>1 DEF Calls
  <2> HIDE DEF w
  <2>2. HoldingOf(w) /\ CurrentOf(w)
    BY <1>1, <2>1 DEF HoldingOf, CurrentOf
  <2> QED  BY <1>1, <2>1, <2>2 DEF w
<1> QED  BY <1>1, <1>3, <1>5

LEMMA RebuildKeeps ==
  ASSUME CInv, NEW t \in Threads, Rebuild(t)
  PROVE  CInv'
<1> USE CallFacts, RebuildCall
<1>a. /\ requests \in 0 .. MaxRequests /\ mishaps \in SUBSET Mishaps
      /\ mem \in SUBSET Blocks /\ refused \in SUBSET Specs
  BY DEF CInv, CatalogTypeOK
<1>b. ASSUME NEW pc \in {"rebuild", "refill"}
      PROVE  [th[t] EXCEPT !.pc = pc] = [th[t] EXCEPT !.op = th[t].op, !.pc = pc]
  BY DEF Calls
<1>1. CASE NotRegistered(t)
  BY <1>1, <1>a, Private DEF NotRegistered, files, blocks
<1>2. CASE Unregister(t)
  <2>1. registrar # t /\ th[t].block \subseteq Blocks
    BY <1>2, ThreadsAssumption DEF Unregister, Calls
  <2>2. /\ mem' \in SUBSET Blocks /\ registrar = Nobody /\ registrar' = t /\ t # Nobody
        /\ th[t].pc = "unregister" /\ Become(t, [th[t] EXCEPT !.op = th[t].op, !.pc = "rebuild"])
        /\ UNCHANGED <<recs, broken, lock, disk, refused, gone, mishaps, asked, saved, removed, requests>>
    BY <1>2, <1>a, <1>b, ThreadsAssumption DEF Unregister, files
  <2> QED  BY <1>a, <2>1, <2>2, Registers
<1>3. CASE RegisterBlock(t)
  <2>1. /\ registrar = Nobody /\ registrar' = t /\ t # Nobody /\ th[t].pc = "register"
        /\ mem' \in SUBSET Blocks
        /\ Become(t, [th[t] EXCEPT !.op = "replace", !.pc = "rebuild"])
        /\ UNCHANGED <<recs, broken, lock, disk, gone, asked, saved, removed, requests>>
    BY <1>3, <1>a, ThreadsAssumption DEF RegisterBlock, files, Calls
  <2>2. /\ refused' \in SUBSET Specs
        /\ mishaps' \in SUBSET Mishaps /\ mishaps \subseteq mishaps'
        /\ mishaps' = {} => refused' = {}
    BY <1>3, <1>a DEF RegisterBlock, UsersOf, Doubted, Mishaps
  <2> QED  BY <2>1, <2>2, Registers
<1>4. CASE RegisterFails(t)
  <2>1. Idle.pc = "idle" /\ th[t].pc = "register" /\ lock # t
    BY <1>4 DEF RegisterFails, Idle
  <2> QED  BY <1>4, <1>a, <2>1, IdleCall, Private DEF RegisterFails, files, blocks
<1>5. CASE ClearView(t)
  <2>1. /\ registrar = t /\ registrar' = t /\ t # Nobody /\ th[t].pc = "rebuild"
        /\ Become(t, [th[t] EXCEPT !.op = th[t].op, !.pc = "refill"])
        /\ UNCHANGED <<recs, broken, lock, disk, mem, refused, gone, mishaps, asked, saved, removed, requests>>
    BY <1>5, <1>b, ThreadsAssumption DEF ClearView, files
  <2> QED  BY <1>a, <2>1, Registers
<1>6. CASE FillView(t)
  <2>1. /\ registrar = t /\ registrar' = Nobody /\ t # Nobody /\ th[t].pc = "refill"
        /\ Become(t, NextOf(t)) /\ ~Torn'
        /\ UNCHANGED <<recs, broken, lock, disk, mem, refused, gone, mishaps, asked, saved, removed, requests>>
    BY <1>6, ThreadsAssumption DEF FillView, files, Torn
  <2> QED  BY <1>a, <2>1, Registers
<1> QED  BY <1>1, <1>2, <1>3, <1>4, <1>5, <1>6 DEF Rebuild

-----------------------------------------------------------------------------
(* What the calls hold of the lock, and what they read under it, is still   *)
(* the file's at every step.                                                *)
THEOREM CInvInvariant == CatalogSpec => []CInv
<1>1. CInv /\ [CatalogNext]_catalogVars => CInv'
  <2> SUFFICES ASSUME CInv, [CatalogNext]_catalogVars PROVE CInv'
    OBVIOUS
  <2>1. CASE UNCHANGED catalogVars
    BY <2>1 DEF catalogVars, files, blocks, registry, history, CInv, CatalogTypeOK,
                Writes, Owned, Torn, Holding, HoldingOf, Current, Calm, CurrentOf
  <2>2. ASSUME NEW t \in Threads, Request(t) \/ Step(t) PROVE CInv'
    BY <2>2, RequestKeeps, LockKeeps, LoadKeeps, FinishKeeps, RebuildKeeps DEF Step
  <2> QED  BY <2>1, <2>2 DEF CatalogNext
<1> QED  BY CInvInit, <1>1, PTL DEF CatalogSpec

(* A read-modify-write call owns _CATALOG_LOCK from its read to its write, *)
(* and the file never holds a strategy nobody saved.                       *)
THEOREM CatalogTypeCorrect == CatalogSpec => []CatalogTypeOK
BY CInvInvariant, PTL DEF CInv

(* Until a block is deleted, a strategy is refused by validate(), a load    *)
(* meets a rebuild of BLOCK_CATALOG or a call that rewrites the file cannot *)
(* read it, no strategy is lost but those a user removed: whatever threads  *)
(* append, remove, list and edit, and whichever blocks fail to load.        *)
THEOREM NothingIsLost == CatalogSpec => []NothingLostWhileBlocksStay
<1>1. CInv => NothingLostWhileBlocksStay
  BY DEF CInv, Current, Calm, NothingLostWhileBlocksStay
<1> QED  BY CInvInvariant, <1>1, PTL
-----------------------------------------------------------------------------
(* The block store.  Between the first file of a transaction and its end    *)
(* files and registry differ: Whole says by how much at every step of the   *)
(* transaction w that holds the guard, for the files f and the registry r,  *)
(* so that its snapshots lead back and its copy leads forward.              *)
Whole(w, f, r) ==
  /\ w.todo \subseteq w.names /\ 0 < w.fresh /\ w.op # "none"
  /\ w.pc = "files" =>
       /\ w.oldReg = r /\ f = w.reg /\ w.old = w.names \ w.todo
       /\ \A b \in Names : IF b \in w.old THEN w.oldFile[b] = r[b] ELSE f[b] = r[b]
       /\ \A b \in w.old : w.reg[b] = IF w.op = "delete" THEN 0 ELSE w.fresh
  /\ w.pc \in {"register", "done"} => f = r
  /\ w.pc = "register" =>
       /\ w.op = "savecheck"
       /\ \A b \in Names : IF b \in w.old THEN w.oldFile[b] = w.oldReg[b] ELSE f[b] = w.oldReg[b]
       /\ \A b \in w.names : r[b] # 0
  /\ w.pc = "undo" =>
       \A b \in Names : IF b \in w.old THEN w.oldFile[b] = w.oldReg[b] ELSE f[b] = w.oldReg[b]

(* A block in memory is one the registry names, or names again once the     *)
(* transaction w is undone; or its delete is about to remove it.            *)
Known(w, r, b) ==
  /\ w.pc # "undo" => r[b] # 0
  /\ w.pc = "undo" => w.oldReg[b] # 0
  /\ w.pc = "register" /\ b \notin w.names \ w.todo => w.oldReg[b] # 0
Leaving(w, b) == b \in w.names /\ (w.pc = "unregister" \/ (w.pc = "done" /\ w.op = "delete"))

Remembered(b) ==
  \/ \E t \in Writers : Leaving(tx[t], b)
  \/ guard = Unguarded /\ reg[b] # 0
  \/ guard # Unguarded /\ Known(tx[guard], reg, b)

Begun(w) ==
  /\ w.pc # "idle" => 0 < w.fresh /\ w.op # "none"
  /\ w.pc = "enter" => w.old = {}

BInv ==
  /\ StoreTypeOK
  /\ \A t \in Writers : Begun(tx[t])
  /\ ~torn =>
       /\ guard = Unguarded => file = reg
       /\ guard # Unguarded => Whole(tx[guard], file, reg)
       /\ \A b \in Names : evaluator[b] # 0 => Remembered(b)

-----------------------------------------------------------------------------
LEMMA StoreFacts ==
  /\ MaxCalls \in Nat /\ MaxFaults \in Nat /\ MaxCrashes \in Nat
  /\ Batches \subseteq SUBSET Names /\ Unguarded \notin Writers
  /\ Empty \in Versions /\ NoTx \in Txs /\ NoTx.pc = "idle"
<1>1. /\ MaxCalls \in Nat /\ MaxFaults \in Nat /\ MaxCrashes \in Nat
      /\ Batches \subseteq SUBSET Names /\ Unguarded \notin Writers
  BY StoreBoundsAssumption, BatchesAssumption, WritersAssumption
<1>2. Empty \in Versions
  BY <1>1 DEF Empty, Versions
<1> QED  BY <1>1, <1>2 DEF NoTx, Txs

LEMMA BInvInit == StoreInit => BInv
<1> SUFFICES ASSUME StoreInit PROVE BInv
  OBVIOUS
<1>1. StoreTypeOK
  <2>1. tx \in [Writers -> Txs] /\ \A t \in Writers : tx[t].pc = "idle"
    BY StoreFacts DEF StoreInit
  <2>2. calls \in 0 .. MaxCalls /\ faults \in 0 .. MaxFaults /\ crashes \in 0 .. MaxCrashes
    BY StoreFacts DEF StoreInit
  <2> QED  BY <2>1, <2>2, StoreFacts DEF StoreInit, StoreTypeOK, Inside
<1>2. \A b \in Names : evaluator[b] = 0
  BY DEF StoreInit, Empty
<1> QED  BY <1>1, <1>2, StoreFacts DEF StoreInit, BInv, Begun

(* One transaction moved from tx[t] to w.                                   *)
LEMMA MovesKeepTypes ==
  ASSUME BInv, NEW t \in Writers, NEW w \in Txs, Proceed(t, w),
         file' \in Versions, reg' \in Versions, evaluator' \in Versions,
         calls' \in 0 .. MaxCalls, faults' \in 0 .. MaxFaults, crashes' \in 0 .. MaxCrashes,
         torn' \in BOOLEAN, guard' \in {guard, Unguarded, t},
         w.pc \in {"files", "register", "undo", "done"} <=> guard' = t,
         guard' = t \/ guard = t \/ guard' = guard,
         guard' = t => guard = Unguarded \/ guard = t,
         Begun(w)
  PROVE  /\ StoreTypeOK' /\ tx'[t] = w /\ \A u \in Writers \ {t} : tx'[u] = tx[u]
         /\ \A u \in Writers : Begun(tx'[u])
<1>1. tx \in [Writers -> Txs] /\ guard \in Writers \cup {Unguarded}
      /\ \A u \in Writers : Inside(u) <=> guard = u
  BY DEF BInv, StoreTypeOK
<1>2. tx' \in [Writers -> Txs] /\ tx'[t] = w /\ \A u \in Writers \ {t} : tx'[u] = tx[u]
  BY <1>1 DEF Proceed
<1>3. \A u \in Writers : Inside(u)' <=> guard' = u
  BY <1>1, <1>2, StoreFacts DEF Inside
<1>4. StoreTypeOK'
  BY <1>1, <1>2, <1>3 DEF StoreTypeOK
<1> QED  BY <1>2, <1>4 DEF BInv

(* Who is about to remove a block still is, unless it is t.                 *)
LEMMA StillLeaving ==
  ASSUME NEW t \in Writers, NEW w, NEW b \in Names, tx'[t] = w,
         \A u \in Writers \ {t} : tx'[u] = tx[u],
         \E u \in Writers : Leaving(tx[u], b), Leaving(tx[t], b) => Leaving(w, b)
  PROVE  Remembered(b)'
BY DEF Remembered, Leaving

LEMMA Moves ==
  ASSUME BInv, NEW t \in Writers, NEW w \in Txs, Proceed(t, w),
         file' \in Versions, reg' \in Versions, evaluator' \in Versions,
         calls' \in 0 .. MaxCalls, faults' \in 0 .. MaxFaults, crashes' \in 0 .. MaxCrashes,
         torn' \in BOOLEAN, guard' \in {guard, Unguarded, t},
         w.pc \in {"files", "register", "undo", "done"} <=> guard' = t,
         guard' = t \/ guard = t \/ guard' = guard,
         guard' = t => guard = Unguarded \/ guard = t,
         Begun(w),
         ~torn' =>
           /\ ~torn
           /\ guard' = Unguarded => file' = reg'
           /\ guard' = t => Whole(w, file', reg')
           /\ guard' \notin {t, Unguarded} => UNCHANGED <<file, reg>>
           /\ \A b \in Names : evaluator'[b] # 0 =>
                \/ evaluator[b] # 0 /\ (\E u \in Writers : Leaving(tx[u], b)) /\ (Leaving(tx[t], b) => Leaving(w, b))
                \/ Leaving(w, b)
                \/ guard' = Unguarded /\ reg'[b] # 0
                \/ guard' = t /\ Known(w, reg', b)
                \/ guard' \notin {t, Unguarded} /\ guard' = guard /\ Known(tx[guard], reg', b)
  PROVE  BInv'
<1>1. /\ StoreTypeOK' /\ tx'[t] = w /\ \A u \in Writers \ {t} : tx'[u] = tx[u]
      /\ \A u \in Writers : Begun(tx'[u])
  BY MovesKeepTypes
<1>2. guard \in Writers \cup {Unguarded} /\ guard' \in Writers \cup {Unguarded}
  BY <1>1 DEF BInv, StoreTypeOK
<1>3. ASSUME ~torn', guard' # Unguarded  PROVE Whole(tx'[guard'], file', reg')
  <2>1. CASE guard' = t
    BY <1>1, <1>3, <2>1
  <2>2. CASE guard' # t
    BY <1>1, <1>2, <1>3, <2>2 DEF BInv
  <2> QED  BY <2>1, <2>2
<1>4. ASSUME ~torn', NEW b \in Names, evaluator'[b] # 0  PROVE Remembered(b)'
  <2>1. CASE (\E u \in Writers : Leaving(tx[u], b)) /\ (Leaving(tx[t], b) => Leaving(w, b))
    BY <1>1, <2>1, StillLeaving
  <2>2. CASE Leaving(w, b)
    BY <1>1, <2>2 DEF Remembered, Leaving
  <2>3. CASE guard' = Unguarded /\ reg'[b] # 0
    BY <2>3 DEF Remembered
  <2>4. CASE guard' = t /\ Known(w, reg', b)
    BY <1>1, <2>4, StoreFacts DEF Remembered, Known
  <2>5. CASE guard' \notin {t, Unguarded} /\ guard' = guard /\ Known(tx[guard], reg', b)
    BY <1>1, <1>2, <2>5 DEF Remembered, Known
  <2> QED  BY <1>4, <2>1, <2>2, <2>3, <2>4, <2>5
<1> QED  BY <1>1, <1>3, <1>4 DEF BInv

LEMMA StoreKeeps ==
  ASSUME BInv, NEW t \in Writers, StoreCall(t) \/ StoreStep(t)
  PROVE  BInv'
<1>0. /\ file \in Versions /\ reg \in Versions /\ evaluator \in Versions
      /\ guard \in Writers \cup {Unguarded} /\ tx[t] \in Txs /\ tx \in [Writers -> Txs]
      /\ calls \in 0 .. MaxCalls /\ faults \in 0 .. MaxFaults /\ crashes \in 0 .. MaxCrashes
      /\ torn \in BOOLEAN
      /\ Inside(t) <=> guard = t
      /\ tx[t].pc # "idle" => 0 < tx[t].fresh /\ tx[t].op # "none"
      /\ tx[t].pc = "enter" => tx[t].old = {}
  BY DEF BInv, StoreTypeOK, Begun
<1>f. /\ tx[t].names \subseteq Names /\ tx[t].todo \subseteq Names /\ tx[t].old \subseteq Names
      /\ tx[t].reg \in Versions /\ tx[t].oldReg \in Versions /\ tx[t].oldFile \in Versions
      /\ tx[t].fresh \in 0 .. MaxCalls /\ tx[t].op \in {"none", "save", "savecheck", "delete"}
      /\ tx[t].fresh \in Nat /\ Version(t) \in 0 .. MaxCalls
  BY <1>0, StoreFacts DEF Txs, Version
<1>k. ~torn => /\ guard = Unguarded => file = reg
               /\ guard = t => Whole(tx[t], file, reg)
               /\ \A b \in Names : evaluator[b] # 0 =>
                    \/ \E u \in Writers : Leaving(tx[u], b)
                    \/ guard = Unguarded /\ reg[b] # 0
                    \/ guard = t /\ Known(tx[t], reg, b)
                    \/ guard \notin {t, Unguarded} /\ Known(tx[guard], reg, b)
  BY StoreFacts DEF BInv, Remembered
<1>1. CASE StoreCall(t)
  <2>1. PICK ns \in Batches, op \in {"save", "savecheck", "delete"} :
          Proceed(t, [NoTx EXCEPT !.pc = "enter", !.op = op, !.names = ns, !.fresh = calls + 1])
    BY <1>1 DEF StoreCall
  <2>2. /\ tx[t].pc = "idle" /\ calls < MaxCalls /\ calls' = calls + 1
        /\ UNCHANGED <<file, reg, evaluator, guard, faults, crashes, torn>>
    BY <1>1 DEF StoreCall, diskVars
  <2> DEFINE w == [NoTx EXCEPT !.pc = "enter", !.op = op, !.names = ns, !.fresh = calls + 1]
  <2>3. calls + 1 \in 0 .. MaxCalls /\ 0 < calls + 1
    BY <1>0, <2>2, StoreFacts
  <2>4. w \in Txs /\ w.pc = "enter" /\ Begun(w)
    BY <2>3, StoreFacts DEF Txs, Begun, NoTx
  <2> HIDE DEF w
  <2>5. guard # t
    BY <1>0, <2>2 DEF Inside
  <2>6. \A b \in Names : ~Leaving(tx[t], b)
    BY <2>2 DEF Leaving
  <2> QED  BY <1>0, <1>k, <2>1, <2>2, <2>3, <2>4, <2>5, <2>6, Moves DEF w
<1>2. CASE Enter(t)
  <2> DEFINE w == [tx[t] EXCEPT !.pc = "files", !.names = Chosen(t), !.todo = Chosen(t),
                                !.reg = reg, !.oldReg = reg]
  <2>1. /\ tx[t].pc = "enter" /\ guard = Unguarded /\ guard' = t /\ Proceed(t, w)
        /\ UNCHANGED <<file, reg, evaluator, calls, faults, crashes, torn>>
    BY <1>2 DEF Enter, diskVars, counts
  <2>2. Chosen(t) \subseteq Names
    BY <1>f DEF Chosen
  <2>3. /\ w \in Txs /\ w.pc = "files" /\ w.op = tx[t].op /\ w.fresh = tx[t].fresh /\ w.reg = reg
        /\ w.oldReg = reg /\ w.names = Chosen(t) /\ w.todo = Chosen(t) /\ w.old = tx[t].old
    BY <1>0, <2>2 DEF Txs
  <2> HIDE DEF w
  <2>4. tx[t].old = {} /\ Begun(w)
    BY <1>0, <2>1, <2>3 DEF Begun
  <2>5. ~torn => Whole(w, file, reg)
    BY <1>0, <1>k, <2>1, <2>3, <2>4 DEF Whole
  <2>6. \A b \in Names : ~Leaving(tx[t], b)
    BY <2>1 DEF Leaving
  <2>7. \A b \in Names : reg[b] # 0 => Known(w, reg, b)
    BY <2>3 DEF Known
  <2> QED  BY <1>0, <1>k, <2>1, <2>3, <2>4, <2>5, <2>6, <2>7, StoreFacts, Moves
<1>z. NoTx \in Txs /\ NoTx.pc = "idle" /\ Begun(NoTx)
  BY StoreFacts DEF Begun
<1>d. Fault => faults' \in 0 .. MaxFaults
  BY <1>0, StoreFacts DEF Fault
<1>3. CASE NothingToDo(t)
  <2>1. /\ tx[t].pc = "enter" /\ guard = Unguarded /\ guard' = guard /\ Proceed(t, NoTx)
        /\ UNCHANGED <<file, reg, evaluator, calls, crashes, torn>> /\ faults' \in 0 .. MaxFaults
    BY <1>0, <1>3, <1>d DEF NothingToDo, diskVars
  <2>2. \A b \in Names : ~Leaving(tx[t], b)
    BY <2>1 DEF Leaving
  <2> QED  BY <1>0, <1>k, <1>z, <2>1, <2>2, StoreFacts, Moves
<1>4. CASE TouchFile(t)
  <2>1. /\ tx[t].pc = "files" /\ guard = t /\ UNCHANGED <<reg, evaluator, guard, calls, faults, crashes, torn>>
    BY <1>0, <1>4 DEF TouchFile, Inside, counts
  <2>2. PICK b \in tx[t].todo :
          /\ file' = [file EXCEPT ![b] = Version(t)]
          /\ Proceed(t, [tx[t] EXCEPT !.todo = @ \ {b}, !.old = @ \cup {b},
                          !.oldFile = Snapshot(t, b), !.reg[b] = Version(t)])
    BY <1>4 DEF TouchFile
  <2> DEFINE w == [tx[t] EXCEPT !.todo = @ \ {b}, !.old = @ \cup {b},
                                !.oldFile = Snapshot(t, b), !.reg[b] = Version(t)]
  <2>3. b \in Names /\ Snapshot(t, b) \in Versions /\ [tx[t].reg EXCEPT ![b] = Version(t)] \in Versions
        /\ file' \in Versions
    BY <1>0, <1>f, <2>2 DEF Snapshot, Versions
  <2>4. /\ w \in Txs /\ w.pc = "files" /\ w.op = tx[t].op /\ w.fresh = tx[t].fresh /\ w.oldReg = tx[t].oldReg
        /\ w.reg = [tx[t].reg EXCEPT ![b] = Version(t)] /\ w.oldFile = Snapshot(t, b)
        /\ w.names = tx[t].names /\ w.todo = tx[t].todo \ {b} /\ w.old = tx[t].old \cup {b}
    <3>1. tx[t].todo \ {b} \subseteq Names /\ tx[t].old \cup {b} \subseteq Names
      BY <1>f, <2>3
    <3>2. w = [tx[t] EXCEPT !.todo = tx[t].todo \ {b}, !.old = tx[t].old \cup {b},
                            !.oldFile = Snapshot(t, b), !.reg = [tx[t].reg EXCEPT ![b] = Version(t)]]
      BY <1>0 DEF Txs
    <3> HIDE DEF w
    <3> QED  BY <1>0, <2>1, <2>3, <3>1, <3>2 DEF Txs
  <2> HIDE DEF w
  <2>5. ASSUME ~torn  PROVE Whole(w, file', reg)
    <3>1. Whole(tx[t], file, reg)
      BY <1>k, <2>1, <2>5
    <3>2. w.todo \subseteq w.names /\ w.old = w.names \ w.todo /\ file' = w.reg /\ w.oldReg = reg
          /\ 0 < w.fresh /\ w.op # "none"
      BY <2>1, <2>2, <2>4, <3>1 DEF Whole
    <3>3. \A d \in Names : IF d \in w.old THEN w.oldFile[d] = reg[d] ELSE file'[d] = reg[d]
      BY <1>0, <1>f, <2>1, <2>2, <2>3, <2>4, <3>1 DEF Whole, Snapshot, Versions
    <3>4. \A d \in w.old : w.reg[d] = IF w.op = "delete" THEN 0 ELSE w.fresh
      BY <1>f, <2>1, <2>2, <2>3, <2>4, <3>1 DEF Whole, Version, Versions
    <3> QED  BY <2>4, <3>2, <3>3, <3>4 DEF Whole
  <2>6. Begun(w) /\ \A d \in Names : ~Leaving(tx[t], d) /\ (reg[d] # 0 => Known(w, reg, d))
    BY <1>0, <2>1, <2>4 DEF Begun, Leaving, Known
  <2>7. \A d \in Names : Known(tx[t], reg, d) => reg[d] # 0
    BY <2>1 DEF Known
  <2> QED  BY <1>0, <1>k, <2>1, <2>2, <2>3, <2>4, <2>5, <2>6, <2>7, StoreFacts, Moves DEF w
<1>5. CASE TouchFails(t)
  <2>1. /\ tx[t].pc = "files" /\ guard = t /\ UNCHANGED <<file, reg, evaluator, guard, calls, crashes, torn>>
        /\ faults' \in 0 .. MaxFaults
    BY <1>0, <1>5, <1>d DEF TouchFails, Inside, diskVars
  <2>2. PICK b \in tx[t].todo :
          Proceed(t, [tx[t] EXCEPT !.pc = "undo", !.old = @ \cup {b}, !.oldFile = Snapshot(t, b)])
    BY <1>5 DEF TouchFails
  <2> DEFINE w == [tx[t] EXCEPT !.pc = "undo", !.old = @ \cup {b}, !.oldFile = Snapshot(t, b)]
  <2>3. b \in Names /\ Snapshot(t, b) \in Versions
    BY <1>0, <1>f, <2>2 DEF Snapshot, Versions
  <2>4. /\ w \in Txs /\ w.pc = "undo" /\ w.op = tx[t].op /\ w.fresh = tx[t].fresh /\ w.oldReg = tx[t].oldReg
        /\ w.oldFile = Snapshot(t, b)
        /\ w.names = tx[t].names /\ w.todo = tx[t].todo /\ w.old = tx[t].old \cup {b}
    BY <1>0, <1>f, <2>3 DEF Txs
  <2> HIDE DEF w
  <2>5. ASSUME ~torn  PROVE Whole(w, file, reg)
    <3>1. Whole(tx[t], file, reg)
      BY <1>k, <2>1, <2>5
    <3>2. \A d \in Names : IF d \in w.old THEN w.oldFile[d] = w.oldReg[d] ELSE file[d] = w.oldReg[d]
      BY <1>0, <1>f, <2>1, <2>2, <2>3, <2>4, <3>1 DEF Whole, Snapshot, Versions
    <3> QED  BY <2>1, <2>4, <3>1, <3>2 DEF Whole
  <2>6. Begun(w) /\ \A d \in Names : ~Leaving(tx[t], d)
    BY <1>0, <2>1, <2>4 DEF Begun, Leaving
  <2>7. ASSUME ~torn, NEW d \in Names, Known(tx[t], reg, d)  PROVE Known(w, reg, d)
    BY <1>k, <2>1, <2>4, <2>7 DEF Known, Whole
  <2> QED  BY <1>0, <1>k, <2>1, <2>2, <2>4, <2>5, <2>6, <2>7, StoreFacts, Moves DEF w
<1>6. CASE Commit(t)
  <2> DEFINE w == [tx[t] EXCEPT !.pc = IF tx[t].op = "savecheck" THEN "register" ELSE "done",
                                !.todo = tx[t].names]
  <2>1. /\ tx[t].pc = "files" /\ guard = t /\ UNCHANGED <<file, evaluator, guard, calls, faults, crashes, torn>>
        /\ tx[t].todo = {} /\ reg' = tx[t].reg /\ Proceed(t, w)
    BY <1>0, <1>6 DEF Commit, Inside, counts
  <2>2. /\ w \in Txs /\ w.pc = (IF tx[t].op = "savecheck" THEN "register" ELSE "done")
        /\ w.op = tx[t].op /\ w.fresh = tx[t].fresh /\ w.oldReg = tx[t].oldReg /\ w.reg = tx[t].reg
        /\ w.oldFile = tx[t].oldFile /\ w.names = tx[t].names /\ w.todo = tx[t].names /\ w.old = tx[t].old
    BY <1>0, <1>f DEF Txs
  <2> HIDE DEF w
  <2>3. ASSUME ~torn
        PROVE  /\ Whole(w, file, reg')
               /\ \A d \in Names : Known(tx[t], reg, d) => Leaving(w, d) \/ Known(w, reg', d)
    <3>1. Whole(tx[t], file, reg) /\ tx[t].old = tx[t].names /\ tx[t].oldReg = reg /\ file = reg'
          /\ \A d \in tx[t].names : reg'[d] = IF tx[t].op = "delete" THEN 0 ELSE tx[t].fresh
      BY <1>k, <2>1, <2>3 DEF Whole
    <3>2. \A d \in Names : IF d \in w.old THEN w.oldFile[d] = w.oldReg[d] ELSE file[d] = w.oldReg[d]
      BY <2>1, <2>2, <3>1 DEF Whole
    <3>3. Whole(w, file, reg')
      BY <1>0, <1>f, <2>1, <2>2, <3>1, <3>2 DEF Whole
    <3>4. ASSUME NEW d \in Names, Known(tx[t], reg, d)  PROVE Leaving(w, d) \/ Known(w, reg', d)
      <4>1. reg[d] # 0
        BY <2>1, <3>4 DEF Known
      <4>2. CASE d \notin tx[t].names
        BY <2>1, <2>2, <3>1, <3>2, <4>1, <4>2 DEF Known
      <4>3. CASE d \in tx[t].names /\ tx[t].op = "delete"
        BY <2>2, <4>3 DEF Leaving
      <4>4. CASE d \in tx[t].names /\ tx[t].op # "delete"
        BY <1>0, <1>f, <2>1, <2>2, <3>1, <4>1, <4>4 DEF Known
      <4> QED  BY <4>2, <4>3, <4>4
    <3> QED  BY <3>3, <3>4
  <2>4. Begun(w) /\ \A d \in Names : ~Leaving(tx[t], d)
    BY <1>0, <2>1, <2>2 DEF Begun, Leaving
  <2> QED  BY <1>0, <1>f, <1>k, <2>1, <2>2, <2>3, <2>4, StoreFacts, Moves
<1>7. CASE CommitFails(t)
  <2> DEFINE w == [tx[t] EXCEPT !.pc = "undo"]
  <2>1. /\ tx[t].pc = "files" /\ guard = t /\ UNCHANGED <<file, reg, evaluator, guard, calls, crashes, torn>>
        /\ faults' \in 0 .. MaxFaults /\ Proceed(t, w)
    BY <1>0, <1>7, <1>d DEF CommitFails, Inside, diskVars
  <2>2. /\ w \in Txs /\ w.pc = "undo" /\ w.op = tx[t].op /\ w.fresh = tx[t].fresh /\ w.oldReg = tx[t].oldReg
        /\ w.oldFile = tx[t].oldFile /\ w.names = tx[t].names /\ w.todo = tx[t].todo /\ w.old = tx[t].old
    BY <1>0, <1>f DEF Txs
  <2> HIDE DEF w
  <2>3. ASSUME ~torn
        PROVE  Whole(w, file, reg) /\ \A d \in Names : Known(tx[t], reg, d) => Known(w, reg, d)
    BY <1>k, <2>1, <2>2, <2>3 DEF Whole, Known
  <2>4. Begun(w) /\ \A d \in Names : ~Leaving(tx[t], d)
    BY <1>0, <2>1, <2>2 DEF Begun, Leaving
  <2> QED  BY <1>0, <1>k, <2>1, <2>2, <2>3, <2>4, StoreFacts, Moves
<1>8. CASE Register(t)
  <2>1. /\ tx[t].pc = "register" /\ guard = t /\ UNCHANGED <<file, reg, guard, calls, faults, crashes, torn>>
    BY <1>0, <1>8 DEF Register, Inside, diskVars, counts
  <2>2. PICK b \in tx[t].todo :
          /\ evaluator' = [evaluator EXCEPT ![b] = file[b]]
          /\ Proceed(t, [tx[t] EXCEPT !.todo = @ \ {b}])
    BY <1>8 DEF Register
  <2> DEFINE w == [tx[t] EXCEPT !.todo = @ \ {b}]
  <2>3. b \in Names /\ evaluator' \in Versions
    BY <1>0, <1>f, <2>2 DEF Versions
  <2>4. /\ w \in Txs /\ w.pc = "register" /\ w.op = tx[t].op /\ w.fresh = tx[t].fresh /\ w.oldReg = tx[t].oldReg
        /\ w.reg = tx[t].reg /\ w.oldFile = tx[t].oldFile
        /\ w.names = tx[t].names /\ w.todo = tx[t].todo \ {b} /\ w.old = tx[t].old
    BY <1>0, <1>f, <2>1, <2>3 DEF Txs
  <2> HIDE DEF w
  <2>5. ASSUME ~torn
        PROVE  /\ Whole(w, file, reg) /\ reg[b] # 0
               /\ \A d \in Names \ {b} : evaluator'[d] = evaluator[d]
               /\ \A d \in Names \ {b} : Known(tx[t], reg, d) => Known(w, reg, d)
    <3>1. Whole(tx[t], file, reg)
      BY <1>k, <2>1, <2>5
    <3>2. Whole(w, file, reg) /\ reg[b] # 0
      BY <2>1, <2>2, <2>4, <3>1 DEF Whole
    <3>3. \A d \in Names \ {b} : evaluator'[d] = evaluator[d]
      BY <1>0, <2>2 DEF Versions
    <3> QED  BY <2>1, <2>4, <3>2, <3>3 DEF Known
  <2>6. Begun(w) /\ \A d \in Names : ~Leaving(tx[t], d)
    BY <1>0, <2>1, <2>4 DEF Begun, Leaving
  <2>7. ~torn => b \in w.names \ w.todo /\ Known(w, reg, b)
    BY <1>k, <2>1, <2>2, <2>4, <2>5 DEF Known, Whole
  <2> QED  BY <1>0, <1>k, <2>1, <2>2, <2>3, <2>4, <2>5, <2>6, <2>7, StoreFacts, Moves DEF w
<1>9. CASE Validated(t)
  <2> DEFINE w == [tx[t] EXCEPT !.pc = "done"]
  <2>1. /\ tx[t].pc = "register" /\ guard = t /\ tx[t].todo = {} /\ Proceed(t, w)
        /\ UNCHANGED <<file, reg, evaluator, guard, calls, faults, crashes, torn>>
    BY <1>0, <1>9 DEF Validated, Inside, diskVars, counts
  <2>2. /\ w \in Txs /\ w.pc = "done" /\ w.op = tx[t].op /\ w.fresh = tx[t].fresh
        /\ w.names = tx[t].names /\ w.todo = {}
    BY <1>0, <1>f, <2>1 DEF Txs
  <2> HIDE DEF w
  <2>3. ASSUME ~torn
        PROVE  Whole(w, file, reg) /\ \A d \in Names : Known(tx[t], reg, d) => Known(w, reg, d)
    BY <1>k, <2>1, <2>2, <2>3 DEF Whole, Known
  <2>4. Begun(w) /\ \A d \in Names : ~Leaving(tx[t], d)
    BY <1>0, <2>1, <2>2 DEF Begun, Leaving
  <2> QED  BY <1>0, <1>k, <2>1, <2>2, <2>3, <2>4, StoreFacts, Moves
<1>10. CASE ValidateFails(t)
  <2> DEFINE w == [tx[t] EXCEPT !.pc = "undo"]
  <2>1. /\ tx[t].pc = "register" /\ guard = t /\ Proceed(t, w)
        /\ UNCHANGED <<file, reg, guard, calls, faults, crashes, torn>>
        /\ evaluator' = Over(evaluator, tx[t].names \ tx[t].todo, Empty)
    BY <1>0, <1>10 DEF ValidateFails, Unregistered, Inside, diskVars, counts
  <2>2. /\ w \in Txs /\ w.pc = "undo" /\ w.op = tx[t].op /\ w.fresh = tx[t].fresh /\ w.oldReg = tx[t].oldReg
        /\ w.oldFile = tx[t].oldFile /\ w.names = tx[t].names /\ w.todo = tx[t].todo /\ w.old = tx[t].old
    BY <1>0, <1>f DEF Txs
  <2> HIDE DEF w
  <2>3. evaluator' \in Versions /\ \A d \in Names :
          evaluator'[d] # 0 => evaluator[d] # 0 /\ d \notin tx[t].names \ tx[t].todo
    BY <1>0, <2>1, StoreFacts DEF Over, Empty, Versions
  <2>4. ASSUME ~torn
        PROVE  /\ Whole(w, file, reg)
               /\ \A d \in Names : Known(tx[t], reg, d) /\ d \notin tx[t].names \ tx[t].todo => Known(w, reg, d)
    BY <1>k, <2>1, <2>2, <2>4 DEF Whole, Known
  <2>5. Begun(w) /\ \A d \in Names : ~Leaving(tx[t], d)
    BY <1>0, <2>1, <2>2 DEF Begun, Leaving
  <2> QED  BY <1>0, <1>k, <2>1, <2>2, <2>3, <2>4, <2>5, StoreFacts, Moves
<1>11. CASE UndoFile(t)
  <2>1. /\ tx[t].pc = "undo" /\ guard = t /\ UNCHANGED <<reg, evaluator, guard, calls, crashes>>
    BY <1>0, <1>11 DEF UndoFile, Inside
  <2>2. PICK b \in tx[t].old :
          /\ \/ file' = [file EXCEPT ![b] = tx[t].oldFile[b]] /\ UNCHANGED <<faults, torn>>
             \/ Fault /\ torn' = TRUE /\ UNCHANGED file
          /\ Proceed(t, [tx[t] EXCEPT !.old = @ \ {b}])
    BY <1>11 DEF UndoFile
  <2> DEFINE w == [tx[t] EXCEPT !.old = @ \ {b}]
  <2>3. b \in Names /\ file' \in Versions /\ faults' \in 0 .. MaxFaults /\ torn' \in BOOLEAN
    BY <1>0, <1>d, <1>f, <2>2 DEF Versions
  <2>4. /\ w \in Txs /\ w.pc = "undo" /\ w.op = tx[t].op /\ w.fresh = tx[t].fresh /\ w.oldReg = tx[t].oldReg
        /\ w.reg = tx[t].reg /\ w.oldFile = tx[t].oldFile
        /\ w.names = tx[t].names /\ w.todo = tx[t].todo /\ w.old = tx[t].old \ {b}
    BY <1>0, <1>f, <2>1, <2>3 DEF Txs
  <2> HIDE DEF w
  <2>5. ASSUME ~torn'
        PROVE  ~torn /\ Whole(w, file', reg) /\ \A d \in Names : Known(tx[t], reg, d) => Known(w, reg, d)
    <3>1. ~torn /\ Whole(tx[t], file, reg) /\ file' = [file EXCEPT ![b] = tx[t].oldFile[b]]
      BY <1>k, <2>1, <2>2, <2>5
    <3>2. \A d \in Names : IF d \in w.old THEN w.oldFile[d] = w.oldReg[d] ELSE file'[d] = w.oldReg[d]
      BY <1>0, <1>f, <2>1, <2>2, <2>3, <2>4, <3>1 DEF Whole, Versions
    <3>3. Whole(w, file', reg)
      BY <2>1, <2>4, <3>1, <3>2 DEF Whole
    <3> QED  BY <2>1, <2>4, <3>1, <3>3 DEF Known
  <2>6. Begun(w) /\ \A d \in Names : ~Leaving(tx[t], d)
    BY <1>0, <2>1, <2>4 DEF Begun, Leaving
  <2> QED  BY <1>0, <1>k, <2>1, <2>2, <2>3, <2>4, <2>5, <2>6, StoreFacts, Moves DEF w
<1>12. CASE UndoRegistry(t)
  <2>1. /\ tx[t].pc = "undo" /\ guard = t /\ guard' = Unguarded /\ tx[t].old = {} /\ Proceed(t, NoTx)
        /\ UNCHANGED <<file, evaluator, calls, crashes>>
        /\ \/ reg' = tx[t].oldReg /\ UNCHANGED <<faults, torn>>
           \/ Fault /\ torn' = TRUE /\ UNCHANGED reg
    BY <1>0, <1>12 DEF UndoRegistry, RegistryBefore, Inside
  <2>2. reg' \in Versions /\ faults' \in 0 .. MaxFaults /\ torn' \in BOOLEAN
    BY <1>0, <1>d, <1>f, <2>1
  <2>3. ASSUME ~torn'
        PROVE  ~torn /\ file = reg' /\ \A d \in Names : Known(tx[t], reg, d) => reg'[d] # 0
    <3>1. ~torn /\ Whole(tx[t], file, reg) /\ reg' = tx[t].oldReg
      BY <1>k, <2>1, <2>3
    <3>2. \A d \in Names : file[d] = tx[t].oldReg[d]
      BY <2>1, <3>1 DEF Whole
    <3>3. file = tx[t].oldReg
      BY <1>0, <1>f, <3>2 DEF Versions
    <3> QED  BY <2>1, <3>1, <3>3 DEF Known
  <2>4. \A d \in Names : ~Leaving(tx[t], d)
    BY <2>1 DEF Leaving
  <2> QED  BY <1>0, <1>k, <1>z, <2>1, <2>2, <2>3, <2>4, StoreFacts, Moves
<1>13. CASE Release(t)
  <2> DEFINE w == IF tx[t].op = "delete" THEN [tx[t] EXCEPT !.pc = "unregister"] ELSE NoTx
  <2>1. /\ tx[t].pc = "done" /\ guard = t /\ guard' = Unguarded /\ Proceed(t, w)
        /\ UNCHANGED <<file, reg, evaluator, calls, faults, crashes, torn>>
    BY <1>0, <1>13 DEF Release, Inside, diskVars, counts
  <2>2. /\ w \in Txs /\ w.pc \in {"idle", "unregister"} /\ Begun(w)
        /\ \A d \in Names : Leaving(tx[t], d) => Leaving(w, d)
    <3>1. CASE tx[t].op = "delete"
      BY <1>0, <1>f, <2>1, <3>1 DEF Txs, Begun, Leaving
    <3>2. CASE tx[t].op # "delete"
      BY <1>z, <2>1, <3>2 DEF Leaving
    <3> QED  BY <3>1, <3>2
  <2> HIDE DEF w
  <2>3. ASSUME ~torn
        PROVE  file = reg /\ \A d \in Names : Known(tx[t], reg, d) => reg[d] # 0
    BY <1>k, <2>1, <2>3 DEF Whole, Known
  <2> QED  BY <1>0, <1>k, <2>1, <2>2, <2>3, StoreFacts, Moves
<1>14. CASE UnregisterAll(t)
  <2>1. /\ tx[t].pc = "unregister" /\ guard # t /\ Proceed(t, NoTx)
        /\ evaluator' = Over(evaluator, tx[t].names, Empty)
        /\ UNCHANGED <<file, reg, guard, calls, faults, crashes, torn>>
    BY <1>0, <1>14 DEF UnregisterAll, Inside, diskVars, counts
  <2>2. evaluator' \in Versions /\ \A d \in Names :
          evaluator'[d] # 0 => evaluator[d] # 0 /\ ~Leaving(tx[t], d)
    BY <1>0, <2>1, StoreFacts DEF Over, Empty, Versions, Leaving
  <2> QED  BY <1>0, <1>k, <1>z, <2>1, <2>2, StoreFacts, Moves
<1> QED  BY <1>1, <1>2, <1>3, <1>4, <1>5, <1>6, <1>7, <1>8, <1>9, <1>10, <1>11, <1>12, <1>13, <1>14
         DEF StoreStep

(* The guard dies with the process, and memory starts from the registry.     *)
LEMMA CrashKeeps == BInv /\ Crash => BInv'
<1> SUFFICES ASSUME BInv, Crash PROVE BInv'
  OBVIOUS
<1>1. /\ file \in Versions /\ reg \in Versions /\ UNCHANGED <<file, reg, calls, faults>>
      /\ calls \in 0 .. MaxCalls /\ faults \in 0 .. MaxFaults /\ crashes' \in 0 .. MaxCrashes
      /\ guard' = Unguarded /\ tx' = [t \in Writers |-> NoTx] /\ torn \in BOOLEAN
      /\ torn' = (torn \/ guard # Unguarded)
      /\ evaluator' = [b \in Names |-> IF reg[b] # 0 THEN file[b] ELSE 0]
  BY StoreFacts DEF Crash, BInv, StoreTypeOK, diskVars
<1>2. /\ evaluator' \in Versions /\ tx' \in [Writers -> Txs] /\ torn' \in BOOLEAN
      /\ \A t \in Writers : tx'[t] = NoTx
      /\ \A b \in Names : evaluator'[b] # 0 => reg'[b] # 0
  BY <1>1, StoreFacts DEF Versions
<1>3. \A t \in Writers : Begun(tx'[t]) /\ ~Inside(t)' /\ guard' # t
  BY <1>1, <1>2, StoreFacts DEF Begun, Inside
<1>4. StoreTypeOK'
  BY <1>1, <1>2, <1>3 DEF StoreTypeOK
<1>5. ~torn' => file' = reg'
  BY <1>1 DEF BInv
<1> QED  BY <1>1, <1>2, <1>3, <1>4, <1>5 DEF BInv, Remembered

LEMMA BInvInvariant == StoreSpec => []BInv
<1>1. BInv /\ [StoreNext]_storeVars => BInv'
  <2>1. CASE UNCHANGED storeVars
    BY <2>1 DEF storeVars, BInv, StoreTypeOK, Inside, Versions, Txs, Begun, Remembered, Whole, Known, Leaving
  <2> QED  BY <2>1, StoreKeeps, CrashKeeps DEF StoreNext
<1> QED  BY <1>1, BInvInit, PTL DEF StoreSpec

(* Files, registry and memory have the shapes the code gives them, and a     *)
(* transaction is open exactly under custom_block_store._registry_guard.     *)
THEOREM StoreTypeCorrect == StoreSpec => []StoreTypeOK
<1>1. BInv => StoreTypeOK
  BY DEF BInv
<1> QED  BY <1>1, BInvInvariant, PTL

(* Files, registry and memory tell the same blocks once a call is over,      *)
(* whichever of its steps failed or was undone, for any number of writers,   *)
(* names, faults and restarts: custom_block_store.py.                        *)
THEOREM BlocksAgreeAlways == StoreSpec => []BlocksAgree
<1>1. BInv => BlocksAgree
  <2> SUFFICES ASSUME BInv PROVE BlocksAgree
    OBVIOUS
  <2>1. FilesMatchRegistry
    BY DEF BInv, FilesMatchRegistry
  <2>2. ASSUME ~torn, \A t \in Writers : tx[t].pc \in {"idle", "enter"}, NEW b \in Names, evaluator[b] # 0
        PROVE  reg[b] # 0
    <3>1. guard = Unguarded
      BY <2>2 DEF BInv, StoreTypeOK, Inside
    <3>2. \A t \in Writers : ~Leaving(tx[t], b)
      BY <2>2 DEF Leaving
    <3> QED  BY <2>2, <3>1, <3>2 DEF BInv, Remembered
  <2> QED  BY <2>1, <2>2 DEF BlocksAgree, MemoryHasItsBlock
<1> QED  BY <1>1, BInvInvariant, PTL
=============================================================================
