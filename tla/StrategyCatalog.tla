--------------------------- MODULE StrategyCatalog ---------------------------
(***************************************************************************)
(* strategy_catalog.json and the threads that read and rewrite it          *)
(* (composer.py: load_catalog, append_to_catalog, mutate_catalog; the      *)
(* delete routes of web/routes/strategy.py).  Reading is not passive:      *)
(* load_catalog drops the strategies whose custom block no longer exists   *)
(* and writes the rest back, outside the lock its callers may or may not   *)
(* hold.  The file is replaced atomically, so a reader sees one version,   *)
(* or none if it cannot be read.                                           *)
(***************************************************************************)
EXTENDS Naturals, FiniteSets

CONSTANTS
  Threads,      \* request handlers, AUTO and Lab workers
  Specs,        \* strategies
  Blocks,       \* custom blocks
  BuiltinOnly,  \* the Uses of a strategy without a custom block
  Uses,         \* the custom block a strategy is built from
  MaxRequests   \* bound: calls made over a behaviour

ASSUME UsesAssumption ==
  /\ BuiltinOnly \notin Blocks
  /\ Uses \in [Specs -> Blocks \cup {BuiltinOnly}]
ASSUME RequestsAssumption == MaxRequests \in Nat

Nobody == "nobody"
ASSUME ThreadsAssumption == Nobody \notin Threads

VARIABLES
  recs,     \* strategies in the file
  broken,   \* the file also holds a record from_dict cannot parse
  lock,     \* owner of _CATALOG_LOCK
  disk,     \* custom blocks in the store's registry
  mem,      \* custom blocks in BLOCK_REGISTRY
  view,     \* what BLOCK_CATALOG lists: blocks, BuiltinOnly for the built-in ones
  registrar,\* owner of _REGISTRY_LOCK
  refused,  \* strategies spec.validate() does not pass
  th,       \* the call each thread is in
  asked,    \* strategies some call was made to add, those of CatalogInit included
  saved,    \* strategies written by an append, those of CatalogInit included
  removed,  \* strategies a user deleted
  gone,     \* blocks that were deleted
  mishaps,  \* what else has happened that can cost strategies, see Mishaps
  requests

files == <<recs, broken>>
registry == <<mem, view, registrar, refused>>
blocks == <<disk, registry, gone, mishaps>>
history == <<asked, saved, removed>>
catalogVars == <<files, lock, blocks, th, history, requests>>

(* A strategy was refused by validate(), a load filtered while BLOCK_CATALOG *)
(* was being rebuilt, a call that rewrites the file could not read it.       *)
Mishaps == {"refused", "torn", "unread"}
Doubted(S) == IF S = {} THEN {} ELSE {"refused"}

(* names is FALSE while the registry could not be read. *)
Idle == [pc |-> "idle", op |-> "none", spec |-> {}, block |-> {},
         raw |-> {}, bad |-> FALSE, known |-> FALSE, names |-> {},
         cat |-> {}]

CatalogInit ==
  /\ recs \in SUBSET Specs
  /\ broken \in BOOLEAN
  /\ lock = Nobody
  /\ disk = Blocks
  /\ mem \in SUBSET Blocks        \* a block may have failed to load
  /\ view = mem \cup {BuiltinOnly} /\ registrar = Nobody
  /\ refused \in SUBSET recs       \* saved under other rules, or edited by hand
  /\ mishaps = Doubted(refused)
  /\ th = [t \in Threads |-> Idle]
  /\ asked = recs
  /\ saved = recs
  /\ removed = {}
  /\ gone = {}
  /\ requests = 0

Become(t, w) == th' = [th EXCEPT ![t] = w]
Call(t, w) ==
  /\ th[t].pc = "idle"
  /\ requests < MaxRequests
  /\ requests' = requests + 1
  /\ Become(t, w)
Owned(t) == lock = t

-----------------------------------------------------------------------------
(* A page or a worker lists the strategies. *)
List(t) ==
  /\ Call(t, [Idle EXCEPT !.pc = "read", !.op = "list"])
  /\ UNCHANGED <<files, lock, blocks, asked, saved, removed>>

(* _CATALOG_LOCK is an RLock: a prune inside an append takes it again. *)
MayLockOnce(t) == lock = Nobody
MayLock(t) == lock \in {Nobody, t}

(* append_to_catalog of a fresh id; the strategy was validated against the  *)
(* blocks in memory.  mutate_catalog deletes by id.                         *)
Append(t) ==
  /\ \E s \in Specs \ (asked \cup refused) :
       /\ Uses[s] \in mem \cup {BuiltinOnly}
       /\ asked' = asked \cup {s}
       /\ Call(t, [Idle EXCEPT !.pc = "lock", !.op = "append", !.spec = {s}])
  /\ UNCHANGED <<files, lock, blocks, saved, removed>>

Remove(t) ==
  /\ \E s \in recs :
       Call(t, [Idle EXCEPT !.pc = "lock", !.op = "remove", !.spec = {s}])
  /\ UNCHANGED <<files, lock, blocks, asked, saved, removed>>

LockFree(t) ==
  /\ th[t].pc = "lock"
  /\ lock = Nobody
  /\ Become(t, [th[t] EXCEPT !.pc = "read"])
  /\ UNCHANGED <<files, lock, blocks, asked, saved, removed, requests>>
Lock(t) ==
  /\ th[t].pc = "lock"
  /\ lock = Nobody
  /\ lock' = t
  /\ Become(t, [th[t] EXCEPT !.pc = "read"])
  /\ UNCHANGED <<files, blocks, asked, saved, removed, requests>>

(* delete_custom_block: without force the dependents are looked up first. *)
DeleteBlock(t) ==
  /\ \E b \in Blocks, pc \in {"read", "unlink"} :
       Call(t, [Idle EXCEPT !.pc = pc, !.op = "delete", !.block = {b}])
  /\ UNCHANGED <<files, lock, blocks, asked, saved, removed>>

(* A block is edited in its chat, which may outlive it, and saved under its *)
(* name.                                                                    *)
EditBlock(t) ==
  /\ \E b \in Blocks :
       Call(t, [Idle EXCEPT !.pc = "save", !.op = "edit", !.block = {b}])
  /\ UNCHANGED <<files, lock, blocks, asked, saved, removed>>

Writes(t) == th[t].op \in {"append", "remove"} /\ th[t].pc # "lock"

-----------------------------------------------------------------------------
(* load_catalog, in the order of its reads. *)
ReadRaw(t) ==
  /\ th[t].pc = "read"
  /\ Become(t, [th[t] EXCEPT !.pc = "names", !.raw = recs, !.bad = broken])
  /\ UNCHANGED <<files, lock, blocks, asked, saved, removed, requests>>

(* A file that is missing, locked or no list of records is an empty catalog *)
(* to every caller, also to one that writes it back.                        *)
ReadRawFails(t) ==
  /\ th[t].pc = "read"
  /\ Become(t, [th[t] EXCEPT !.pc = "loaded"])
  /\ mishaps' = IF Writes(t) THEN mishaps \cup {"unread"} ELSE mishaps
  /\ UNCHANGED <<files, lock, disk, registry, gone, asked, saved, removed, requests>>

ReadNamesBlind(t) ==
  /\ th[t].pc = "names"
  /\ \/ Become(t, [th[t] EXCEPT !.pc = "filter", !.known = TRUE, !.names = disk])
     \/ Become(t, [th[t] EXCEPT !.pc = "filter", !.known = TRUE, !.names = {}])
  /\ UNCHANGED <<files, lock, blocks, asked, saved, removed, requests>>
ReadNames(t) ==
  /\ th[t].pc = "names"
  /\ \/ Become(t, [th[t] EXCEPT !.pc = "filter", !.known = TRUE, !.names = disk])
     \/ Become(t, [th[t] EXCEPT !.pc = "filter", !.known = FALSE])
  /\ UNCHANGED <<files, lock, blocks, asked, saved, removed, requests>>

(* _catalog_is_valid: a strategy whose block is on disk and not in          *)
(* BLOCK_CATALOG is kept unseen; any other is put to spec.validate(), which *)
(* looks its block up in BLOCK_REGISTRY.                                    *)
Passes(s) == s \notin refused /\ Uses[s] \in mem \cup {BuiltinOnly}
ValidIfLoaded(t) == {s \in th[t].raw : Uses[s] \in view /\ Passes(s)}
Valid(t) ==
  {s \in th[t].raw : IF Uses[s] \in view THEN Passes(s) ELSE Uses[s] \in th[t].names}

(* What is to be written back: not while a record could not be parsed, or   *)
(* while the validate hook of a block raised instead of answering.          *)
Prunes(t) == th[t].known /\ Valid(t) # th[t].raw /\ ~th[t].bad
Torn == view # mem \cup {BuiltinOnly}

Filter(t) ==
  /\ th[t].pc = "filter"
  /\ \E raised \in {FALSE} \cup {r \in {TRUE} : th[t].raw \cap refused # {}} :
       Become(t, [Idle EXCEPT !.op = th[t].op, !.spec = th[t].spec, !.block = th[t].block,
                    !.cat = IF th[t].known THEN Valid(t) ELSE th[t].raw,
                    !.pc = IF Prunes(t) /\ ~raised THEN "prune" ELSE "loaded"])
  /\ mishaps' = IF th[t].known /\ Torn THEN mishaps \cup {"torn"} ELSE mishaps
  /\ UNCHANGED <<files, lock, disk, registry, gone, asked, saved, removed, requests>>

(* save_catalog writes parsed strategies only. *)
SaveCatalog(cat) == recs' = cat /\ broken' = FALSE

Prune(t) ==
  /\ th[t].pc = "prune"
  /\ MayLock(t)
  /\ SaveCatalog(th[t].cat)
  /\ Become(t, [th[t] EXCEPT !.pc = "loaded"])
  /\ UNCHANGED <<lock, blocks, asked, saved, removed, requests>>

-----------------------------------------------------------------------------
(* What the caller does with the list. *)
ListDone(t) ==
  /\ th[t].pc = "loaded" /\ th[t].op = "list"
  /\ Become(t, Idle)
  /\ UNCHANGED <<files, lock, blocks, asked, saved, removed, requests>>

AppendSave(t) ==
  /\ th[t].pc = "loaded" /\ th[t].op = "append"
  /\ SaveCatalog(th[t].cat \cup th[t].spec)
  /\ saved' = saved \cup th[t].spec
  /\ lock' = Nobody
  /\ Become(t, Idle)
  /\ UNCHANGED <<blocks, asked, removed, requests>>

RemoveSave(t) ==
  /\ th[t].pc = "loaded" /\ th[t].op = "remove"
  /\ SaveCatalog(th[t].cat \ th[t].spec)
  /\ removed' = removed \cup th[t].spec
  /\ lock' = Nobody
  /\ Become(t, Idle)
  /\ UNCHANGED <<blocks, asked, saved, requests>>

Dependents(t) == {s \in th[t].cat : Uses[s] \in th[t].block}

DeleteChecked(t) ==
  /\ th[t].pc = "loaded" /\ th[t].op = "delete"
  /\ Become(t, IF Dependents(t) # {} THEN Idle
               ELSE [th[t] EXCEPT !.pc = "unlink"])
  /\ UNCHANGED <<files, lock, blocks, asked, saved, removed, requests>>

(* delete_custom commits to the store, then the memory registry follows. *)
DeleteOnDisk(t) ==
  /\ th[t].pc = "unlink"
  /\ disk' = disk \ th[t].block
  /\ gone' = gone \cup th[t].block
  /\ Become(t, [th[t] EXCEPT !.pc = "unregister"])
  /\ UNCHANGED <<files, lock, registry, mishaps, asked, saved, removed, requests>>

(* block_chat_save: the edited block goes over the old one on disk, the old *)
(* one leaves memory and the new one comes.                                 *)
SaveBlock(t) ==
  /\ th[t].pc = "save"
  /\ disk' = disk \cup th[t].block
  /\ Become(t, [th[t] EXCEPT !.pc = "unregister"])
  /\ UNCHANGED <<files, lock, registry, gone, mishaps, asked, saved, removed, requests>>

-----------------------------------------------------------------------------
(* The registry in memory, under its lock: one block leaves or comes, then  *)
(* BLOCK_CATALOG is cleared and filled again.  Its readers take no lock.    *)
NextOf(t) == IF th[t].op = "edit" THEN [th[t] EXCEPT !.pc = "register"] ELSE Idle

NotRegistered(t) ==
  /\ th[t].pc = "unregister" /\ registrar = Nobody
  /\ th[t].block \cap mem = {}
  /\ Become(t, NextOf(t))
  /\ UNCHANGED <<files, lock, blocks, asked, saved, removed, requests>>

Unregister(t) ==
  /\ th[t].pc = "unregister" /\ registrar = Nobody
  /\ th[t].block \cap mem # {}
  /\ mem' = mem \ th[t].block /\ registrar' = t
  /\ Become(t, [th[t] EXCEPT !.pc = "rebuild"])
  /\ UNCHANGED <<files, lock, disk, view, refused, gone, mishaps, asked, saved, removed, requests>>

(* A strategy saved with the old block may be refused by the new one.       *)
UsersOf(block) == {s \in Specs : Uses[s] \in block}
RegisterBlock(t) ==
  /\ th[t].pc = "register" /\ registrar = Nobody
  /\ th[t].block \subseteq disk
  /\ mem' = mem \cup th[t].block /\ registrar' = t
  /\ \E S \in SUBSET UsersOf(th[t].block) : refused' = (refused \ UsersOf(th[t].block)) \cup S
  /\ mishaps' = mishaps \cup Doubted(refused')
  /\ Become(t, [th[t] EXCEPT !.op = "replace", !.pc = "rebuild"])
  /\ UNCHANGED <<files, lock, disk, view, gone, asked, saved, removed, requests>>

(* The module does not load, or the block was deleted meanwhile.            *)
RegisterFails(t) ==
  /\ th[t].pc = "register"
  /\ Become(t, Idle)
  /\ UNCHANGED <<files, lock, blocks, asked, saved, removed, requests>>

ClearView(t) ==
  /\ th[t].pc = "rebuild"
  /\ view' = {}
  /\ Become(t, [th[t] EXCEPT !.pc = "refill"])
  /\ UNCHANGED <<files, lock, disk, mem, registrar, refused, gone, mishaps, asked, saved, removed, requests>>

FillView(t) ==
  /\ th[t].pc = "refill"
  /\ view' = mem \cup {BuiltinOnly} /\ registrar' = Nobody
  /\ Become(t, NextOf(t))
  /\ UNCHANGED <<files, lock, disk, mem, refused, gone, mishaps, asked, saved, removed, requests>>

-----------------------------------------------------------------------------
Request(t) == List(t) \/ Append(t) \/ Remove(t) \/ DeleteBlock(t) \/ EditBlock(t)
Load(t) == ReadRaw(t) \/ ReadRawFails(t) \/ ReadNames(t) \/ Filter(t) \/ Prune(t)
Finish(t) ==
  \/ ListDone(t) \/ AppendSave(t) \/ RemoveSave(t)
  \/ DeleteChecked(t) \/ DeleteOnDisk(t) \/ SaveBlock(t)
Rebuild(t) ==
  \/ NotRegistered(t) \/ Unregister(t) \/ RegisterBlock(t) \/ RegisterFails(t)
  \/ ClearView(t) \/ FillView(t)
Step(t) == Lock(t) \/ Load(t) \/ Finish(t) \/ Rebuild(t)

CatalogNext == \E t \in Threads : Request(t) \/ Step(t)

CatalogSpec == CatalogInit /\ [][CatalogNext]_catalogVars

(* A thread inside a call is scheduled. *)
CatalogFairness == \A t \in Threads : WF_catalogVars(Step(t))

-----------------------------------------------------------------------------
Calls == [pc : {"idle", "lock", "read", "names", "filter", "prune", "loaded",
                "unlink", "save", "unregister", "register", "rebuild", "refill"},
          op : {"none", "list", "append", "remove", "delete", "edit", "replace"},
          spec : SUBSET Specs, block : SUBSET Blocks, raw : SUBSET Specs,
          bad : BOOLEAN, known : BOOLEAN, names : SUBSET Blocks,
          cat : SUBSET Specs]

(* The type invariant; a read-modify-write call owns the lock throughout,   *)
(* and BLOCK_CATALOG is whole while nobody owns the registry's.             *)
CatalogTypeOK ==
  /\ recs \in SUBSET saved
  /\ broken \in BOOLEAN
  /\ lock \in Threads \cup {Nobody}
  /\ disk \in SUBSET Blocks /\ mem \in SUBSET Blocks /\ gone \in SUBSET Blocks
  /\ refused \in SUBSET Specs /\ mishaps \in SUBSET Mishaps
  /\ registrar \in Threads \cup {Nobody} /\ registrar = Nobody => ~Torn
  /\ th \in [Threads -> Calls]
  /\ asked \in SUBSET Specs /\ saved \in SUBSET asked
  /\ removed \in SUBSET saved
  /\ requests \in 0 .. MaxRequests
  /\ \A t \in Threads : Writes(t) <=> Owned(t)
  /\ \A t \in Threads : th[t].pc \in {"rebuild", "refill"} <=> registrar = t

(* While every block stays, every strategy passes validate(), no load meets *)
(* a rebuild of BLOCK_CATALOG and the calls that rewrite the file can read  *)
(* it, every strategy ever saved is in the file unless a user removed it:   *)
(* concurrent appends, removals and reads lose none, nor do blocks that     *)
(* failed to load or are edited, reads of the block registry that fail, and *)
(* pages that could not read the file.                                      *)
NothingLostWhileBlocksStay ==
  gone = {} /\ mishaps = {} => saved \ removed \subseteq recs

(* Every call returns: an append whose load prunes does not wait for the    *)
(* lock it holds itself.                                                    *)
CallsReturn == \A t \in Threads : (th[t].pc # "idle") ~> (th[t].pc = "idle")

(* "append_to_catalog prevents two concurrent runs from overwriting each    *)
(* other's new strategy": without a mishap a strategy leaves the file only  *)
(* when it was removed by a user or lost its block.                         *)
StrategiesKept ==
  [][\A s \in recs \ recs' :
       s \in removed' \/ Uses[s] \in gone \/ mishaps # {}]_catalogVars
=============================================================================
