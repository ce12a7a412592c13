------------------------------ MODULE BlockStore ------------------------------
(***************************************************************************)
(* The custom-block store (custom_block_store.py): one module file per     *)
(* block, registry.json naming them, and the evaluators of composer's      *)
(* BLOCK_REGISTRY in memory.  Saves and deletes of related blocks are      *)
(* transactions under the registry guard: files first, then the registry   *)
(* by atomic replace, both restored on failure.  The server may die        *)
(* between any two writes; its restart imports what the registry names.    *)
(***************************************************************************)
EXTENDS Naturals, FiniteSets

CONSTANTS
  Writers,    \* request handlers and AUTO workers of the process
  Names,     \* block names
  Batches,    \* the sets of names saved or deleted together
  MaxCalls,   \* bound: calls made over a behaviour
  MaxFaults,  \* bound: file operations that fail
  MaxCrashes  \* bound: deaths of the server process

ASSUME BatchesAssumption == Batches \subseteq SUBSET Names
ASSUME StoreBoundsAssumption ==
  MaxCalls \in Nat /\ MaxFaults \in Nat /\ MaxCrashes \in Nat

Unguarded == "nobody"
ASSUME WritersAssumption == Unguarded \notin Writers

VARIABLES
  file,     \* version of the code in each module file, 0 for no file
  reg,      \* version of the metadata in registry.json, 0 for no entry
  evaluator, \* version of the evaluator in BLOCK_REGISTRY, 0 for none
  guard,    \* holder of _registry_guard
  tx,       \* the call each thread is in
  calls, faults, crashes,
  torn      \* a crash cut a transaction short, or a rollback failed

diskVars == <<file, reg>>
counts == <<calls, faults, crashes>>
storeVars == <<file, reg, evaluator, guard, tx, calls, faults, crashes, torn>>

Empty == [b \in Names |-> 0]

(* oldFile and oldReg are the transaction's snapshots; old names the files  *)
(* snapshot so far; fresh is the version being saved.                       *)
NoTx == [pc |-> "idle", op |-> "none", names |-> {}, todo |-> {}, old |-> {},
         reg |-> Empty, oldReg |-> Empty, oldFile |-> Empty, fresh |-> 0]

StoreInit ==
  /\ file = Empty /\ reg = Empty /\ evaluator = Empty
  /\ guard = Unguarded
  /\ tx = [t \in Writers |-> NoTx]
  /\ calls = 0 /\ faults = 0 /\ crashes = 0
  /\ torn = FALSE

Proceed(t, w) == tx' = [tx EXCEPT ![t] = w]
Fault == faults < MaxFaults /\ faults' = faults + 1
Over(m, names, v) == [b \in Names |-> IF b \in names THEN v[b] ELSE m[b]]

-----------------------------------------------------------------------------
(* save_custom_batch with AUTO's validate callback, or save_custom without; *)
(* delete_custom, delete_custom_batch, cleanup_agent_run.                   *)
StoreCall(t) ==
  /\ tx[t].pc = "idle"
  /\ calls < MaxCalls
  /\ calls' = calls + 1
  /\ \E ns \in Batches, op \in {"save", "savecheck", "delete"} :
       Proceed(t, [NoTx EXCEPT !.pc = "enter", !.op = op, !.names = ns,
                              !.fresh = calls + 1])
  /\ UNCHANGED <<diskVars, evaluator, guard, faults, crashes, torn>>

(* The guard, then the transaction's snapshot of the registry.  A delete    *)
(* keeps the names it finds; a registry that cannot be read ends the call.  *)
Chosen(t) == IF tx[t].op = "delete"
             THEN {b \in tx[t].names : reg[b] # 0} ELSE tx[t].names

EnterUnguarded(t) ==
  /\ tx[t].pc = "enter"
  /\ Chosen(t) # {}
  /\ guard' = t
  /\ Proceed(t, [tx[t] EXCEPT !.pc = "files", !.names = Chosen(t),
                  !.todo = Chosen(t), !.reg = reg, !.oldReg = reg])
  /\ UNCHANGED <<diskVars, evaluator, counts, torn>>
Enter(t) ==
  /\ tx[t].pc = "enter"
  /\ guard = Unguarded
  /\ Chosen(t) # {}
  /\ guard' = t
  /\ Proceed(t, [tx[t] EXCEPT !.pc = "files", !.names = Chosen(t),
                  !.todo = Chosen(t), !.reg = reg, !.oldReg = reg])
  /\ UNCHANGED <<diskVars, evaluator, counts, torn>>

NothingToDo(t) ==
  /\ tx[t].pc = "enter"
  /\ guard = Unguarded
  /\ \/ Chosen(t) = {} /\ UNCHANGED faults
     \/ Fault
  /\ Proceed(t, NoTx)
  /\ UNCHANGED <<diskVars, evaluator, guard, calls, crashes, torn>>

-----------------------------------------------------------------------------
(* One file: snapshot, then write or unlink, then the entry in the copy.    *)
Version(t) == IF tx[t].op = "delete" THEN 0 ELSE tx[t].fresh

SnapshotAfter(t, b) == [tx[t].oldFile EXCEPT ![b] = Version(t)]
Snapshot(t, b) == [tx[t].oldFile EXCEPT ![b] = file[b]]

TouchFile(t) ==
  /\ tx[t].pc = "files"
  /\ \E b \in tx[t].todo :
       /\ file' = [file EXCEPT ![b] = Version(t)]
       /\ Proceed(t, [tx[t] EXCEPT !.todo = @ \ {b}, !.old = @ \cup {b},
                       !.oldFile = Snapshot(t, b), !.reg[b] = Version(t)])
  /\ UNCHANGED <<reg, evaluator, guard, counts, torn>>

TouchFails(t) ==
  /\ tx[t].pc = "files"
  /\ \E b \in tx[t].todo :
       Proceed(t, [tx[t] EXCEPT !.pc = "undo", !.old = @ \cup {b},
                               !.oldFile = Snapshot(t, b)])
  /\ Fault
  /\ UNCHANGED <<diskVars, evaluator, guard, calls, crashes, torn>>

(* _write_registry: a temporary file of its own, then replace. *)
Commit(t) ==
  /\ tx[t].pc = "files"
  /\ tx[t].todo = {}
  /\ reg' = tx[t].reg
  /\ Proceed(t, [tx[t] EXCEPT !.pc = IF tx[t].op = "savecheck"
                                    THEN "register" ELSE "done",
                             !.todo = tx[t].names])
  /\ UNCHANGED <<file, evaluator, guard, counts, torn>>

CommitFails(t) ==
  /\ tx[t].pc = "files"
  /\ tx[t].todo = {}
  /\ Fault
  /\ Proceed(t, [tx[t] EXCEPT !.pc = "undo"])
  /\ UNCHANGED <<diskVars, evaluator, guard, calls, crashes, torn>>

-----------------------------------------------------------------------------
(* AUTO's validate: register the batch in memory while the transaction is   *)
(* open (register_custom_from_disk takes the guard again), validate the     *)
(* strategy, and on failure unregister what was registered.                 *)
MayEnterOnce(t) == guard = Unguarded
MayEnter(t) == guard \in {Unguarded, t}

Register(t) ==
  /\ tx[t].pc = "register"
  /\ MayEnter(t)
  /\ \E b \in tx[t].todo :
       /\ evaluator' = [evaluator EXCEPT ![b] = file[b]]
       /\ Proceed(t, [tx[t] EXCEPT !.todo = @ \ {b}])
  /\ UNCHANGED <<diskVars, guard, counts, torn>>

Validated(t) ==
  /\ tx[t].pc = "register"
  /\ tx[t].todo = {}
  /\ Proceed(t, [tx[t] EXCEPT !.pc = "done"])
  /\ UNCHANGED <<diskVars, evaluator, guard, counts, torn>>

Forgotten(t) == evaluator
Unregistered(t) == Over(evaluator, tx[t].names \ tx[t].todo, Empty)

ValidateFails(t) ==
  /\ tx[t].pc = "register"
  /\ tx[t].todo # {} => MayEnter(t)     \* a block that cannot be registered
  /\ evaluator' = Unregistered(t)
  /\ Proceed(t, [tx[t] EXCEPT !.pc = "undo"])
  /\ UNCHANGED <<diskVars, guard, counts, torn>>

-----------------------------------------------------------------------------
(* The rollback restores every file it has a snapshot of, then the          *)
(* registry; a restore that fails is logged and skipped.                    *)
UndoFile(t) ==
  /\ tx[t].pc = "undo"
  /\ \E b \in tx[t].old :
       /\ \/ file' = [file EXCEPT ![b] = tx[t].oldFile[b]]
             /\ UNCHANGED <<faults, torn>>
          \/ Fault /\ torn' = TRUE /\ UNCHANGED file
       /\ Proceed(t, [tx[t] EXCEPT !.old = @ \ {b}])
  /\ UNCHANGED <<reg, evaluator, guard, calls, crashes>>

RegistryBefore(t) == tx[t].oldReg

UndoRegistry(t) ==
  /\ tx[t].pc = "undo"
  /\ tx[t].old = {}
  /\ \/ reg' = RegistryBefore(t) /\ UNCHANGED <<faults, torn>>
     \/ Fault /\ torn' = TRUE /\ UNCHANGED reg
  /\ guard' = Unguarded
  /\ Proceed(t, NoTx)
  /\ UNCHANGED <<file, evaluator, calls, crashes>>

(* The guard is released; a delete makes memory follow, after it.           *)
Release(t) ==
  /\ tx[t].pc = "done"
  /\ guard' = Unguarded
  /\ Proceed(t, IF tx[t].op = "delete"
               THEN [tx[t] EXCEPT !.pc = "unregister"] ELSE NoTx)
  /\ UNCHANGED <<diskVars, evaluator, counts, torn>>

UnregisterAll(t) ==
  /\ tx[t].pc = "unregister"
  /\ evaluator' = Over(evaluator, tx[t].names, Empty)
  /\ Proceed(t, NoTx)
  /\ UNCHANGED <<diskVars, guard, counts, torn>>

-----------------------------------------------------------------------------
(* The process dies and starts again: the operating system frees the guard, *)
(* _load_custom_blocks imports what the registry names and skips a module   *)
(* that is not there.                                                       *)
Crash ==
  /\ crashes < MaxCrashes
  /\ crashes' = crashes + 1
  /\ evaluator' = [b \in Names |-> IF reg[b] # 0 THEN file[b] ELSE 0]
  /\ guard' = Unguarded
  /\ tx' = [t \in Writers |-> NoTx]
  /\ torn' = (torn \/ guard # Unguarded)
  /\ UNCHANGED <<diskVars, calls, faults>>

StoreStep(t) ==
  \/ Enter(t) \/ NothingToDo(t)
  \/ TouchFile(t) \/ TouchFails(t) \/ Commit(t) \/ CommitFails(t)
  \/ Register(t) \/ Validated(t) \/ ValidateFails(t)
  \/ UndoFile(t) \/ UndoRegistry(t) \/ Release(t) \/ UnregisterAll(t)

StoreNext == (\E t \in Writers : StoreCall(t) \/ StoreStep(t)) \/ Crash

StoreSpec == StoreInit /\ [][StoreNext]_storeVars

(* A thread inside a call is scheduled; calls and crashes are bounded. *)
StoreFairness == \A t \in Writers : WF_storeVars(StoreStep(t))

-----------------------------------------------------------------------------
Versions == [Names -> 0 .. MaxCalls]
Txs == [pc : {"idle", "enter", "files", "register", "undo", "done",
              "unregister"},
        op : {"none", "save", "savecheck", "delete"},
        names : SUBSET Names, todo : SUBSET Names, old : SUBSET Names,
        reg : Versions, oldReg : Versions, oldFile : Versions,
        fresh : 0 .. MaxCalls]
Inside(t) == tx[t].pc \in {"files", "register", "undo", "done"}

(* The type invariant; a transaction is open exactly under the guard.       *)
StoreTypeOK ==
  /\ file \in Versions /\ reg \in Versions /\ evaluator \in Versions
  /\ guard \in Writers \cup {Unguarded}
  /\ tx \in [Writers -> Txs]
  /\ calls \in 0 .. MaxCalls /\ faults \in 0 .. MaxFaults
  /\ crashes \in 0 .. MaxCrashes
  /\ torn \in BOOLEAN
  /\ \A t \in Writers : Inside(t) <=> guard = t

(* Outside transactions the registry promises no module that is not there   *)
(* and no file goes unregistered, in the same version: whatever step of a   *)
(* save or delete failed, as long as its rollback did not.                  *)
FilesMatchRegistry == guard = Unguarded /\ ~torn => file = reg

(* While no call is under way, an evaluator in memory has its registry      *)
(* entry: no failed save and no delete that returned leaves one behind.     *)
MemoryHasItsBlock ==
  (~torn /\ \A t \in Writers : tx[t].pc \in {"idle", "enter"}) =>
     \A b \in Names : evaluator[b] # 0 => reg[b] # 0

(* Files, registry and memory tell the same blocks, after every mixture of  *)
(* saves, failed validations, failing file operations and deletes.          *)
BlocksAgree == FilesMatchRegistry /\ MemoryHasItsBlock

(* Every call returns: registering inside the transaction does not wait for *)
(* the guard the call holds itself.                                         *)
StoreCallsReturn == \A t \in Writers : (tx[t].pc # "idle") ~> (tx[t].pc = "idle")

(* delete_custom_batch removes an entry/exit pair "so a crash cannot leave  *)
(* a single orphan that is imported on the next server start".              *)
NoOrphanImported ==
  [][(crashes' # crashes /\ \A t \in Writers : Inside(t) => tx[t].op = "delete") =>
       \A ns \in Batches :
         (\A b \in ns : evaluator'[b] = 0) \/ (\A b \in ns : evaluator'[b] # 0)]_storeVars
=============================================================================
