------------------------------ MODULE MCStores ------------------------------
(***************************************************************************)
(* Instances of the two stores of strategies and blocks: one strategy with *)
(* a custom block and two without; the entry/exit pair of an AUTO          *)
(* candidate and a block a user wrote.  A behaviour runs one of the two,   *)
(* part says which.                                                        *)
(***************************************************************************)
EXTENDS StrategyCatalog, BlockStore, TLC

CONSTANTS b1, s1, s2, s3, entry, exit, own

VARIABLE part

StoresInit ==
  /\ part \in {"catalog", "blocks"} /\ CatalogInit /\ StoreInit
  /\ part = "blocks" => recs = {} /\ ~broken /\ mem = {}
  /\ refused = {}   \* an edited block brings them
  /\ recs \in {{}, {s2}, {s1, s2}}

StoresNext ==
  /\ UNCHANGED part
  /\ \/ part = "catalog" /\ CatalogNext /\ UNCHANGED storeVars
     \/ part = "blocks" /\ StoreNext /\ UNCHANGED catalogVars

storesVars == <<part, catalogVars, storeVars>>
StoresSpec ==
  StoresInit /\ [][StoresNext]_storesVars /\ CatalogFairness /\ StoreFairness

(* Every call on either store returns: an append whose load prunes and a    *)
(* save that registers do not wait for the lock they hold themselves.       *)
EveryCallReturns == CallsReturn /\ StoreCallsReturn

OneEach == s1 :> b1 @@ s2 :> BuiltinOnly @@ s3 :> BuiltinOnly
PairAndOwn == {{entry, exit}, {own}}
=============================================================================
