---------------------------- MODULE AtomicStore ----------------------------
(***************************************************************************)
(* What the metadata WAL promises for a power loss, without saying how:    *)
(* a store of locations that changes only by whole transactions, each of   *)
(* them newer than everything the store holds.  A power loss changes       *)
(* nothing.                                                                *)
(***************************************************************************)
EXTENDS Naturals

CONSTANTS Key,    \* the metadata locations
          Ids     \* the transactions, in the order of their commits

VARIABLE store    \* store[k]: the transaction whose post-image k holds

StoreInit == store = [k \in Key |-> 0]

Commit(id, keys) ==
    /\ \A k \in Key : store[k] < id
    /\ store' = [k \in Key |-> IF k \in keys THEN id ELSE store[k]]

StoreNext == \E id \in Ids, keys \in SUBSET Key : Commit(id, keys)

StoreSpec == StoreInit /\ [][StoreNext]_store
============================================================================
