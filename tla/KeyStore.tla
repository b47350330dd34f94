------------------------------ MODULE KeyStore ------------------------------
(***************************************************************************)
(* The secure key store of src/keystore.rs over the guarded allocations of *)
(* src/sodium.rs.  entries maps each occupied slot to the address of its   *)
(* StoredKey; heap is every live guarded allocation and the material in    *)
(* it.  An allocation leaves heap exactly when sodium_free runs on it, so  *)
(* key material that is still in heap is key material not yet erased.      *)
(***************************************************************************)
EXTENDS KeyTable

CONSTANTS
    PeerArg,    \* node ids callers pass (u32 at the C ABI)
    EpochArg,   \* epochs callers pass (u32 at the C ABI)
    Material,   \* 32-byte keys
    Addr        \* addresses sodium_malloc may return

ASSUME ArgAssumption == PeerArg \subseteq Nat /\ EpochArg \subseteq Nat

VARIABLES
    local_id,   \* KeyStore.local_id, or NoId while there is no store
    entries,    \* KeyStore.entries: slot -> address
    heap        \* address -> material

storeVars == <<local_id, entries, heap>>

NoId == -1

StoreInit ==
    /\ local_id = NoId
    /\ entries = EmptyTable
    /\ heap = [a \in {} |-> 0]

-----------------------------------------------------------------------------
(* Guarded memory: GuardedAllocation::new followed by the copy of the      *)
(* material, and the drop (sodium_memzero, then sodium_free).              *)

sodium_malloc(h, a, m) ==
    [b \in DOMAIN h \cup {a} |-> IF b = a THEN m ELSE h[b]]

sodium_free(h, freed) == [b \in DOMAIN h \ freed |-> h[b]]

(* The allocation held by a slot, as a set: empty for a vacant slot. *)
Held(slot) == {entries[s] : s \in {slot} \cap DOMAIN entries}

(* KeyStore::new, after sodium::init has succeeded. *)
new(id) ==
    /\ local_id = NoId
    /\ local_id' = id
    /\ entries' = EmptyTable
    /\ UNCHANGED heap

(* StoredKey::new when the allocation fails, or when mlock refuses it and  *)
(* the `?' drops the allocation just made.                                 *)
stored_key_failed(m) ==
    \/ UNCHANGED heap
    \/ \E a \in Addr \ DOMAIN heap :
          heap' = sodium_free(sodium_malloc(heap, a, m), {a})

(* install: the capacity gate comes before any allocation, and the new key *)
(* is allocated and locked before the one it replaces is dropped.          *)
install_full(slot, m) ==
    /\ local_id # NoId
    /\ full(entries, slot)
    /\ UNCHANGED storeVars

install_drops_first(slot, m) ==
    /\ local_id # NoId
    /\ ~full(entries, slot)
    /\ entries' = remove(entries, slot)
    /\ heap' = sodium_free(heap, Held(slot))
    /\ UNCHANGED local_id

install_failed(slot, m) ==
    /\ local_id # NoId
    /\ ~full(entries, slot)
    /\ stored_key_failed(m)
    /\ UNCHANGED <<local_id, entries>>

install_keeps_replaced(slot, m) ==
    /\ local_id # NoId
    /\ ~full(entries, slot)
    /\ \E a \in Addr \ DOMAIN heap :
          /\ entries' = insert(entries, slot, a)
          /\ heap' = sodium_malloc(heap, a, m)
    /\ UNCHANGED local_id

install_replaces_peer(slot, m) ==
    LET gone == {s \in DOMAIN entries : s[1] = slot[1]}
    IN  /\ local_id # NoId
        /\ ~full(entries, slot)
        /\ \E a \in Addr \ DOMAIN heap :
              /\ entries' = insert(remove_peer(entries, slot), slot, a)
              /\ heap' = sodium_free(sodium_malloc(heap, a, m), {entries[s] : s \in gone})
        /\ UNCHANGED local_id

install_ok(slot, m) ==
    /\ local_id # NoId
    /\ ~full(entries, slot)
    /\ \E a \in Addr \ DOMAIN heap :
          /\ entries' = insert(entries, slot, a)
          /\ heap' = sodium_free(sodium_malloc(heap, a, m), Held(slot))
    /\ UNCHANGED local_id

(* retire: BTreeMap::remove drops the key of that slot and no other. *)
retire(slot) ==
    /\ local_id # NoId
    /\ entries' = remove(entries, slot)
    /\ heap' = sodium_free(heap, Held(slot))
    /\ UNCHANGED local_id

clear ==
    /\ local_id # NoId
    /\ entries' = EmptyTable
    /\ heap' = sodium_free(heap, {entries[s] : s \in DOMAIN entries})
    /\ UNCHANGED local_id

(* Dropping the KeyStore drops the map and with it every StoredKey. *)
drop_store_leaking ==
    /\ local_id' = NoId
    /\ entries' = EmptyTable
    /\ UNCHANGED heap

drop_store ==
    /\ local_id' = NoId
    /\ entries' = EmptyTable
    /\ heap' = sodium_free(heap, {entries[s] : s \in DOMAIN entries})

(* The arguments that survive the range checks. *)
Ids == PeerArg \cap U16

Slots == Ids \X (EpochArg \cap Epoch)

StoreNext ==
    \/ \E n \in Ids : new(n)
    \/ \E slot \in Slots :
          \/ \E m \in Material :
                \/ install_full(slot, m)
                \/ install_failed(slot, m)
                \/ install_ok(slot, m)
          \/ retire(slot)
    \/ clear
    \/ drop_store

StoreSpec == StoreInit /\ [][StoreNext]_storeVars

-----------------------------------------------------------------------------
(* Type invariant of the store. *)
StoreTypeOK ==
    /\ local_id \in U16 \cup {NoId}
    /\ DOMAIN entries \subseteq Slot
    /\ entries \in [DOMAIN entries -> Addr]
    /\ DOMAIN heap \subseteq Addr
    /\ heap \in [DOMAIN heap -> Material]

(* Guarded memory holds the material of the installed keys and nothing     *)
(* else, one allocation per slot: no error path of install leaks one, no   *)
(* overwrite, retirement, clear or drop leaves one behind, no slot points  *)
(* at memory that was freed, and without a store there is no key material. *)
HeapHoldsInstalledKeysOnly ==
    /\ DOMAIN heap = {entries[s] : s \in DOMAIN entries}
    /\ \A s, t \in DOMAIN entries : entries[s] = entries[t] => s = t
    /\ local_id = NoId => DOMAIN heap = {}

(* The store never holds more than MAX_ENTRIES keys, so the pages it pins  *)
(* stay within the documented bound even across overwrites at capacity.    *)
WithinCapacity == len(entries) <= MAX_ENTRIES

(* The store seen through expose(): slot -> material. *)
contents == [s \in DOMAIN entries |-> heap[entries[s]]]

Promise == INSTANCE PeerKeys WITH id <- local_id, keys <- contents, Full <- full

(* The store implements PeerKeys: seen from outside, an install that fails *)
(* changes nothing, an install that succeeds changes one slot, and erasure *)
(* is scoped to the slots it names.                                        *)
ImplementsPeerKeys == Promise!PeerKeysSpec

=============================================================================
