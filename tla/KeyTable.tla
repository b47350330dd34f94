------------------------------ MODULE KeyTable ------------------------------
(***************************************************************************)
(* The map at the heart of src/keystore.rs, BTreeMap<(u16, Epoch), _>, as  *)
(* a function whose domain is the set of occupied slots.  The operators    *)
(* are those the store applies to it; what a slot holds is left open.      *)
(***************************************************************************)
EXTENDS Codec, FiniteSets

CONSTANT MAX_ENTRIES        \* 1024 in the code

ASSUME CapacityAssumption == MAX_ENTRIES \in Nat \ {0}

Slot == U16 \X Epoch

EmptyTable == [slot \in {} |-> 0]

len(table) == Cardinality(DOMAIN table)

contains_key(table, slot) == slot \in DOMAIN table

(* BTreeMap::insert and BTreeMap::remove. *)
insert(table, slot, value) ==
    [s \in DOMAIN table \cup {slot} |-> IF s = slot THEN value ELSE table[s]]

remove_peer(table, slot) ==
    [s \in {t \in DOMAIN table : t[1] # slot[1]} |-> table[s]]

remove(table, slot) == [s \in DOMAIN table \ {slot} |-> table[s]]

(* install's capacity gate: only a NEW slot can find the store full. *)
full_off_by_one(table, slot) ==
    ~contains_key(table, slot) /\ len(table) > MAX_ENTRIES

full(table, slot) ==
    ~contains_key(table, slot) /\ len(table) >= MAX_ENTRIES

(* The range scan (peer, 0)..=(peer, MAX_EPOCH). *)
installed_epochs(table, peer) ==
    {s[2] : s \in {t \in DOMAIN table : t[1] = peer}}

peer_known(table, peer) == installed_epochs(table, peer) # {}

(* key_for_send_current: next_back of that range is the highest epoch. *)
key_for_send_current(table, peer) ==
    CHOOSE e \in installed_epochs(table, peer) :
        \A f \in installed_epochs(table, peer) : f <= e

=============================================================================
