------------------------------ MODULE PeerKeys ------------------------------
(***************************************************************************)
(* What the key store promises its callers, with no memory in sight: an    *)
(* identity and at most MAX_ENTRIES keys, each addressed by (peer, epoch). *)
(* A key appears or changes only by an install into its slot, and goes     *)
(* only by a retirement of its slot or with all the others.  KeyStore.tla  *)
(* implements this specification.                                          *)
(***************************************************************************)
EXTENDS KeyTable

CONSTANTS
    Ids,            \* identities a store may be opened under
    Slots,          \* slots callers name
    Material,       \* keys
    Full(_, _)      \* no room for a key in this slot

VARIABLES id, keys

NoId == -1                  \* STORE is None

PeerKeysInit == id = NoId /\ keys = EmptyTable

Open(n) ==
    /\ id = NoId
    /\ id' = n
    /\ keys' = EmptyTable

Put(slot, m) ==
    /\ id # NoId
    /\ ~Full(keys, slot)
    /\ keys' = insert(keys, slot, m)
    /\ UNCHANGED id

Forget(slot) ==
    /\ id # NoId
    /\ keys' = remove(keys, slot)
    /\ UNCHANGED id

ForgetAll == keys' = EmptyTable /\ UNCHANGED id

Close == id' = NoId /\ keys' = EmptyTable

PeerKeysNext ==
    \/ \E n \in Ids : Open(n)
    \/ \E slot \in Slots :
          \/ \E m \in Material : Put(slot, m)
          \/ Forget(slot)
    \/ ForgetAll
    \/ Close

PeerKeysSpec == PeerKeysInit /\ [][PeerKeysNext]_<<id, keys>>

=============================================================================
