------------------------------ MODULE FfiProofs ------------------------------
(***************************************************************************)
(* Proofs about the C ABI session, for every capacity, counter width,      *)
(* address space and set of arguments and datagrams.                       *)
(*                                                                         *)
(* Every call is first shown to act on each part of the state by at most   *)
(* one operation of the module that owns it; the invariants then follow    *)
(* from those operations alone.                                            *)
(***************************************************************************)
EXTENDS Ffi, FramesProofs, FiniteSetTheorems

(* The provers get time enough on a slow machine. *)
USE SMTT(30), ZenonT(30)

-----------------------------------------------------------------------------
(* The key store by itself.  The inductive invariant is the conjunction of *)
(* its type invariant, HeapHoldsInstalledKeysOnly and Bounded.             *)

(* A store holds finitely many keys, no more than its capacity. *)
Bounded == IsFiniteSet(DOMAIN entries) /\ WithinCapacity

StoreInv == StoreTypeOK /\ HeapHoldsInstalledKeysOnly /\ Bounded

-----------------------------------------------------------------------------
(* What seal hands out. *)

OpensAtPeer(f) ==
    LET h == parsed_header(f.prefix)
        e == parsed_flags(f.prefix).epoch
    IN  /\ h.from_id = local_id
        /\ \A o \in installed_epochs(contents, h.to_id) : o <= e
        /\ open_verdict(h.to_id, mirror(h.to_id), f) = "Ok"

(* The frame is sealed under the current key of its destination, which the *)
(* destination holds under this node's id.                                 *)
LEMMA StandardOpensAtPeer ==
  ASSUME StoreInv, configured, NEW to \in U16, peer_known(contents, to),
         NEW c \in ChannelArg, NEW payload \in PayloadArg, NEW nonce, NEW f,
         f = standard_frame(local_id, contents, to, c, key_for_send_current(contents, to),
                            payload, nonce)
  PROVE  OpensAtPeer(f)
<1> DEFINE e == key_for_send_current(contents, to)
           theirs == mirror(to)
<1>1. local_id \in U16 /\ DOMAIN contents \subseteq U16 \X Epoch
  BY DEF StoreInv, StoreTypeOK, configured, contents, Slot
<1>2. /\ <<to, e>> \in DOMAIN contents
      /\ e \in Epoch
      /\ \A o \in installed_epochs(contents, to) : o <= e
  BY <1>1, HighestIsCurrent, ZenonT(30)
<1>3. c \in U32 /\ payload # Noise /\ payload.len \in Nat
  BY SessionAssumption
<1>4. e \in installed_epochs(contents, to)
  BY <1>2 DEF installed_epochs
<1>5. <<local_id, e>> \in DOMAIN theirs /\ theirs[<<local_id, e>>] = contents[<<to, e>>]
  BY <1>4, Zenon DEF mirror
<1> HIDE DEF e, theirs
<1>6. f = standard_frame(local_id, contents, to, c, e, payload, nonce)
  BY DEF e
<1>7. /\ parsed_header(f.prefix).from_id = local_id /\ parsed_header(f.prefix).to_id = to
      /\ parsed_flags(f.prefix).epoch = e
      /\ open_verdict(to, theirs, f) = "Ok"
  <2>1. PICK n, mine : n = local_id /\ mine = contents
    BY Zenon
  <2>2. /\ n \in U16 /\ <<n, e>> \in DOMAIN theirs /\ theirs[<<n, e>>] = mine[<<to, e>>]
        /\ f = standard_frame(n, mine, to, c, e, payload, nonce)
    BY <1>1, <1>5, <1>6, <2>1, Zenon
  <2>3. /\ parsed_header(f.prefix).from_id = n /\ parsed_header(f.prefix).to_id = to
        /\ parsed_flags(f.prefix).epoch = e
        /\ open_verdict(to, theirs, f) = "Ok"
    BY <1>2, <1>3, <2>2, StandardOpens
  <2> QED
    BY <2>1, <2>3, Zenon
<1> QED
  BY <1>2, <1>7, Zenon DEF OpensAtPeer, theirs

-----------------------------------------------------------------------------
(* An insert that passed the capacity gate stays within capacity, and so   *)
(* does any removal.                                                       *)
LEMMA InsertBounded ==
  ASSUME Bounded, NEW s, NEW v, ~full(entries, s)
  PROVE  /\ IsFiniteSet(DOMAIN insert(entries, s, v))
         /\ len(insert(entries, s, v)) <= MAX_ENTRIES
<1>1. DOMAIN insert(entries, s, v) = DOMAIN entries \cup {s}
  BY DEF insert
<1>2. Cardinality(DOMAIN entries) \in Nat
  BY FS_CardinalityType DEF Bounded
<1>3. /\ IsFiniteSet(DOMAIN entries \cup {s})
      /\ Cardinality(DOMAIN entries \cup {s}) =
            IF s \in DOMAIN entries THEN Cardinality(DOMAIN entries)
                                    ELSE Cardinality(DOMAIN entries) + 1
  BY FS_AddElement DEF Bounded
<1> QED
  BY <1>1, <1>2, <1>3, CapacityAssumption
  DEF Bounded, WithinCapacity, full, contains_key, len

(* A removal stays within capacity. *)
LEMMA RemoveBounded ==
  ASSUME Bounded, NEW s
  PROVE  /\ IsFiniteSet(DOMAIN remove(entries, s))
         /\ len(remove(entries, s)) <= MAX_ENTRIES
<1>1. DOMAIN remove(entries, s) \in SUBSET (DOMAIN entries)
  BY DEF remove
<1>2. Cardinality(DOMAIN entries) \in Nat
  BY FS_CardinalityType DEF Bounded
<1>3. /\ IsFiniteSet(DOMAIN remove(entries, s))
      /\ Cardinality(DOMAIN remove(entries, s)) <= Cardinality(DOMAIN entries)
  BY <1>1, FS_Subset DEF Bounded
<1>4. Cardinality(DOMAIN remove(entries, s)) \in Nat
  BY <1>3, FS_CardinalityType
<1> QED
  BY <1>2, <1>3, <1>4, CapacityAssumption DEF Bounded, WithinCapacity, len

(* The empty table is within capacity. *)
LEMMA EmptyBounded ==
  IsFiniteSet(DOMAIN EmptyTable) /\ len(EmptyTable) <= MAX_ENTRIES
<1>1. DOMAIN EmptyTable = {}
  BY DEF EmptyTable
<1> QED
  BY <1>1, FS_EmptySet, CapacityAssumption DEF len

-----------------------------------------------------------------------------
(* One lemma per operation of the store. *)

(* KeyStore::new preserves the invariant. *)
LEMMA NewPreserves ==
  ASSUME StoreInv, NEW n \in U16, new(n)
  PROVE  StoreInv'
<1>1. DOMAIN EmptyTable = {}
  BY DEF EmptyTable
<1>2. StoreTypeOK'
  BY <1>1 DEF StoreInv, StoreTypeOK, new, EmptyTable, Slot
<1>3. HeapHoldsInstalledKeysOnly'
  <2>1. DOMAIN heap' = {} /\ DOMAIN entries' = {}
    BY <1>1 DEF StoreInv, HeapHoldsInstalledKeysOnly, new
  <2> QED
    BY <2>1 DEF HeapHoldsInstalledKeysOnly
<1>4. Bounded'
  BY EmptyBounded DEF new, Bounded, WithinCapacity, len
<1> QED
  BY <1>2, <1>3, <1>4 DEF StoreInv

(* A successful install preserves it: the replaced key is freed, no other is. *)
LEMMA InstallOkPreserves ==
  ASSUME StoreInv, NEW s \in Slot, NEW m \in Material, install_ok(s, m)
  PROVE  StoreInv'
<1>1. PICK a \in Addr \ DOMAIN heap :
        /\ entries' = insert(entries, s, a)
        /\ heap' = sodium_free(sodium_malloc(heap, a, m), Held(s))
  BY DEF install_ok
<1>2. /\ local_id # NoId /\ local_id' = local_id
      /\ ~full(entries, s)
  BY DEF install_ok
<1>3. /\ DOMAIN entries' = DOMAIN entries \cup {s}
      /\ entries'[s] = a
      /\ \A x \in DOMAIN entries \ {s} : entries'[x] = entries[x]
  BY <1>1 DEF insert
<1>4. /\ DOMAIN heap' = (DOMAIN heap \cup {a}) \ Held(s)
      /\ \A b \in DOMAIN heap' : heap'[b] = IF b = a THEN m ELSE heap[b]
  BY <1>1 DEF sodium_malloc, sodium_free
<1>5. Held(s) = IF s \in DOMAIN entries THEN {entries[s]} ELSE {}
  BY DEF Held
<1>6. a \notin Held(s)
  BY <1>5 DEF StoreInv, HeapHoldsInstalledKeysOnly
<1>7. StoreTypeOK'
  <2>1. DOMAIN entries' \subseteq Slot /\ entries' \in [DOMAIN entries' -> Addr]
    BY <1>1, <1>3 DEF StoreInv, StoreTypeOK, insert
  <2>2. DOMAIN heap' \subseteq Addr
    BY <1>4 DEF StoreInv, StoreTypeOK
  <2>3. heap' \in [DOMAIN heap' -> Material]
    <3>1. heap' = [b \in DOMAIN heap' |-> heap'[b]]
      BY <1>1 DEF sodium_free
    <3>2. \A b \in DOMAIN heap' : heap'[b] \in Material
      BY <1>4 DEF StoreInv, StoreTypeOK
    <3> QED
      BY <3>1, <3>2
  <2> QED
    BY <1>2, <2>1, <2>2, <2>3 DEF StoreInv, StoreTypeOK
<1>8. HeapHoldsInstalledKeysOnly'
  <2>1. \A x, y \in DOMAIN entries' : entries'[x] = entries'[y] => x = y
    BY <1>3 DEF StoreInv, HeapHoldsInstalledKeysOnly
  <2>2. DOMAIN heap' = {entries'[x] : x \in DOMAIN entries'}
    BY <1>3, <1>4, <1>5, <1>6 DEF StoreInv, HeapHoldsInstalledKeysOnly
  <2> QED
    BY <1>2, <2>1, <2>2 DEF HeapHoldsInstalledKeysOnly
<1>9. Bounded'
  BY <1>1, <1>2, InsertBounded DEF StoreInv, Bounded, WithinCapacity, len
<1> QED
  BY <1>7, <1>8, <1>9 DEF StoreInv

(* A failed install changes nothing: what it allocated it frees. *)
LEMMA InstallFailedPreserves ==
  ASSUME StoreInv, NEW s \in Slot, NEW m \in Material, install_failed(s, m)
  PROVE  UNCHANGED storeVars
<1>1. ASSUME NEW a \in Addr \ DOMAIN heap
      PROVE  sodium_free(sodium_malloc(heap, a, m), {a}) = heap
  BY <1>1 DEF sodium_free, sodium_malloc, StoreInv, StoreTypeOK
<1> QED
  BY <1>1, Zenon DEF install_failed, stored_key_failed, storeVars

(* retire preserves it. *)
LEMMA RetirePreserves ==
  ASSUME StoreInv, NEW s \in Slot, retire(s)
  PROVE  StoreInv'
<1>1. /\ DOMAIN entries' = DOMAIN entries \ {s}
      /\ \A x \in DOMAIN entries \ {s} : entries'[x] = entries[x]
  BY DEF retire, remove
<1>2. /\ DOMAIN heap' = DOMAIN heap \ Held(s)
      /\ \A b \in DOMAIN heap' : heap'[b] = heap[b]
  BY DEF retire, sodium_free
<1>3. Held(s) = IF s \in DOMAIN entries THEN {entries[s]} ELSE {}
  BY DEF Held
<1>4. StoreTypeOK'
  BY <1>1, <1>2 DEF StoreInv, StoreTypeOK, retire, remove, sodium_free
<1>5. HeapHoldsInstalledKeysOnly'
  <2>1. \A x, y \in DOMAIN entries' : entries'[x] = entries'[y] => x = y
    BY <1>1 DEF StoreInv, HeapHoldsInstalledKeysOnly
  <2>2. DOMAIN heap' = {entries'[x] : x \in DOMAIN entries'}
    BY <1>1, <1>2, <1>3 DEF StoreInv, HeapHoldsInstalledKeysOnly
  <2> QED
    BY <2>1, <2>2 DEF HeapHoldsInstalledKeysOnly, retire
<1>6. Bounded'
  BY RemoveBounded DEF retire, StoreInv, Bounded, WithinCapacity, len
<1> QED
  BY <1>4, <1>5, <1>6 DEF StoreInv

(* clear and the drop of the store both free exactly what the map holds. *)
LEMMA EmptyingPreserves ==
  ASSUME StoreInv, clear \/ drop_store
  PROVE  StoreInv'
<1>1. DOMAIN EmptyTable = {}
  BY DEF EmptyTable
<1>2. entries' = EmptyTable /\ DOMAIN heap' = {} /\ heap' \in [{} -> Material]
  BY DEF clear, drop_store, sodium_free, StoreInv, HeapHoldsInstalledKeysOnly
<1>3. local_id' \in U16 \cup {NoId}
  BY DEF clear, drop_store, StoreInv, StoreTypeOK
<1>4. StoreTypeOK'
  BY <1>1, <1>2, <1>3 DEF StoreTypeOK, EmptyTable
<1>5. HeapHoldsInstalledKeysOnly'
  BY <1>1, <1>2 DEF HeapHoldsInstalledKeysOnly
<1>6. Bounded'
  BY <1>2, EmptyBounded DEF Bounded, WithinCapacity, len
<1> QED
  BY <1>4, <1>5, <1>6 DEF StoreInv

-----------------------------------------------------------------------------
(* The invariant holds before the first store. *)
LEMMA StoreInvInitially == StoreInit => StoreInv
<1> SUFFICES ASSUME StoreInit PROVE StoreInv
  OBVIOUS
<1>1. DOMAIN EmptyTable = {}
  BY DEF EmptyTable
<1>2. StoreTypeOK /\ HeapHoldsInstalledKeysOnly
  BY <1>1 DEF StoreInit, StoreTypeOK, HeapHoldsInstalledKeysOnly, EmptyTable, NoId
<1> QED
  BY <1>2, EmptyBounded DEF StoreInit, StoreInv, Bounded, WithinCapacity

(* Every step of the store keeps the invariant. *)
LEMMA StoreInvStep == StoreInv /\ [StoreNext]_storeVars => StoreInv'
<1> SUFFICES ASSUME StoreInv, [StoreNext]_storeVars PROVE StoreInv'
  OBVIOUS
<1>1. ASSUME UNCHANGED storeVars PROVE StoreInv'
  BY <1>1 DEF storeVars, StoreInv, StoreTypeOK, HeapHoldsInstalledKeysOnly,
              Bounded, WithinCapacity, len
<1>2. ASSUME NEW n \in Ids, new(n) PROVE StoreInv'
  BY <1>2, NewPreserves DEF Ids
<1>3. Slots \subseteq Slot
  BY DEF Slots, Ids, Slot
<1>4. ASSUME NEW s \in Slots, NEW m \in Material,
             install_full(s, m) \/ install_failed(s, m)
      PROVE  StoreInv'
  <2>1. UNCHANGED storeVars
    BY <1>3, <1>4, InstallFailedPreserves DEF install_full
  <2> QED
    BY <1>1, <2>1
<1>5. ASSUME NEW s \in Slots, NEW m \in Material, install_ok(s, m)
      PROVE  StoreInv'
  BY <1>3, <1>5, InstallOkPreserves
<1>6. ASSUME NEW s \in Slots, retire(s)
      PROVE  StoreInv'
  BY <1>3, <1>6, RetirePreserves
<1>7. ASSUME clear \/ drop_store PROVE StoreInv'
  BY <1>7, EmptyingPreserves
<1> QED
  BY <1>1, <1>2, <1>4, <1>5, <1>6, <1>7 DEF StoreNext

(* The store keeps its types, its memory discipline and its capacity. *)
THEOREM StoreInvariant == StoreSpec => []StoreInv
  BY StoreInvInitially, StoreInvStep, PTL DEF StoreSpec

(* The store keeps its types: ids, slots, addresses and material. *)
THEOREM StoreTypes == StoreSpec => []StoreTypeOK
<1>1. StoreInv => StoreTypeOK
  BY DEF StoreInv
<1> QED
  BY <1>1, StoreInvariant, PTL

(* Guarded memory holds the installed keys and nothing else, whatever the  *)
(* sequence of installs, failures, retirements, clears and drops.          *)
THEOREM NoKeyLeaks == StoreSpec => []HeapHoldsInstalledKeysOnly
<1>1. StoreInv => HeapHoldsInstalledKeysOnly
  BY DEF StoreInv
<1> QED
  BY <1>1, StoreInvariant, PTL

(* The store never holds more than MAX_ENTRIES keys. *)
THEOREM CapacityRespected == StoreSpec => []WithinCapacity
<1>1. StoreInv => WithinCapacity
  BY DEF StoreInv, Bounded
<1> QED
  BY <1>1, StoreInvariant, PTL

-----------------------------------------------------------------------------
(* The refinement: what each operation does to the exposed contents.       *)

(* The capacity gate sees the same slots in entries and in contents. *)
LEMMA SameSlotsSameFullness ==
  ASSUME NEW s
  PROVE  full(contents, s) <=> full(entries, s)
<1>1. DOMAIN contents = DOMAIN entries
  BY DEF contents
<1> QED
  BY <1>1 DEF full, contains_key, len

(* A successful install is a Put of the promise. *)
LEMMA InstallIsPut ==
  ASSUME StoreInv, NEW s \in Slot, NEW m \in Material, install_ok(s, m)
  PROVE  Promise!Put(s, m)
<1>1. PICK a \in Addr \ DOMAIN heap :
        /\ entries' = insert(entries, s, a)
        /\ heap' = sodium_free(sodium_malloc(heap, a, m), Held(s))
  BY DEF install_ok
<1>2. /\ DOMAIN entries' = DOMAIN entries \cup {s}
      /\ entries'[s] = a
      /\ \A x \in DOMAIN entries \ {s} : entries'[x] = entries[x]
  BY <1>1 DEF insert
<1>3. /\ DOMAIN heap' = (DOMAIN heap \cup {a}) \ Held(s)
      /\ \A b \in DOMAIN heap' : heap'[b] = IF b = a THEN m ELSE heap[b]
  BY <1>1 DEF sodium_malloc, sodium_free
<1>4. a \notin Held(s)
  BY DEF Held, StoreInv, HeapHoldsInstalledKeysOnly
<1>5. \A x \in DOMAIN entries \ {s} : entries[x] \in DOMAIN heap \ (Held(s) \cup {a})
  BY DEF Held, StoreInv, HeapHoldsInstalledKeysOnly
<1>6. \A x \in DOMAIN entries' :
         heap'[entries'[x]] = IF x = s THEN m ELSE heap[entries[x]]
  BY <1>2, <1>3, <1>4, <1>5
<1>7. contents' = Promise!insert(contents, s, m)
  BY <1>2, <1>6 DEF contents, Promise!insert
<1> QED
  BY <1>7, SameSlotsSameFullness DEF install_ok, Promise!Put, NoId, Promise!NoId

(* A retire is a Forget of the promise. *)
LEMMA RetireIsForget ==
  ASSUME StoreInv, NEW s \in Slot, retire(s)
  PROVE  Promise!Forget(s)
<1>1. /\ DOMAIN entries' = DOMAIN entries \ {s}
      /\ \A x \in DOMAIN entries \ {s} : entries'[x] = entries[x]
  BY DEF retire, remove
<1>2. \A b \in DOMAIN heap \ Held(s) : heap'[b] = heap[b]
  BY DEF retire, sodium_free
<1>3. \A x \in DOMAIN entries \ {s} : entries[x] \in DOMAIN heap \ Held(s)
  BY DEF Held, StoreInv, HeapHoldsInstalledKeysOnly
<1>4. contents' = Promise!remove(contents, s)
  BY <1>1, <1>2, <1>3 DEF contents, Promise!remove
<1> QED
  BY <1>4 DEF retire, Promise!Forget, NoId, Promise!NoId

(* An emptied map is an empty promise. *)
LEMMA EmptiedContents ==
  ASSUME entries' = EmptyTable
  PROVE  contents' = Promise!EmptyTable
  BY DEF contents, EmptyTable, Promise!EmptyTable

(* Every step of the store is a step of the promise or leaves it as it was. *)
LEMMA StoreStepKeepsPromise ==
  StoreInv /\ [StoreNext]_storeVars
     => [Promise!PeerKeysNext]_<<local_id, contents>>
<1> SUFFICES ASSUME StoreInv, [StoreNext]_storeVars
             PROVE  Promise!PeerKeysNext \/ UNCHANGED <<local_id, contents>>
  OBVIOUS
<1>1. ASSUME UNCHANGED storeVars PROVE UNCHANGED <<local_id, contents>>
  BY <1>1 DEF storeVars, contents
<1>2. ASSUME NEW n \in Ids, new(n) PROVE Promise!PeerKeysNext
  <2>1. Promise!Open(n)
    BY <1>2, EmptiedContents DEF new, Promise!Open, NoId, Promise!NoId
  <2> QED
    BY <2>1 DEF Promise!PeerKeysNext
<1>3. Slots \subseteq Slot
  BY DEF Slots, Ids, Slot
<1>4. ASSUME NEW s \in Slots, NEW m \in Material,
             install_full(s, m) \/ install_failed(s, m)
      PROVE  UNCHANGED <<local_id, contents>>
  <2>1. UNCHANGED storeVars
    BY <1>3, <1>4, InstallFailedPreserves DEF install_full
  <2> QED
    BY <1>1, <2>1
<1>5. ASSUME NEW s \in Slots, NEW m \in Material, install_ok(s, m)
      PROVE  Promise!PeerKeysNext
  <2>1. Promise!Put(s, m)
    BY <1>3, <1>5, InstallIsPut
  <2> QED
    BY <1>3, <2>1 DEF Promise!PeerKeysNext
<1>6. ASSUME NEW s \in Slots, retire(s)
      PROVE  Promise!PeerKeysNext
  <2>1. Promise!Forget(s)
    BY <1>3, <1>6, RetireIsForget
  <2> QED
    BY <1>3, <2>1 DEF Promise!PeerKeysNext
<1>7. ASSUME clear \/ drop_store PROVE Promise!PeerKeysNext
  <2>1. Promise!ForgetAll \/ Promise!Close
    BY <1>7, EmptiedContents
    DEF clear, drop_store, Promise!ForgetAll, Promise!Close, NoId, Promise!NoId
  <2> QED
    BY <2>1 DEF Promise!PeerKeysNext
<1> QED
  BY <1>1, <1>2, <1>4, <1>5, <1>6, <1>7 DEF StoreNext

(* The store, with its allocations and its error paths, implements the     *)
(* promise of PeerKeys.                                                    *)
THEOREM StoreKeepsPromise == StoreSpec => ImplementsPeerKeys
<1>1. StoreInit => Promise!PeerKeysInit
  BY DEF StoreInit, Promise!PeerKeysInit, contents, EmptyTable,
         Promise!EmptyTable, NoId, Promise!NoId
<1> QED
  BY <1>1, StoreInvariant, StoreStepKeepsPromise, PTL
  DEF StoreSpec, ImplementsPeerKeys, Promise!PeerKeysSpec

-----------------------------------------------------------------------------
(* The counters: what saturating arithmetic does to a sum. *)

(* saturating_add stays a counter and never goes below its first argument. *)
LEMMA SaturatingAdd ==
  ASSUME NEW a \in Counter, NEW b \in Counter
  PROVE  /\ saturating_add(a, b) \in Counter
         /\ a <= saturating_add(a, b)
         /\ saturating_add(a, 1) \in Counter /\ a <= saturating_add(a, 1)
  BY CounterAssumption DEF saturating_add, Counter

(* The fields of a Stats value, each a counter. *)
LEMMA StatsFields ==
  ASSUME NEW s \in Stats
  PROVE  /\ s.rx_total \in Counter /\ s.rx_ok \in Counter
         /\ s.rx_rejects \in [RejectReason -> Counter]
         /\ s.tx_total \in Counter /\ s.tx_standard \in Counter
         /\ s.tx_dek \in Counter /\ s.tx_oversize \in Counter
  BY DEF Stats

(* record_reject keeps the counters typed and changes one reason only. *)
LEMMA RejectKeepsStats ==
  ASSUME NEW s \in Stats, NEW r \in RejectReason
  PROVE  /\ record_reject(s, r) \in Stats
         /\ record_reject(s, r).rx_total = s.rx_total
         /\ record_reject(s, r).rx_ok = s.rx_ok
         /\ record_reject(s, r).rx_rejects
               = [s.rx_rejects EXCEPT ![r] = saturating_add(@, 1)]
         /\ record_reject(s, r).tx_total = s.tx_total
         /\ record_reject(s, r).tx_standard = s.tx_standard
         /\ record_reject(s, r).tx_dek = s.tx_dek
         /\ record_reject(s, r).tx_oversize = s.tx_oversize
<1>1. saturating_add(s.rx_rejects[r], 1) \in Counter
  BY StatsFields, SaturatingAdd
<1> QED
  BY <1>1 DEF record_reject, Stats

(* The initial counters are typed. *)
LEMMA ZeroStats == ZERO \in Stats
  BY CounterAssumption DEF ZERO, Stats, Counter

(* Saturating addition is addition cut off at U64_MAX, in any grouping. *)
LEMMA Cut ==
  ASSUME NEW a \in Nat, NEW b \in Nat, NEW s, s = saturating_add(0, a)
  PROVE  saturating_add(s, b) = saturating_add(0, a + b)
  BY CounterAssumption DEF saturating_add

(* The plain sum of the seven reject counters. *)
Rejects(r) == r["Plaintext"] + r["TooShort"] + r["BadFlags"] + r["LenMismatch"]
                + r["NoPeer"] + r["NoEpoch"] + r["AuthFailed"]

(* The seven reject counters are natural numbers. *)
LEMMA SevenCounters ==
  ASSUME NEW r \in [RejectReason -> Counter]
  PROVE  /\ r["Plaintext"] \in Nat /\ r["TooShort"] \in Nat /\ r["BadFlags"] \in Nat
         /\ r["LenMismatch"] \in Nat /\ r["NoPeer"] \in Nat /\ r["NoEpoch"] \in Nat
         /\ r["AuthFailed"] \in Nat
         /\ Rejects(r) \in Nat
<1>1. /\ r["Plaintext"] \in Nat /\ r["TooShort"] \in Nat /\ r["BadFlags"] \in Nat
      /\ r["LenMismatch"] \in Nat /\ r["NoPeer"] \in Nat /\ r["NoEpoch"] \in Nat
      /\ r["AuthFailed"] \in Nat
  BY CounterAssumption DEF RejectReason, Counter
<1> QED
  BY <1>1 DEF Rejects

(* reject_sum is the plain sum, cut off once. *)
LEMMA RejectSum ==
  ASSUME NEW s \in Stats
  PROVE  reject_sum(s) = saturating_add(0, Rejects(s.rx_rejects))
<1> DEFINE r == s.rx_rejects
           s1 == saturating_add(0, r["Plaintext"])
           s2 == saturating_add(s1, r["TooShort"])
           s3 == saturating_add(s2, r["BadFlags"])
           s4 == saturating_add(s3, r["LenMismatch"])
           s5 == saturating_add(s4, r["NoPeer"])
           s6 == saturating_add(s5, r["NoEpoch"])
           t2 == r["Plaintext"] + r["TooShort"]
           t3 == t2 + r["BadFlags"]
           t4 == t3 + r["LenMismatch"]
           t5 == t4 + r["NoPeer"]
           t6 == t5 + r["NoEpoch"]
<1>1. /\ r["Plaintext"] \in Nat /\ r["TooShort"] \in Nat /\ r["BadFlags"] \in Nat
      /\ r["LenMismatch"] \in Nat /\ r["NoPeer"] \in Nat /\ r["NoEpoch"] \in Nat
      /\ r["AuthFailed"] \in Nat
  BY StatsFields, SevenCounters
<1>2. t2 \in Nat /\ t3 \in Nat /\ t4 \in Nat /\ t5 \in Nat /\ t6 \in Nat
  BY <1>1
<1> HIDE DEF r, s1, s2, s3, s4, s5, s6, t2, t3, t4, t5, t6
<1>3. s2 = saturating_add(0, t2)
  BY <1>1, Cut DEF s1, s2, t2
<1>4. s3 = saturating_add(0, t3)
  BY <1>1, <1>2, <1>3, Cut DEF s3, t3
<1>5. s4 = saturating_add(0, t4)
  BY <1>1, <1>2, <1>4, Cut DEF s4, t4
<1>6. s5 = saturating_add(0, t5)
  BY <1>1, <1>2, <1>5, Cut DEF s5, t5
<1>7. s6 = saturating_add(0, t6)
  BY <1>1, <1>2, <1>6, Cut DEF s6, t6
<1>8. saturating_add(s6, r["AuthFailed"]) = saturating_add(0, t6 + r["AuthFailed"])
  BY <1>1, <1>2, <1>7, Cut
<1>9. t6 + r["AuthFailed"] = Rejects(s.rx_rejects)
  BY DEF Rejects, r, t2, t3, t4, t5, t6
<1>10. reject_sum(s) = saturating_add(s6, r["AuthFailed"])
  BY DEF reject_sum, r, s1, s2, s3, s4, s5, s6
<1> QED
  BY <1>8, <1>9, <1>10

(* One more reject of any reason is one more in the sum, until it is cut. *)
LEMMA RejectsStep ==
  ASSUME NEW r \in [RejectReason -> Counter], NEW x \in RejectReason,
         NEW q, q = [r EXCEPT ![x] = saturating_add(@, 1)]
  PROVE  \/ Rejects(q) = Rejects(r) + 1
         \/ Rejects(q) = Rejects(r) /\ Rejects(r) >= U64_MAX
<1>1. /\ \A y \in RejectReason \ {x} : q[y] = r[y]
      /\ \/ q[x] = r[x] + 1
         \/ q[x] = r[x] /\ r[x] = U64_MAX
  BY CounterAssumption DEF saturating_add, Counter
<1>2. /\ r["Plaintext"] \in Nat /\ r["TooShort"] \in Nat /\ r["BadFlags"] \in Nat
      /\ r["LenMismatch"] \in Nat /\ r["NoPeer"] \in Nat /\ r["NoEpoch"] \in Nat
      /\ r["AuthFailed"] \in Nat
  BY SevenCounters
<1> USE <1>1, <1>2, CounterAssumption DEF Rejects, RejectReason
<1>3. CASE x = "Plaintext"   BY <1>3
<1>4. CASE x = "TooShort"    BY <1>4
<1>5. CASE x = "BadFlags"    BY <1>5
<1>6. CASE x = "LenMismatch" BY <1>6
<1>7. CASE x = "NoPeer"      BY <1>7
<1>8. CASE x = "NoEpoch"     BY <1>8
<1>9. CASE x = "AuthFailed"  BY <1>9
<1> QED
  BY <1>3, <1>4, <1>5, <1>6, <1>7, <1>8, <1>9, ZenonT(30)

-----------------------------------------------------------------------------
(* The receive and transmit counters balance, up to saturation. *)
Balanced(s) == s.rx_total = saturating_add(s.rx_ok, reject_sum(s))

TxBalanced(s) == s.tx_total = saturating_add(s.tx_standard, s.tx_dek)

(* record_rx_ok keeps the receive equation. *)
LEMMA OkKeepsBalance ==
  ASSUME NEW s \in Stats, Balanced(s)
  PROVE  record_rx_ok(s) \in Stats /\ Balanced(record_rx_ok(s))
<1> DEFINE t == record_rx_ok(s)
           n == Rejects(s.rx_rejects)
<1>1. t \in Stats
  BY StatsFields, SaturatingAdd, Zenon DEF record_rx_ok, Stats
<1>2. /\ t.rx_total = saturating_add(s.rx_total, 1)
      /\ t.rx_ok = saturating_add(s.rx_ok, 1)
      /\ t.rx_rejects = s.rx_rejects
  BY DEF record_rx_ok, Stats
<1>3. s.rx_total \in Counter /\ s.rx_ok \in Counter /\ n \in Nat
  BY StatsFields, SevenCounters
<1>4. s.rx_total = saturating_add(s.rx_ok, saturating_add(0, n))
  BY RejectSum DEF Balanced
<1>5. reject_sum(t) = saturating_add(0, n)
  BY <1>1, <1>2, RejectSum
<1> HIDE DEF t, n
<1>6. t.rx_total = saturating_add(t.rx_ok, saturating_add(0, n))
  BY <1>2, <1>3, <1>4, CounterAssumption DEF saturating_add, Counter
<1> QED
  BY <1>1, <1>5, <1>6 DEF Balanced, t

(* A recorded rejection keeps the receive equation. *)
LEMMA DropKeepsBalance ==
  ASSUME NEW s \in Stats, Balanced(s), NEW r \in RejectReason
  PROVE  LET t == record_rx_drop(record_reject(s, r))
         IN  t \in Stats /\ Balanced(t)
<1> DEFINE u == record_reject(s, r)
           t == record_rx_drop(u)
           m == Rejects(s.rx_rejects)
           n == Rejects(t.rx_rejects)
<1>1. /\ u \in Stats
      /\ u.rx_total = s.rx_total /\ u.rx_ok = s.rx_ok
      /\ u.rx_rejects = [s.rx_rejects EXCEPT ![r] = saturating_add(@, 1)]
  BY RejectKeepsStats
<1> HIDE DEF u
<1>2. t \in Stats
  BY <1>1, StatsFields, SaturatingAdd DEF record_rx_drop, Stats
<1>3. /\ t.rx_total = saturating_add(s.rx_total, 1)
      /\ t.rx_ok = s.rx_ok
      /\ t.rx_rejects = [s.rx_rejects EXCEPT ![r] = saturating_add(@, 1)]
  BY <1>1 DEF record_rx_drop, Stats
<1>4. s.rx_total \in Counter /\ s.rx_ok \in Counter /\ m \in Nat /\ n \in Nat
  BY <1>2, StatsFields, SevenCounters
<1>5. n = m + 1 \/ (n = m /\ m >= U64_MAX)
  BY <1>3, StatsFields, RejectsStep
<1>6. s.rx_total = saturating_add(s.rx_ok, saturating_add(0, m))
  BY RejectSum DEF Balanced
<1>7. reject_sum(t) = saturating_add(0, n)
  BY <1>2, RejectSum
<1> HIDE DEF t, m, n
<1>8. t.rx_total = saturating_add(t.rx_ok, saturating_add(0, n))
  BY <1>3, <1>4, <1>5, <1>6, CounterAssumption DEF saturating_add, Counter
<1> QED
  BY <1>2, <1>7, <1>8 DEF Balanced, t, u

(* Transmission touches no receive counter and keeps its own balance. *)
LEMMA TxKeepsBalance ==
  ASSUME NEW s \in Stats,
         NEW t, t = record_tx_sealed(s, "Standard") \/ t = record_tx_oversize(s)
  PROVE  /\ t \in Stats
         /\ Balanced(s) => Balanced(t)
         /\ TxBalanced(s) => TxBalanced(t)
<1>1. t \in Stats
  BY StatsFields, SaturatingAdd, ZenonT(30) DEF record_tx_sealed, record_tx_oversize, Stats
<1>2. t.rx_total = s.rx_total /\ t.rx_ok = s.rx_ok /\ t.rx_rejects = s.rx_rejects
  BY Zenon DEF record_tx_sealed, record_tx_oversize, Stats
<1>3. Balanced(s) => Balanced(t)
  BY <1>2 DEF Balanced, reject_sum
<1>4. /\ t.tx_dek = s.tx_dek
      /\ \/ t.tx_total = s.tx_total /\ t.tx_standard = s.tx_standard
         \/ /\ t.tx_total = saturating_add(s.tx_total, 1)
            /\ t.tx_standard = saturating_add(s.tx_standard, 1)
  BY Zenon DEF record_tx_sealed, record_tx_oversize, Stats
<1>5. TxBalanced(s) => TxBalanced(t)
  BY <1>4, StatsFields, CounterAssumption DEF TxBalanced, saturating_add, Counter
<1> QED
  BY <1>1, <1>3, <1>5

(* Receiving leaves the transmit counters alone. *)
LEMMA RxKeepsTx ==
  ASSUME NEW s \in Stats, NEW r \in RejectReason,
         NEW t, t = record_rx_ok(s) \/ t = record_rx_drop(record_reject(s, r))
  PROVE  /\ t.tx_total = s.tx_total /\ t.tx_standard = s.tx_standard
         /\ t.tx_dek = s.tx_dek /\ t.tx_oversize = s.tx_oversize
<1>1. CASE t = record_rx_ok(s)
  BY <1>1 DEF record_rx_ok, Stats
<1>2. CASE t = record_rx_drop(record_reject(s, r))
  <2> DEFINE u == record_reject(s, r)
  <2>1. /\ u \in Stats
        /\ u.tx_total = s.tx_total /\ u.tx_standard = s.tx_standard
        /\ u.tx_dek = s.tx_dek /\ u.tx_oversize = s.tx_oversize
    BY RejectKeepsStats, Zenon
  <2>2. t = record_rx_drop(u)
    BY <1>2
  <2> HIDE DEF u
  <2> QED
    BY <2>1, <2>2 DEF record_rx_drop, Stats
<1> QED
  BY <1>1, <1>2

(* The initial counters are balanced. *)
LEMMA ZeroBalanced == Balanced(ZERO) /\ TxBalanced(ZERO)
<1>1. Rejects(ZERO.rx_rejects) = 0
  BY DEF ZERO, Rejects, RejectReason
<1>2. reject_sum(ZERO) = saturating_add(0, 0)
  BY <1>1, ZeroStats, RejectSum
<1>3. saturating_add(0, 0) = 0
  BY CounterAssumption DEF saturating_add
<1> QED
  BY <1>2, <1>3 DEF ZERO, Balanced, TxBalanced

-----------------------------------------------------------------------------
(* The calls. *)

(* The operations a call may perform on the counters and on the log. *)
StatsMove ==
    \/ UNCHANGED stats
    \/ stats' = record_rx_ok(stats)
    \/ \E r \in RejectReason : stats' = record_rx_drop(record_reject(stats, r))
    \/ stats' = record_tx_sealed(stats, "Standard")
    \/ stats' = record_tx_oversize(stats)

LogMove ==
    \/ UNCHANGED log
    \/ log' = reset_log_once_memo(log)
    \/ \E p \in FailPolicy : log' = set_policy(log, p)
    \/ \E r \in RejectReason : log' = apply_policy(log, r)

-----------------------------------------------------------------------------
(* open_verdict is "Ok" or one of the seven reasons. *)
LEMMA VerdictIsReason ==
  ASSUME NEW l, NEW t, NEW f, open_verdict(l, t, f) # "Ok"
  PROVE  open_verdict(l, t, f) \in RejectReason
  BY Zenon DEF open_verdict, standard_verdict, dek_verdict, from_codec, key_miss, RejectReason

(* Counting a rejection is one move of the counters and one of the log. *)
LEMMA CountRejectMoves ==
  ASSUME NEW r \in RejectReason, count_reject(r)
  PROVE  StatsMove /\ LogMove
  BY DEF count_reject, StatsMove, LogMove

(* open counts at most one datagram and touches neither keys nor process. *)
LEMMA OpenMoves ==
  ASSUME NEW f, NEW cap, NEW ok, lunet_paxe_open(f, cap, ok)
  PROVE  StatsMove /\ LogMove /\ UNCHANGED storeVars /\ UNCHANGED proc
<1>1. UNCHANGED storeVars /\ UNCHANGED proc
  BY DEF lunet_paxe_open, storeVars
<1>2. CASE UNCHANGED <<stats, log>>
  BY <1>1, <1>2 DEF StatsMove, LogMove
<1>3. CASE stats' = record_rx_ok(stats) /\ UNCHANGED log
  BY <1>1, <1>3 DEF StatsMove, LogMove
<1>4. CASE /\ open_verdict(local_id, contents, f) # "Ok"
           /\ count_reject(open_verdict(local_id, contents, f))
  BY <1>1, <1>4, VerdictIsReason, CountRejectMoves
<1> QED
  BY <1>2, <1>3, <1>4 DEF lunet_paxe_open

(* So does frame_for_us. *)
LEMMA GateMoves ==
  ASSUME NEW f, NEW ok, lunet_paxe_frame_for_us(f, ok)
  PROVE  StatsMove /\ LogMove /\ UNCHANGED storeVars /\ UNCHANGED proc
<1>1. UNCHANGED storeVars /\ UNCHANGED proc
  BY DEF lunet_paxe_frame_for_us, storeVars
<1>2. CASE UNCHANGED <<stats, log>>
  BY <1>1, <1>2 DEF StatsMove, LogMove
<1>3. CASE count_reject("Plaintext")
  BY <1>1, <1>3, CountRejectMoves DEF RejectReason
<1> QED
  BY <1>2, <1>3 DEF lunet_paxe_frame_for_us

(* And seal, which counts at most one frame. *)
LEMMA SealMoves ==
  ASSUME NEW payload, NEW to, NEW c, NEW cap, NEW ok,
         lunet_paxe_seal(payload, to, c, cap, ok)
  PROVE  StatsMove /\ LogMove /\ UNCHANGED storeVars /\ UNCHANGED proc
  BY DEF lunet_paxe_seal, StatsMove, LogMove, storeVars

(* A key-store call performs one operation of the store, or none. *)
LEMMA SetMoves ==
  ASSUME NEW p \in PeerArg, NEW e \in EpochArg, NEW ok, NEW m \in Material,
         lunet_paxe_keystore_set(p, e, ok, m)
  PROVE  StatsMove /\ LogMove /\ [StoreNext]_storeVars /\ UNCHANGED proc
<1>1. StatsMove /\ LogMove /\ UNCHANGED proc
  BY DEF lunet_paxe_keystore_set, StatsMove, LogMove
<1>2. CASE UNCHANGED storeVars
  BY <1>1, <1>2
<1>3. CASE /\ u16_ok(p) /\ epoch_ok(e)
           /\ \/ install_full(<<p, e>>, m) \/ install_failed(<<p, e>>, m)
              \/ install_ok(<<p, e>>, m)
  <2>1. <<p, e>> \in Slots
    BY <1>3 DEF u16_ok, epoch_ok, Slots, Ids
  <2> QED
    BY <1>1, <1>3, <2>1 DEF StoreNext
<1> QED
  BY <1>2, <1>3 DEF lunet_paxe_keystore_set

(* keystore_retire does at most one retire. *)
LEMMA RetireMoves ==
  ASSUME NEW p \in PeerArg, NEW e \in EpochArg, lunet_paxe_keystore_retire(p, e)
  PROVE  StatsMove /\ LogMove /\ [StoreNext]_storeVars /\ UNCHANGED proc
<1>1. StatsMove /\ LogMove /\ UNCHANGED proc
  BY DEF lunet_paxe_keystore_retire, StatsMove, LogMove
<1>2. CASE UNCHANGED storeVars
  BY <1>1, <1>2
<1>3. CASE u16_ok(p) /\ epoch_ok(e) /\ retire(<<p, e>>)
  <2>1. <<p, e>> \in Slots
    BY <1>3 DEF u16_ok, epoch_ok, Slots, Ids
  <2> QED
    BY <1>1, <1>3, <2>1 DEF StoreNext
<1> QED
  BY <1>2, <1>3 DEF lunet_paxe_keystore_retire

(* init, set_local_id, shutdown, clear and the ends of the process. *)
LEMMA LifecycleMoves ==
  ASSUME \/ \E o \in InitOutcome : lunet_paxe_init(o[1], o[2], o[3])
         \/ \E n \in PeerArg : lunet_paxe_set_local_id(n)
         \/ lunet_paxe_shutdown \/ process_exit \/ process_abort
         \/ lunet_paxe_keystore_clear
  PROVE  StatsMove /\ LogMove /\ [StoreNext]_storeVars
<1>1. ASSUME NEW o \in InitOutcome, lunet_paxe_init(o[1], o[2], o[3])
      PROVE  StatsMove /\ LogMove /\ UNCHANGED storeVars
  BY <1>1, Zenon DEF lunet_paxe_init, StatsMove, LogMove, storeVars
<1>2. ASSUME NEW n \in PeerArg, lunet_paxe_set_local_id(n)
      PROVE  StatsMove /\ LogMove /\ [StoreNext]_storeVars
  <2>1. StatsMove /\ LogMove
    BY <1>2 DEF lunet_paxe_set_local_id, StatsMove, LogMove
  <2>2. UNCHANGED storeVars \/ (u16_ok(n) /\ new(n))
    BY <1>2 DEF lunet_paxe_set_local_id
  <2> QED
    BY <2>1, <2>2 DEF StoreNext, u16_ok, Ids
<1>3. ASSUME shutdown_state PROVE StatsMove /\ LogMove /\ [StoreNext]_storeVars
  BY <1>3, Zenon DEF shutdown_state, StatsMove, LogMove, StoreNext
<1>4. ASSUME lunet_paxe_shutdown \/ process_exit \/ process_abort
      PROVE  StatsMove /\ LogMove /\ [StoreNext]_storeVars
  <2>1. shutdown_state \/ (UNCHANGED storeVars /\ UNCHANGED stats /\ UNCHANGED log)
    BY <1>4 DEF lunet_paxe_shutdown, process_exit, process_abort, storeVars
  <2> QED
    BY <1>3, <2>1 DEF StatsMove, LogMove
<1>5. ASSUME lunet_paxe_keystore_clear
      PROVE  StatsMove /\ LogMove /\ [StoreNext]_storeVars
  BY <1>5 DEF lunet_paxe_keystore_clear, StatsMove, LogMove, StoreNext
<1> QED
  BY <1>1, <1>2, <1>4, <1>5

(* The diagnostic calls change at most the policy. *)
LEMMA DiagnosticsMove ==
  ASSUME \/ \E name \in PolicyArg, ok \in BOOLEAN : lunet_paxe_fail_policy_set(name, ok)
         \/ lunet_paxe_last_error \/ lunet_paxe_stats \/ terminated
  PROVE  StatsMove /\ LogMove /\ UNCHANGED storeVars /\ UNCHANGED proc
<1>1. ASSUME NEW name \in PolicyArg, NEW ok \in BOOLEAN,
             lunet_paxe_fail_policy_set(name, ok)
      PROVE  StatsMove /\ LogMove /\ UNCHANGED storeVars /\ UNCHANGED proc
  BY <1>1 DEF lunet_paxe_fail_policy_set, StatsMove, LogMove, storeVars
<1>2. ASSUME lunet_paxe_last_error \/ lunet_paxe_stats \/ terminated
      PROVE  StatsMove /\ LogMove /\ UNCHANGED storeVars /\ UNCHANGED proc
  BY <1>2 DEF lunet_paxe_last_error, lunet_paxe_stats, terminated, vars,
              StatsMove, LogMove, storeVars
<1> QED
  BY <1>1, <1>2

(* Every step of the session, on each part of its state. *)
LEMMA CallsMove ==
  ASSUME [Next]_vars
  PROVE  StatsMove /\ LogMove /\ [StoreNext]_storeVars
<1>1. CASE UNCHANGED vars
  BY <1>1 DEF vars, StatsMove, LogMove, storeVars
<1>2. ASSUME NEW p \in PeerArg, NEW e \in EpochArg,
             \/ \E key_ok \in BOOLEAN, m \in Material :
                   lunet_paxe_keystore_set(p, e, key_ok, m)
             \/ lunet_paxe_keystore_retire(p, e)
      PROVE  StatsMove /\ LogMove /\ [StoreNext]_storeVars
  BY <1>2, SetMoves, RetireMoves
<1>3. ASSUME NEW payload \in PayloadArg, NEW to \in PeerArg, NEW c \in ChannelArg,
             NEW cap \in Capacity, NEW ok \in BOOLEAN,
             lunet_paxe_seal(payload, to, c, cap, ok)
      PROVE  StatsMove /\ LogMove /\ [StoreNext]_storeVars
  BY <1>3, SealMoves
<1>4. ASSUME NEW f \in Datagram, NEW cap \in Capacity, NEW ok \in BOOLEAN,
             open_ungated(f, cap, ok)
      PROVE  StatsMove /\ LogMove /\ [StoreNext]_storeVars
  BY <1>4, OpenMoves DEF open_ungated
<1>5. ASSUME NEW cap \in Capacity, open_gated(cap)
      PROVE  StatsMove /\ LogMove /\ [StoreNext]_storeVars
  BY <1>5, OpenMoves, Zenon DEF open_gated
<1>6. ASSUME NEW f \in Datagram, NEW ok \in BOOLEAN, lunet_paxe_frame_for_us(f, ok)
      PROVE  StatsMove /\ LogMove /\ [StoreNext]_storeVars
  BY <1>6, GateMoves
<1>7. CASE Next
  BY <1>2, <1>3, <1>4, <1>5, <1>6, <1>7, LifecycleMoves, DiagnosticsMove DEF Next
<1> QED
  BY <1>1, <1>7

-----------------------------------------------------------------------------
(* The key store. *)

(* Behind the C ABI the key store behaves as the store on its own does:    *)
(* every call performs one of its operations, or none.                     *)
THEOREM CallsKeepTheStore == Spec => CallsAreStoreOperations
<1>1. Init => StoreInit
  BY Zenon DEF Init
<1>2. [Next]_vars => [StoreNext]_storeVars
  BY CallsMove
<1> QED
  BY <1>1, <1>2, PTL DEF Spec, CallsAreStoreOperations, StoreSpec

(* So no sequence of C calls leaks a key or leaves a slot dangling. *)
THEOREM CallsLeakNoKey == Spec => []HeapHoldsInstalledKeysOnly
  BY CallsKeepTheStore, NoKeyLeaks, PTL DEF CallsAreStoreOperations

-----------------------------------------------------------------------------
(* The counters. *)

(* Receive and transmit accounting; it is inductive together with the type *)
(* of the counters, and needs no fact about keys, frames or the process.   *)
StatsInv == stats \in Stats /\ RxAccounting /\ TxAccounting

(* A move of the counters keeps them typed and balanced. *)
LEMMA StatsInvStep ==
  ASSUME StatsInv, StatsMove
  PROVE  StatsInv'
<1>1. stats \in Stats /\ Balanced(stats) /\ TxBalanced(stats)
  BY DEF StatsInv, RxAccounting, TxAccounting, Balanced, TxBalanced
<1>2. SUFFICES stats' \in Stats /\ Balanced(stats') /\ TxBalanced(stats')
  BY DEF StatsInv, RxAccounting, TxAccounting, Balanced, TxBalanced
<1>3. CASE UNCHANGED stats
  BY <1>1, <1>3
<1>4. CASE stats' = record_rx_ok(stats)
  <2>1. stats' \in Stats /\ Balanced(stats')
    BY <1>1, <1>4, OkKeepsBalance
  <2>2. TxBalanced(stats')
    BY <1>1, <1>4, RxKeepsTx DEF TxBalanced, RejectReason
  <2> QED
    BY <2>1, <2>2
<1>5. ASSUME NEW r \in RejectReason, stats' = record_rx_drop(record_reject(stats, r))
      PROVE  stats' \in Stats /\ Balanced(stats') /\ TxBalanced(stats')
  <2>1. stats' \in Stats /\ Balanced(stats')
    BY <1>1, <1>5, DropKeepsBalance
  <2>2. TxBalanced(stats')
    BY <1>1, <1>5, RxKeepsTx DEF TxBalanced
  <2> QED
    BY <2>1, <2>2
<1>6. CASE \/ stats' = record_tx_sealed(stats, "Standard")
           \/ stats' = record_tx_oversize(stats)
  BY <1>1, <1>6, TxKeepsBalance
<1> QED
  BY <1>3, <1>4, <1>5, <1>6 DEF StatsMove

(* The counters are typed and balanced in every state. *)
LEMMA StatsInvariant == Spec => []StatsInv
<1>1. Init => StatsInv
  BY ZeroStats, ZeroBalanced, Zenon
  DEF Init, StatsInv, RxAccounting, TxAccounting, Balanced, TxBalanced
<1>2. StatsInv /\ [Next]_vars => StatsInv'
  BY CallsMove, StatsInvStep
<1> QED
  BY <1>1, <1>2, PTL DEF Spec

(* rx_total is rx_ok plus the seven reject counters at every point, for    *)
(* every counter width, saturation included.                               *)
THEOREM ReceiveIsAccounted == Spec => []RxAccounting
<1>1. StatsInv => RxAccounting
  BY DEF StatsInv
<1> QED
  BY <1>1, StatsInvariant, PTL

(* tx_total is tx_standard plus tx_dek at every point. *)
THEOREM TransmitIsAccounted == Spec => []TxAccounting
<1>1. StatsInv => TxAccounting
  BY DEF StatsInv
<1> QED
  BY <1>1, StatsInvariant, PTL

(* A move of the counters makes none of them smaller. *)
LEMMA StatsMoveUp ==
  ASSUME stats \in Stats, StatsMove
  PROVE  /\ stats'.rx_total >= stats.rx_total
         /\ stats'.rx_ok >= stats.rx_ok
         /\ \A r \in RejectReason : stats'.rx_rejects[r] >= stats.rx_rejects[r]
         /\ stats'.tx_total >= stats.tx_total
         /\ stats'.tx_standard >= stats.tx_standard
         /\ stats'.tx_oversize >= stats.tx_oversize
<1>1. /\ stats.rx_total \in Counter /\ stats.rx_ok \in Counter
      /\ stats.rx_rejects \in [RejectReason -> Counter]
      /\ stats.tx_total \in Counter /\ stats.tx_standard \in Counter
      /\ stats.tx_oversize \in Counter
  BY StatsFields
<1>2. \A c \in Counter : c >= c /\ saturating_add(c, 1) >= c
  BY CounterAssumption DEF saturating_add, Counter
<1>3. CASE UNCHANGED stats
  BY <1>1, <1>2, <1>3
<1>4. CASE stats' = record_rx_ok(stats)
  BY <1>1, <1>2, <1>4 DEF record_rx_ok, Stats
<1>5. ASSUME NEW x \in RejectReason, stats' = record_rx_drop(record_reject(stats, x))
      PROVE  /\ stats'.rx_total >= stats.rx_total
             /\ stats'.rx_ok >= stats.rx_ok
             /\ \A r \in RejectReason : stats'.rx_rejects[r] >= stats.rx_rejects[r]
             /\ stats'.tx_total >= stats.tx_total
             /\ stats'.tx_standard >= stats.tx_standard
             /\ stats'.tx_oversize >= stats.tx_oversize
  <2> DEFINE u == record_reject(stats, x)
  <2>1. /\ u \in Stats
        /\ u.rx_total = stats.rx_total /\ u.rx_ok = stats.rx_ok
        /\ u.rx_rejects = [stats.rx_rejects EXCEPT ![x] = saturating_add(@, 1)]
        /\ u.tx_total = stats.tx_total /\ u.tx_standard = stats.tx_standard
        /\ u.tx_oversize = stats.tx_oversize
    BY RejectKeepsStats
  <2>2. stats' = record_rx_drop(u)
    BY <1>5
  <2> HIDE DEF u
  <2>3. /\ stats'.rx_total = saturating_add(stats.rx_total, 1)
        /\ stats'.rx_ok = stats.rx_ok
        /\ stats'.rx_rejects = [stats.rx_rejects EXCEPT ![x] = saturating_add(@, 1)]
        /\ stats'.tx_total = stats.tx_total /\ stats'.tx_standard = stats.tx_standard
        /\ stats'.tx_oversize = stats.tx_oversize
    BY <2>1, <2>2 DEF record_rx_drop, Stats
  <2>4. \A r \in RejectReason : stats'.rx_rejects[r] >= stats.rx_rejects[r]
    BY <1>1, <1>2, <2>3
  <2> QED
    BY <1>1, <1>2, <2>3, <2>4
<1>6. CASE stats' = record_tx_sealed(stats, "Standard")
  BY <1>1, <1>2, <1>6 DEF record_tx_sealed, Stats
<1>7. CASE stats' = record_tx_oversize(stats)
  BY <1>1, <1>2, <1>7 DEF record_tx_oversize, Stats
<1> QED
  BY <1>3, <1>4, <1>5, <1>6, <1>7 DEF StatsMove

(* No call, shutdown included, makes a counter go down. *)
THEOREM CountersRise == Spec => CountersNeverDecrease
<1> DEFINE Rise == /\ stats'.rx_total >= stats.rx_total
                   /\ stats'.rx_ok >= stats.rx_ok
                   /\ \A r \in RejectReason :
                         stats'.rx_rejects[r] >= stats.rx_rejects[r]
                   /\ stats'.tx_total >= stats.tx_total
                   /\ stats'.tx_standard >= stats.tx_standard
                   /\ stats'.tx_oversize >= stats.tx_oversize
<1>1. StatsInv /\ [Next]_vars => [Rise]_vars
  BY CallsMove, StatsMoveUp DEF StatsInv
<1> QED
  BY <1>1, StatsInvariant, PTL DEF Spec, CountersNeverDecrease

-----------------------------------------------------------------------------
(* The log. *)

(* LogOnceWindow is not inductive alone: the memo must agree with the      *)
(* history of the window while the policy is log_once.                     *)
LogInv ==
    /\ log \in Log
    /\ log.policy = "log_once" => log.logged = log.dropped
    /\ LogOnceWindow

(* A new window has no lines. *)
LEMMA NoLinesTyped ==
  /\ NoLines \in [RejectReason -> 0..2]
  /\ \A r \in RejectReason : NoLines[r] = 0
  BY DEF NoLines

(* A window with nothing dropped and nothing written. *)
LEMMA FreshWindow ==
  ASSUME NEW l, l \in Log, l.logged = {}, l.dropped = {}, l.lines = NoLines
  PROVE  /\ l.logged = l.dropped
         /\ \A r \in RejectReason : l.lines[r] = IF r \in l.dropped THEN 1 ELSE 0
  BY NoLinesTyped

(* A move of the log keeps the memo equal to the reasons dropped. *)
LEMMA LogInvStep ==
  ASSUME LogInv, LogMove
  PROVE  LogInv'
<1>1. CASE UNCHANGED log
  BY <1>1 DEF LogInv, LogOnceWindow
<1>2. CASE log' = reset_log_once_memo(log)
  <2>1. log' \in Log /\ log'.logged = {} /\ log'.dropped = {} /\ log'.lines = NoLines
    BY <1>2, NoLinesTyped, Zenon DEF LogInv, reset_log_once_memo, Log
  <2> QED
    BY <2>1, FreshWindow DEF LogInv, LogOnceWindow
<1>3. ASSUME NEW p \in FailPolicy, log' = set_policy(log, p)
      PROVE  LogInv'
  <2>1. CASE p = "log_once"
    <3>1. log' \in Log /\ log'.logged = {} /\ log'.dropped = {} /\ log'.lines = NoLines
      BY <1>3, <2>1, NoLinesTyped, ZenonT(30) DEF LogInv, set_policy, reset_log_once_memo, Log
    <3> QED
      BY <3>1, FreshWindow DEF LogInv, LogOnceWindow
  <2>2. CASE p # "log_once"
    BY <1>3, <2>2 DEF LogInv, LogOnceWindow, set_policy, Log
  <2> QED
    BY <2>1, <2>2
<1>4. ASSUME NEW r \in RejectReason, log' = apply_policy(log, r)
      PROVE  LogInv'
  <2>1. CASE log.policy # "log_once"
    BY <1>4, <2>1 DEF LogInv, LogOnceWindow, apply_policy
  <2>2. CASE log.policy = "log_once"
    <3>1. /\ log'.policy = "log_once"
          /\ log'.logged = log.logged \cup {r}
          /\ log'.dropped = log.dropped \cup {r}
          /\ log'.lines = [log.lines EXCEPT ![r] =
                IF r \notin log.logged /\ @ < 2 THEN @ + 1 ELSE @]
      BY <1>4, <2>2 DEF LogInv, apply_policy, should_log, Log
    <3>2. \A x \in RejectReason : log.lines[x] = IF x \in log.dropped THEN 1 ELSE 0
      BY <2>2 DEF LogInv, LogOnceWindow
    <3>3. log.logged = log.dropped /\ log.lines \in [RejectReason -> 0..2]
      BY <2>2 DEF LogInv, Log
    <3>4. \A x \in RejectReason : log'.lines[x] = IF x \in log'.dropped THEN 1 ELSE 0
      BY <3>1, <3>2, <3>3
    <3>5. log' \in Log
      <4>1. log'.lines \in [RejectReason -> 0..2]
        BY <3>1, <3>3, <3>4
      <4>2. log' = [log EXCEPT !.logged = log'.logged, !.dropped = log'.dropped,
                               !.lines = log'.lines]
        BY <1>4, <2>2 DEF apply_policy, LogInv, Log
      <4> QED
        BY <3>1, <4>1, <4>2, ZenonT(30) DEF LogInv, Log
    <3> QED
      BY <3>1, <3>3, <3>4, <3>5 DEF LogInv, LogOnceWindow
  <2> QED
    BY <2>1, <2>2
<1> QED
  BY <1>1, <1>2, <1>3, <1>4 DEF LogMove

(* The log invariant holds in every state. *)
LEMMA LogInvariant == Spec => []LogInv
<1>1. Init => LogInv
  <2>1. SILENT \in Log /\ SILENT.policy # "log_once"
    BY NoLinesTyped DEF SILENT, Log, FailPolicy
  <2> QED
    BY <2>1, Zenon DEF Init, LogInv, LogOnceWindow
<1>2. LogInv /\ [Next]_vars => LogInv'
  BY CallsMove, LogInvStep
<1> QED
  BY <1>1, <1>2, PTL DEF Spec

(* Within one log_once window every dropped reason has exactly one line. *)
THEOREM OneLinePerReason == Spec => []LogOnceWindow
<1>1. LogInv => LogOnceWindow
  BY DEF LogInv
<1> QED
  BY <1>1, LogInvariant, PTL

-----------------------------------------------------------------------------
(* Types of the rest of the session. *)

ReturnCode == {RC_OK, RC_OK_ABSENT, RC_ERR, RC_INVAL, RC_DROP, 13}

RestOK ==
    /\ last_error \in {"", "ERR", "INVAL"}
    /\ proc \in Proc
    /\ ret.rc \in ReturnCode

(* How a call may return. *)
Returned ==
    /\ last_error' \in {last_error, "", "ERR", "INVAL"}
    /\ ret'.rc \in ReturnCode

(* Every way of returning leaves a known code and last error. *)
LEMMA ReturnForms ==
  ASSUME NEW call, NEW out,
         \/ \E rc \in ReturnCode : returns(call, rc, out)
         \/ fail(call) \/ invalid(call) \/ drop(call)
  PROVE  Returned
<1>1. ASSUME NEW rc \in ReturnCode, returns(call, rc, out) PROVE Returned
  BY <1>1 DEF returns, Returned
<1>2. RC_ERR \in ReturnCode /\ RC_INVAL \in ReturnCode /\ RC_DROP \in ReturnCode
  BY DEF ReturnCode
<1>3. CASE fail(call)
  BY <1>2, <1>3 DEF fail, Returned
<1>4. CASE invalid(call)
  BY <1>2, <1>4 DEF invalid, Returned
<1>5. CASE drop(call)
  BY <1>2, <1>5 DEF drop, returns, Returned
<1> QED
  BY <1>1, <1>3, <1>4, <1>5

(* init returns, and leaves the process record typed. *)
LEMMA InitReturns ==
  ASSUME RestOK, NEW a \in BOOLEAN, NEW b \in BOOLEAN, NEW c \in BOOLEAN,
         lunet_paxe_init(a, b, c)
  PROVE  Returned /\ proc' \in Proc
<1>1. Returned
  BY ReturnForms DEF lunet_paxe_init, ReturnCode
<1>2. proc' \in Proc
  <2>1. proc \in Proc
    BY Zenon DEF RestOK
  <2>2. PICK c1 \in {"inherited", "off"}, w, d, h \in BOOLEAN :
           proc' = [proc EXCEPT !.init_called = TRUE, !.cores = c1,
                                !.warned = w, !.armed = d, !.hook = h]
    BY <2>1, SessionAssumption, Zenon DEF lunet_paxe_init, Proc
  <2> QED
    BY <2>1, <2>2, ZenonT(30) DEF Proc
<1> QED
  BY <1>1, <1>2

(* The calls on the key store return. *)
LEMMA KeyCallsReturn ==
  ASSUME RestOK,
         \/ \E n \in PeerArg : lunet_paxe_set_local_id(n)
         \/ \E p \in PeerArg, e \in EpochArg :
               \/ \E key_ok \in BOOLEAN, m \in Material :
                     lunet_paxe_keystore_set(p, e, key_ok, m)
               \/ lunet_paxe_keystore_retire(p, e)
         \/ lunet_paxe_keystore_clear
  PROVE  Returned /\ UNCHANGED proc
<1>1. ASSUME NEW n \in PeerArg, lunet_paxe_set_local_id(n)
      PROVE  Returned /\ UNCHANGED proc
  BY <1>1, ReturnForms, Zenon DEF lunet_paxe_set_local_id, ReturnCode
<1>2. ASSUME NEW p \in PeerArg, NEW e \in EpochArg, NEW k \in BOOLEAN, NEW m \in Material,
             lunet_paxe_keystore_set(p, e, k, m)
      PROVE  Returned /\ UNCHANGED proc
  BY <1>2, ReturnForms, ZenonT(30) DEF lunet_paxe_keystore_set, ReturnCode
<1>3. ASSUME NEW p \in PeerArg, NEW e \in EpochArg, lunet_paxe_keystore_retire(p, e)
      PROVE  Returned /\ UNCHANGED proc
  BY <1>3, ReturnForms, ZenonT(30) DEF lunet_paxe_keystore_retire, ReturnCode
<1>4. ASSUME lunet_paxe_keystore_clear PROVE Returned /\ UNCHANGED proc
  BY <1>4, ReturnForms DEF lunet_paxe_keystore_clear, ReturnCode
<1> QED
  BY <1>1, <1>2, <1>3, <1>4

(* open, frame_for_us and seal return. *)
LEMMA FrameCallsReturn ==
  ASSUME RestOK,
         \/ \E f, cap, ok : lunet_paxe_open(f, cap, ok)
         \/ \E f, ok : lunet_paxe_frame_for_us(f, ok)
         \/ \E payload, to, c, cap, ok : lunet_paxe_seal(payload, to, c, cap, ok)
  PROVE  Returned /\ UNCHANGED proc
<1>1. 0 \in ReturnCode /\ 1 \in ReturnCode
  BY DEF ReturnCode, RC_OK, RC_OK_ABSENT
<1>2. ASSUME NEW f, NEW cap, NEW ok, lunet_paxe_open(f, cap, ok)
      PROVE  Returned /\ UNCHANGED proc
  BY <1>2, ReturnForms DEF lunet_paxe_open, ReturnCode
<1>3. ASSUME NEW f, NEW ok, lunet_paxe_frame_for_us(f, ok)
      PROVE  Returned /\ UNCHANGED proc
  BY <1>1, <1>3, ReturnForms DEF lunet_paxe_frame_for_us
<1>4. ASSUME NEW payload, NEW to, NEW c, NEW cap, NEW ok,
             lunet_paxe_seal(payload, to, c, cap, ok)
      PROVE  Returned /\ UNCHANGED proc
  BY <1>4, ReturnForms, Zenon DEF lunet_paxe_seal, ReturnCode
<1> QED
  BY <1>2, <1>3, <1>4

(* Shutdown and the ends of the process keep the rest of the state typed. *)
LEMMA EndingsReturn ==
  ASSUME RestOK, lunet_paxe_shutdown \/ process_exit \/ process_abort
  PROVE  RestOK'
<1>1. last_error' \in {last_error, ""}
  BY ZenonT(30) DEF lunet_paxe_shutdown, process_exit, process_abort, shutdown_state
<1>2. ret'.rc \in ReturnCode
  <2>1. RC_OK \in ReturnCode
    BY DEF ReturnCode
  <2>2. ret' = [call |-> "shutdown", rc |-> RC_OK, out |-> {}] \/ ret' = ret
    BY DEF lunet_paxe_shutdown, process_exit, process_abort
  <2>3. ret.rc \in ReturnCode
    BY Zenon DEF RestOK
  <2>4. CASE ret' = ret
    BY <2>3, <2>4
  <2>5. CASE ret' = [call |-> "shutdown", rc |-> RC_OK, out |-> {}]
    <3>1. ret'.rc = RC_OK
      BY <2>5
    <3> QED
      BY <2>1, <3>1
  <2> QED
    BY <2>2, <2>4, <2>5
<1>3. proc' \in Proc
  BY Zenon DEF RestOK, lunet_paxe_shutdown, process_exit, process_abort, Proc
<1> QED
  BY <1>1, <1>2, <1>3, Zenon DEF RestOK

(* The diagnostic calls return. *)
LEMMA DiagnosticsReturn ==
  ASSUME RestOK,
         \/ \E name \in PolicyArg, ok \in BOOLEAN : lunet_paxe_fail_policy_set(name, ok)
         \/ lunet_paxe_last_error \/ lunet_paxe_stats
  PROVE  Returned /\ UNCHANGED proc
<1>1. ASSUME NEW name \in PolicyArg, NEW ok \in BOOLEAN,
             lunet_paxe_fail_policy_set(name, ok)
      PROVE  Returned /\ UNCHANGED proc
  BY <1>1, ReturnForms DEF lunet_paxe_fail_policy_set, ReturnCode
<1>2. ASSUME lunet_paxe_last_error \/ lunet_paxe_stats
      PROVE  Returned /\ UNCHANGED proc
  BY <1>2, ReturnForms DEF lunet_paxe_last_error, lunet_paxe_stats, ReturnCode
<1> QED
  BY <1>1, <1>2

(* Every step keeps last error, process and return code typed. *)
LEMMA RestStep == RestOK /\ [Next]_vars => RestOK'
<1> SUFFICES ASSUME RestOK, [Next]_vars PROVE RestOK'
  OBVIOUS
<1>1. ASSUME Returned, proc' \in Proc PROVE RestOK'
  BY <1>1, Zenon DEF Returned, RestOK
<1>2. proc \in Proc
  BY Zenon DEF RestOK
<1>3. CASE UNCHANGED vars \/ terminated
  BY <1>3, Zenon DEF RestOK, vars, terminated
<1>4. ASSUME NEW o \in InitOutcome, lunet_paxe_init(o[1], o[2], o[3]) PROVE RestOK'
  <2>1. o[1] \in BOOLEAN /\ o[2] \in BOOLEAN /\ o[3] \in BOOLEAN
    BY SessionAssumption
  <2> QED
    BY <1>1, <1>4, <2>1, InitReturns
<1>5. CASE \/ \E f \in Datagram, cap \in Capacity, ok \in BOOLEAN : open_ungated(f, cap, ok)
           \/ \E cap \in Capacity : open_gated(cap)
           \/ \E f \in Datagram, ok \in BOOLEAN : lunet_paxe_frame_for_us(f, ok)
           \/ \E payload \in PayloadArg, to \in PeerArg, c \in ChannelArg,
                 cap \in Capacity, ok \in BOOLEAN : lunet_paxe_seal(payload, to, c, cap, ok)
  <2>1. \/ \E f, cap, ok : lunet_paxe_open(f, cap, ok)
        \/ \E f, ok : lunet_paxe_frame_for_us(f, ok)
        \/ \E payload, to, c, cap, ok : lunet_paxe_seal(payload, to, c, cap, ok)
    BY <1>5, Zenon DEF open_ungated, open_gated
  <2> QED
    BY <1>1, <1>2, <2>1, FrameCallsReturn
<1>6. CASE Next
  BY <1>1, <1>2, <1>3, <1>4, <1>5, <1>6, KeyCallsReturn, EndingsReturn, DiagnosticsReturn
  DEF Next
<1> QED
  BY <1>3, <1>6

(* They are typed at the start. *)
LEMMA RestInitially == Init => RestOK
<1>1. RC_OK \in ReturnCode
  BY DEF ReturnCode
<1> SUFFICES ASSUME Init PROVE RestOK
  OBVIOUS
<1>2. ret = [call |-> "none", rc |-> RC_OK, out |-> {}]
  BY Zenon DEF Init
<1>3. ret.rc = RC_OK
  BY <1>2
<1>4. proc = [hook |-> FALSE, armed |-> FALSE, init_called |-> FALSE, cores |-> "inherited",
              warned |-> FALSE, state |-> "running"]
  BY Zenon DEF Init
<1>5. proc \in Proc
  BY <1>4 DEF Proc
<1>6. last_error = ""
  BY Zenon DEF Init
<1> QED
  BY <1>1, <1>3, <1>5, <1>6, Zenon DEF RestOK

(* The store is sound in every state of the session. *)
LEMMA SessionStore == Spec => []StoreInv
  BY CallsKeepTheStore, StoreInvariant, PTL DEF CallsAreStoreOperations

(* The session keeps its types: the store, the counters, the log, and what *)
(* every call returns and leaves in the last-error buffer.                 *)
THEOREM SessionTypes == Spec => []TypeOK
<1>1. StoreInv /\ StatsInv /\ LogInv /\ RestOK => TypeOK
  BY Zenon DEF StoreInv, StatsInv, LogInv, RestOK, TypeOK, ReturnCode
<1> QED
  BY <1>1, SessionStore, RestInitially, RestStep, StatsInvariant, LogInvariant, PTL DEF Spec

-----------------------------------------------------------------------------
(* The process. *)

(* What a call may do to the process: nothing, unless it is init or the    *)
(* end of the process.                                                     *)
LEMMA ProcMoves ==
  ASSUME [Next]_vars
  PROVE  \/ UNCHANGED proc
         \/ \E o \in InitOutcome : lunet_paxe_init(o[1], o[2], o[3])
         \/ process_exit \/ process_abort
<1>1. ASSUME \/ \E n \in PeerArg : lunet_paxe_set_local_id(n)
             \/ \E p \in PeerArg, e \in EpochArg :
                   \/ \E key_ok \in BOOLEAN, m \in Material :
                         lunet_paxe_keystore_set(p, e, key_ok, m)
                   \/ lunet_paxe_keystore_retire(p, e)
             \/ lunet_paxe_keystore_clear \/ lunet_paxe_shutdown
      PROVE  UNCHANGED proc
  BY <1>1, SetMoves, RetireMoves
  DEF lunet_paxe_set_local_id, lunet_paxe_keystore_clear, lunet_paxe_shutdown
<1>2. ASSUME \/ \E payload \in PayloadArg, to \in PeerArg, c \in ChannelArg,
                   cap \in Capacity, ok \in BOOLEAN : lunet_paxe_seal(payload, to, c, cap, ok)
             \/ \E f \in Datagram, cap \in Capacity, ok \in BOOLEAN : open_ungated(f, cap, ok)
             \/ \E cap \in Capacity : open_gated(cap)
             \/ \E f \in Datagram, ok \in BOOLEAN : lunet_paxe_frame_for_us(f, ok)
      PROVE  UNCHANGED proc
  BY <1>2, SealMoves, OpenMoves, GateMoves, ZenonT(30) DEF open_ungated, open_gated
<1>3. CASE UNCHANGED vars
  BY <1>3 DEF vars
<1>4. CASE Next
  BY <1>1, <1>2, <1>4, DiagnosticsMove DEF Next
<1> QED
  BY <1>3, <1>4

(* A process that is no longer running makes no more steps. *)
LEMMA OnceEnded ==
  ASSUME [Next]_vars, ~running
  PROVE  UNCHANGED vars
<1>1. ASSUME \/ \E o \in InitOutcome : lunet_paxe_init(o[1], o[2], o[3])
             \/ \E n \in PeerArg : lunet_paxe_set_local_id(n)
             \/ lunet_paxe_shutdown \/ process_exit \/ process_abort
             \/ lunet_paxe_keystore_clear
      PROVE  running
  BY <1>1, Zenon DEF lunet_paxe_init, lunet_paxe_set_local_id, lunet_paxe_shutdown,
                     process_exit, process_abort, lunet_paxe_keystore_clear
<1>2. ASSUME NEW p \in PeerArg, NEW e \in EpochArg,
             \/ \E key_ok \in BOOLEAN, m \in Material :
                   lunet_paxe_keystore_set(p, e, key_ok, m)
             \/ lunet_paxe_keystore_retire(p, e)
      PROVE  running
  BY <1>2, Zenon DEF lunet_paxe_keystore_set, lunet_paxe_keystore_retire
<1>3. ASSUME \/ \E payload \in PayloadArg, to \in PeerArg, c \in ChannelArg,
                   cap \in Capacity, ok \in BOOLEAN : lunet_paxe_seal(payload, to, c, cap, ok)
             \/ \E f \in Datagram, cap \in Capacity, ok \in BOOLEAN : open_ungated(f, cap, ok)
             \/ \E cap \in Capacity : open_gated(cap)
             \/ \E f \in Datagram, ok \in BOOLEAN : lunet_paxe_frame_for_us(f, ok)
      PROVE  running
  <2>1. ASSUME NEW payload, NEW to, NEW c, NEW cap, NEW ok,
               lunet_paxe_seal(payload, to, c, cap, ok)
        PROVE  running
    BY <2>1 DEF lunet_paxe_seal
  <2>2. \A f, cap, ok : lunet_paxe_open(f, cap, ok) => running
    BY Zenon DEF lunet_paxe_open
  <2>3. \A f, ok : lunet_paxe_frame_for_us(f, ok) => running
    BY Zenon DEF lunet_paxe_frame_for_us
  <2> QED
    BY <1>3, <2>1, <2>2, <2>3, Zenon DEF open_ungated, open_gated
<1>4. ASSUME \/ \E name \in PolicyArg, ok \in BOOLEAN : lunet_paxe_fail_policy_set(name, ok)
             \/ lunet_paxe_last_error \/ lunet_paxe_stats
      PROVE  running
  BY <1>4, Zenon DEF lunet_paxe_fail_policy_set, lunet_paxe_last_error, lunet_paxe_stats
<1>5. CASE Next
  BY <1>1, <1>2, <1>3, <1>4, <1>5 DEF Next, terminated
<1> QED
  BY <1>5

(* The process starts running, with nothing done to it. *)
LEMMA StartsRunning ==
  ASSUME Init
  PROVE  running /\ ~proc.init_called
<1>1. proc = [hook |-> FALSE, armed |-> FALSE, init_called |-> FALSE, cores |-> "inherited",
              warned |-> FALSE, state |-> "running"]
  BY Zenon DEF Init
<1> QED
  BY <1>1 DEF running

(* Dropping the store frees every key. *)
LEMMA DropEmptiesHeap ==
  ASSUME StoreInv, drop_store
  PROVE  DOMAIN heap' = {}
  BY DEF drop_store, sodium_free, StoreInv, HeapHoldsInstalledKeysOnly

(* Normal termination with the exit hook armed erases every key, for any   *)
(* history of installs, shutdowns and repeated inits before it.            *)
THEOREM ExitErases == Spec => []ExitErasesKeys
<1>1. Init => ExitErasesKeys
  BY StartsRunning DEF running, ExitErasesKeys
<1>2. StoreInv /\ RestOK /\ ExitErasesKeys /\ [Next]_vars => ExitErasesKeys'
  <2> SUFFICES ASSUME StoreInv, RestOK, ExitErasesKeys, [Next]_vars PROVE ExitErasesKeys'
    OBVIOUS
  <2>1. CASE ~running
    BY <2>1, OnceEnded DEF vars, ExitErasesKeys
  <2>2. CASE running /\ UNCHANGED proc
    BY <2>2 DEF running, ExitErasesKeys
  <2>3. ASSUME NEW o \in InitOutcome, lunet_paxe_init(o[1], o[2], o[3]) PROVE ExitErasesKeys'
    BY <2>3 DEF lunet_paxe_init, running, ExitErasesKeys
  <2>4. CASE process_exit
    <3>1. proc'.armed => proc.armed
      BY <2>4, Zenon DEF process_exit, RestOK, Proc
    <3>2. shutdown_state => DOMAIN heap' = {}
      BY DropEmptiesHeap, Zenon DEF shutdown_state
    <3> QED
      BY <2>4, <3>1, <3>2 DEF process_exit, ExitErasesKeys
  <2>5. CASE process_abort
    BY <2>5, Zenon DEF process_abort, RestOK, Proc, ExitErasesKeys
  <2> QED
    BY <2>1, <2>2, <2>3, <2>4, <2>5, ProcMoves
<1> QED
  BY <1>1, <1>2, SessionStore, RestInitially, RestStep, PTL DEF Spec

(* Core dumps are dealt with by the first init and stay so, whatever comes *)
(* of that init and of later ones.                                         *)
CoresInv == proc.init_called => proc.cores = "off" \/ proc.warned \/ ALLOW_CORE_DUMPS

(* A crash after init, successful or not, leaves no core with keys in it   *)
(* that nobody was warned of.                                              *)
THEOREM CrashesLeaveNoCore == Spec => []CrashLeavesNoCore
<1>1. Init => CoresInv
  BY StartsRunning DEF CoresInv
<1>2. RestOK /\ CoresInv /\ [Next]_vars => CoresInv'
  <2> SUFFICES ASSUME RestOK, CoresInv, [Next]_vars PROVE CoresInv'
    OBVIOUS
  <2>1. CASE UNCHANGED proc
    BY <2>1 DEF CoresInv
  <2>2. ASSUME NEW o \in InitOutcome, lunet_paxe_init(o[1], o[2], o[3]) PROVE CoresInv'
    BY <2>2, SessionAssumption, Zenon DEF lunet_paxe_init, RestOK, Proc, CoresInv
  <2>3. CASE process_exit \/ process_abort
    BY <2>3, Zenon DEF process_exit, process_abort, RestOK, Proc, CoresInv
  <2> QED
    BY <2>1, <2>2, <2>3, ProcMoves
<1>3. CoresInv => CrashLeavesNoCore
  BY DEF CoresInv, CrashLeavesNoCore
<1> QED
  BY <1>1, <1>2, <1>3, RestInitially, RestStep, PTL DEF Spec

-----------------------------------------------------------------------------
(* What a call that reports a rejection or a failure has done. *)

(* A way of returning fixes the code it returns. *)
LEMMA ReturnCodes ==
  ASSUME NEW call
  PROVE  /\ \A rc, out : returns(call, rc, out) => ret'.rc = rc /\ ret'.call = call
         /\ fail(call) => ret'.rc = RC_ERR /\ ret'.call = call
         /\ invalid(call) => ret'.rc = RC_INVAL /\ ret'.call = call
         /\ drop(call) => /\ ret'.rc = RC_DROP /\ ret'.call = call
                          /\ ret'.out = {} /\ UNCHANGED last_error
  BY DEF returns, fail, invalid, drop

(* The codes are distinct. *)
LEMMA CodesDiffer ==
  /\ RC_DROP \notin {RC_OK, RC_OK_ABSENT, RC_ERR, RC_INVAL, 0, 1, 13}
  /\ {RC_ERR, RC_INVAL} \cap {RC_OK, RC_OK_ABSENT, RC_DROP, 0, 1, 13} = {}
  BY DEF RC_DROP, RC_OK, RC_OK_ABSENT, RC_ERR, RC_INVAL

(* What a failing call leaves as it was: the keys, the log, and all        *)
(* counters but that of oversize payloads.                                 *)
Kept ==
    /\ UNCHANGED storeVars
    /\ UNCHANGED log
    /\ stats' = stats \/ stats' = record_tx_oversize(stats)

Failed == ret'.rc \in {RC_ERR, RC_INVAL}

(* The calls on the session and its keys: none drops, a failure keeps.     *)
LEMMA KeyCallsKeep ==
  ASSUME StoreInv,
         \/ \E o \in InitOutcome : lunet_paxe_init(o[1], o[2], o[3])
         \/ \E n \in PeerArg : lunet_paxe_set_local_id(n)
         \/ \E p \in PeerArg, e \in EpochArg :
               \/ \E key_ok \in BOOLEAN, m \in Material :
                     lunet_paxe_keystore_set(p, e, key_ok, m)
               \/ lunet_paxe_keystore_retire(p, e)
         \/ lunet_paxe_keystore_clear
         \/ lunet_paxe_shutdown
  PROVE  ret'.rc # RC_DROP /\ (Failed => Kept)
<1>1. ASSUME NEW o \in InitOutcome, lunet_paxe_init(o[1], o[2], o[3])
      PROVE  ret'.rc # RC_DROP /\ Kept
  <2>1. Kept
    BY <1>1, Zenon DEF lunet_paxe_init, Kept, storeVars
  <2>2. returns("init", RC_OK, {}) \/ fail("init")
    BY <1>1, Zenon DEF lunet_paxe_init
  <2> QED
    BY <2>1, <2>2, ReturnCodes, CodesDiffer
<1>2. ASSUME NEW n \in PeerArg, lunet_paxe_set_local_id(n)
      PROVE  ret'.rc # RC_DROP /\ (Failed => Kept)
  <2>1. UNCHANGED <<stats, log>>
    BY <1>2 DEF lunet_paxe_set_local_id
  <2>2. \/ UNCHANGED storeVars /\ (invalid("set_local_id") \/ fail("set_local_id"))
        \/ returns("set_local_id", RC_OK, {})
    BY <1>2, Zenon DEF lunet_paxe_set_local_id
  <2> QED
    BY <2>1, <2>2, ReturnCodes, CodesDiffer, ZenonT(30) DEF Kept, Failed
<1>3. ASSUME NEW p \in PeerArg, NEW e \in EpochArg, NEW k, NEW m \in Material,
             lunet_paxe_keystore_set(p, e, k, m)
      PROVE  ret'.rc # RC_DROP /\ (Failed => Kept)
  <2>1. UNCHANGED <<stats, log>>
    BY <1>3 DEF lunet_paxe_keystore_set
  <2>2. \/ UNCHANGED storeVars /\ (invalid("keystore_set") \/ fail("keystore_set"))
        \/ /\ u16_ok(p) /\ epoch_ok(e) /\ fail("keystore_set")
           /\ install_full(<<p, e>>, m) \/ install_failed(<<p, e>>, m)
        \/ returns("keystore_set", RC_OK, {})
    BY <1>3, Zenon DEF lunet_paxe_keystore_set
  <2>3. u16_ok(p) /\ epoch_ok(e) => <<p, e>> \in Slot
    BY DEF u16_ok, epoch_ok, Slot
  <2>4. install_full(<<p, e>>, m) => UNCHANGED storeVars
    BY DEF install_full
  <2>5. <<p, e>> \in Slot /\ install_failed(<<p, e>>, m) => UNCHANGED storeVars
    BY InstallFailedPreserves
  <2> QED
    BY <2>1, <2>2, <2>3, <2>4, <2>5, ReturnCodes, CodesDiffer, Zenon DEF Kept, Failed
<1>4. ASSUME NEW p \in PeerArg, NEW e \in EpochArg, lunet_paxe_keystore_retire(p, e)
      PROVE  ret'.rc # RC_DROP /\ (Failed => Kept)
  <2>1. UNCHANGED <<stats, log>>
    BY <1>4 DEF lunet_paxe_keystore_retire
  <2>2. \/ UNCHANGED storeVars /\ (invalid("keystore_retire") \/ fail("keystore_retire"))
        \/ \E rc \in {RC_OK, RC_OK_ABSENT} : returns("keystore_retire", rc, {})
    BY <1>4 DEF lunet_paxe_keystore_retire
  <2> QED
    BY <2>1, <2>2, ReturnCodes, CodesDiffer, Zenon DEF Kept, Failed
<1>5. ASSUME lunet_paxe_keystore_clear \/ lunet_paxe_shutdown PROVE ret'.rc = RC_OK
  BY <1>5, ReturnCodes DEF lunet_paxe_keystore_clear, lunet_paxe_shutdown
<1> QED
  BY <1>1, <1>2, <1>3, <1>4, <1>5, CodesDiffer, Zenon DEF Failed

(* open drops without a word; a failure of open, frame_for_us or seal      *)
(* keeps, and neither of the last two drops.                               *)
LEMMA OpenKeeps ==
  ASSUME NEW f, NEW cap, NEW ok, lunet_paxe_open(f, cap, ok)
  PROVE  /\ ret'.rc = RC_DROP => ret'.out = {} /\ UNCHANGED last_error
         /\ Failed => Kept
<1>1. UNCHANGED storeVars
  BY OpenMoves
<1>2. \/ invalid("open") /\ UNCHANGED <<stats, log>>
      \/ drop("open")
      \/ returns("open", RC_OK, {opened(f)})
  BY Zenon DEF lunet_paxe_open
<1> QED
  BY <1>1, <1>2, ReturnCodes, CodesDiffer, Zenon DEF Kept, Failed

(* The gate. *)
LEMMA GateKeeps ==
  ASSUME NEW f, NEW ok, lunet_paxe_frame_for_us(f, ok)
  PROVE  ret'.rc # RC_DROP /\ (Failed => Kept)
<1>1. UNCHANGED storeVars
  BY GateMoves
<1>2. \/ invalid("frame_for_us") /\ UNCHANGED <<stats, log>>
      \/ \E rc \in {0, 1} : returns("frame_for_us", rc, {})
  BY DEF lunet_paxe_frame_for_us
<1> QED
  BY <1>1, <1>2, ReturnCodes, CodesDiffer, Zenon DEF Kept, Failed

(* Sealing. *)
LEMMA SealKeeps ==
  ASSUME NEW payload, NEW to, NEW c, NEW cap, NEW ok,
         lunet_paxe_seal(payload, to, c, cap, ok)
  PROVE  ret'.rc # RC_DROP /\ (Failed => Kept)
<1>1. UNCHANGED storeVars /\ UNCHANGED log
  BY SealMoves, Zenon DEF lunet_paxe_seal
<1>2. \/ (invalid("seal") \/ fail("seal")) /\ UNCHANGED stats
      \/ fail("seal") /\ stats' = record_tx_oversize(stats)
      \/ \E out : returns("seal", RC_OK, out)
  BY DEF lunet_paxe_seal
<1> QED
  BY <1>1, <1>2, ReturnCodes, CodesDiffer, ZenonT(30) DEF Kept, Failed

(* Diagnostics. *)
LEMMA DiagnosticsKeep ==
  ASSUME \/ \E name \in PolicyArg, ok \in BOOLEAN : lunet_paxe_fail_policy_set(name, ok)
         \/ lunet_paxe_last_error \/ lunet_paxe_stats
  PROVE  ret'.rc # RC_DROP /\ (Failed => Kept)
<1>1. ASSUME NEW name \in PolicyArg, NEW ok \in BOOLEAN, lunet_paxe_fail_policy_set(name, ok)
      PROVE  ret'.rc # RC_DROP /\ (Failed => Kept)
  <2>1. UNCHANGED storeVars /\ UNCHANGED stats
    BY <1>1 DEF lunet_paxe_fail_policy_set, storeVars
  <2>2. \/ invalid("fail_policy_set") /\ UNCHANGED log
        \/ returns("fail_policy_set", RC_OK, {})
    BY <1>1 DEF lunet_paxe_fail_policy_set
  <2> QED
    BY <2>1, <2>2, ReturnCodes, CodesDiffer, Zenon DEF Kept, Failed
<1>2. ASSUME lunet_paxe_last_error \/ lunet_paxe_stats
      PROVE  ret'.rc # RC_DROP /\ ~Failed
  BY <1>2, ReturnCodes, CodesDiffer, Zenon DEF lunet_paxe_last_error, lunet_paxe_stats, Failed
<1> QED
  BY <1>1, <1>2

(* The ends of the process are not returns of a call. *)
LEMMA EndingsEnd ==
  ASSUME RestOK, process_exit \/ process_abort
  PROVE  ~running'
  BY Zenon DEF RestOK, Proc, process_exit, process_abort, running

(* All calls together. *)
LEMMA CallsKeep ==
  ASSUME StoreInv, RestOK, Next, running'
  PROVE  \/ UNCHANGED vars
         \/ /\ ret'.rc = RC_DROP => /\ ret'.out = {} /\ UNCHANGED last_error
                                    /\ UNCHANGED storeVars
            /\ Failed => Kept
<1> DEFINE Goal == /\ ret'.rc = RC_DROP => /\ ret'.out = {} /\ UNCHANGED last_error
                                           /\ UNCHANGED storeVars
                   /\ Failed => Kept
<1>1. ASSUME NEW f, NEW cap, NEW ok, lunet_paxe_open(f, cap, ok) PROVE Goal
  BY <1>1, OpenMoves, OpenKeeps, Zenon
<1>2. CASE \/ \E f \in Datagram, cap \in Capacity, ok \in BOOLEAN : open_ungated(f, cap, ok)
           \/ \E cap \in Capacity : open_gated(cap)
  BY <1>1, <1>2, Zenon DEF open_ungated, open_gated
<1>3. ASSUME NEW f \in Datagram, NEW ok \in BOOLEAN, lunet_paxe_frame_for_us(f, ok) PROVE Goal
  BY <1>3, GateKeeps
<1>4. ASSUME NEW payload \in PayloadArg, NEW to \in PeerArg, NEW c \in ChannelArg,
             NEW cap \in Capacity, NEW ok \in BOOLEAN, lunet_paxe_seal(payload, to, c, cap, ok)
      PROVE  Goal
  BY <1>4, SealKeeps
<1> HIDE DEF Goal
<1>5. CASE \/ \E name \in PolicyArg, ok \in BOOLEAN : lunet_paxe_fail_policy_set(name, ok)
           \/ lunet_paxe_last_error \/ lunet_paxe_stats
  BY <1>5, DiagnosticsKeep DEF Goal
<1>6. CASE \/ \E o \in InitOutcome : lunet_paxe_init(o[1], o[2], o[3])
           \/ \E n \in PeerArg : lunet_paxe_set_local_id(n)
           \/ \E p \in PeerArg, e \in EpochArg :
                 \/ \E key_ok \in BOOLEAN, m \in Material :
                       lunet_paxe_keystore_set(p, e, key_ok, m)
                 \/ lunet_paxe_keystore_retire(p, e)
           \/ lunet_paxe_keystore_clear
           \/ lunet_paxe_shutdown
  BY <1>6, KeyCallsKeep DEF Goal
<1>7. CASE terminated
  BY <1>7 DEF terminated
<1>8. ~process_exit /\ ~process_abort
  BY EndingsEnd
<1> QED
  BY <1>2, <1>3, <1>4, <1>5, <1>6, <1>7, <1>8, Zenon DEF Next, Goal

(* A drop tells the caller nothing and changes no key. *)
THEOREM DropsAreOpaque == Spec => DropIsOpaque
<1>1. StoreInv /\ RestOK /\ [Next]_vars =>
         [ret'.rc = RC_DROP /\ running' =>
             last_error' = last_error /\ ret'.out = {} /\ UNCHANGED storeVars]_vars
  BY CallsKeep
<1> QED
  BY <1>1, SessionStore, RestInitially, RestStep, PTL DEF Spec, DropIsOpaque

(* A failing call changes nothing a later call can see. *)
THEOREM FailuresChangeNothing == Spec => FailureChangesNothing
<1> DEFINE Nothing == /\ local_id' = local_id
                      /\ contents' = contents
                      /\ [stats' EXCEPT !.tx_oversize = 0] = [stats EXCEPT !.tx_oversize = 0]
                      /\ log' = log
<1>1. Kept => Nothing
  <2> SUFFICES ASSUME Kept PROVE Nothing
    OBVIOUS
  <2>1. local_id' = local_id /\ contents' = contents /\ log' = log
    BY DEF Kept, storeVars, contents
  <2>2. [stats' EXCEPT !.tx_oversize = 0] = [stats EXCEPT !.tx_oversize = 0]
    BY DEF Kept, record_tx_oversize
  <2> QED
    BY <2>1, <2>2
<1> HIDE DEF Nothing
<1>2. StoreInv /\ RestOK /\ [Next]_vars =>
         [ret'.rc \in {RC_ERR, RC_INVAL} /\ running' => Nothing]_vars
  BY <1>1, CallsKeep DEF Failed
<1> QED
  BY <1>2, SessionStore, RestInitially, RestStep, PTL DEF Spec, FailureChangesNothing, Nothing

-----------------------------------------------------------------------------
(* Identity and keys change only as the call says. *)

NoWipe ==
    /\ configured /\ configured' => local_id' = local_id
    /\ \A s \in DOMAIN entries \ DOMAIN entries' :
          ret'.call \in {"shutdown", "keystore_clear", "keystore_retire"} \/ ~running'

(* A call that leaves the store as it was. *)
LEMMA UnchangedIsNoWipe ==
  ASSUME UNCHANGED storeVars
  PROVE  NoWipe
  BY DEF storeVars, NoWipe

(* A new store is made only where there was none, and so no key. *)
LEMMA SetLocalIdWipesNothing ==
  ASSUME StoreInv, NEW n, lunet_paxe_set_local_id(n)
  PROVE  NoWipe
<1>1. CASE UNCHANGED storeVars
  BY <1>1, UnchangedIsNoWipe
<1>2. CASE new(n)
  <2>1. local_id = NoId
    BY <1>2 DEF new
  <2>2. {entries[s] : s \in DOMAIN entries} = {}
    BY <2>1 DEF StoreInv, HeapHoldsInstalledKeysOnly
  <2>3. DOMAIN entries = {}
    BY <2>2, Zenon
  <2> QED
    BY <2>1, <2>3 DEF NoWipe, configured
<1> QED
  BY <1>1, <1>2 DEF lunet_paxe_set_local_id

(* keystore_set only adds a slot, keystore_retire and keystore_clear say   *)
(* so, and keep the identity.                                              *)
LEMMA KeyCallsWipeNothingElse ==
  ASSUME StoreInv,
         \/ \E p \in PeerArg, e \in EpochArg :
               \/ \E key_ok \in BOOLEAN, m \in Material :
                     lunet_paxe_keystore_set(p, e, key_ok, m)
               \/ lunet_paxe_keystore_retire(p, e)
         \/ lunet_paxe_keystore_clear
         \/ lunet_paxe_shutdown
  PROVE  NoWipe
<1>1. ASSUME NEW p \in PeerArg, NEW e \in EpochArg, NEW k, NEW m \in Material,
             lunet_paxe_keystore_set(p, e, k, m)
      PROVE  NoWipe
  <2>1. UNCHANGED storeVars \/ UNCHANGED <<local_id, entries>> \/ install_ok(<<p, e>>, m)
    BY <1>1 DEF lunet_paxe_keystore_set, install_full, install_failed
  <2>2. CASE UNCHANGED storeVars \/ UNCHANGED <<local_id, entries>>
    BY <2>2 DEF NoWipe, storeVars
  <2>3. CASE install_ok(<<p, e>>, m)
    BY <2>3, Zenon DEF install_ok, insert, NoWipe
  <2> QED
    BY <2>1, <2>2, <2>3
<1>2. ASSUME NEW p \in PeerArg, NEW e \in EpochArg, lunet_paxe_keystore_retire(p, e)
      PROVE  NoWipe
  <2>1. UNCHANGED local_id
    BY <1>2 DEF lunet_paxe_keystore_retire, storeVars, retire
  <2>2. ret'.call = "keystore_retire"
    BY <1>2, ReturnCodes, ZenonT(30) DEF lunet_paxe_keystore_retire
  <2> QED
    BY <2>1, <2>2 DEF NoWipe
<1>3. ASSUME lunet_paxe_keystore_clear PROVE NoWipe
  <2>1. UNCHANGED local_id
    BY <1>3, ZenonT(30) DEF lunet_paxe_keystore_clear, storeVars, clear
  <2>2. ret'.call = "keystore_clear"
    BY <1>3, ReturnCodes DEF lunet_paxe_keystore_clear
  <2> QED
    BY <2>1, <2>2 DEF NoWipe
<1>4. ASSUME lunet_paxe_shutdown PROVE NoWipe
  <2>1. local_id' = NoId
    BY <1>4, ZenonT(30) DEF lunet_paxe_shutdown, shutdown_state, drop_store
  <2>2. ret'.call = "shutdown"
    BY <1>4 DEF lunet_paxe_shutdown
  <2> QED
    BY <2>1, <2>2 DEF NoWipe, configured
<1> QED
  BY <1>1, <1>2, <1>3, <1>4

(* No key is lost, and no identity replaced, by any other call. *)
THEOREM NothingIsWipedSilently == Spec => NoSilentWipe
<1>1. StoreInv /\ RestOK /\ [Next]_vars => [NoWipe]_vars
  <2> SUFFICES ASSUME StoreInv, RestOK, Next PROVE NoWipe \/ UNCHANGED vars
    OBVIOUS
  <2>1. ASSUME \/ \E payload \in PayloadArg, to \in PeerArg, c \in ChannelArg,
                     cap \in Capacity, ok \in BOOLEAN : lunet_paxe_seal(payload, to, c, cap, ok)
               \/ \E f \in Datagram, cap \in Capacity, ok \in BOOLEAN : open_ungated(f, cap, ok)
               \/ \E cap \in Capacity : open_gated(cap)
               \/ \E f \in Datagram, ok \in BOOLEAN : lunet_paxe_frame_for_us(f, ok)
               \/ \E name \in PolicyArg, ok \in BOOLEAN : lunet_paxe_fail_policy_set(name, ok)
               \/ lunet_paxe_last_error \/ lunet_paxe_stats \/ terminated
        PROVE  NoWipe
    BY <2>1, SealMoves, OpenMoves, GateMoves, DiagnosticsMove, UnchangedIsNoWipe, Zenon
    DEF open_ungated, open_gated
  <2>2. ASSUME NEW o \in InitOutcome, lunet_paxe_init(o[1], o[2], o[3]) PROVE NoWipe
    BY <2>2, UnchangedIsNoWipe DEF lunet_paxe_init, storeVars
  <2>3. CASE process_exit \/ process_abort
    <3>1. local_id' = local_id \/ local_id' = NoId
      BY <2>3, Zenon DEF process_exit, process_abort, shutdown_state, drop_store
    <3>2. ~running'
      BY <2>3, EndingsEnd
    <3> QED
      BY <3>1, <3>2 DEF NoWipe, configured
  <2> QED
    BY <2>1, <2>2, <2>3, SetLocalIdWipesNothing, KeyCallsWipeNothingElse DEF Next
<1> QED
  BY <1>1, SessionStore, RestInitially, RestStep, PTL DEF Spec, NoSilentWipe, NoWipe

-----------------------------------------------------------------------------
(* The gate and the open that follows it. *)

(* frame_for_us holds back at most one datagram, at least a prefix long    *)
(* and addressed to the node that took it.                                 *)
GateInv ==
    \A g \in gated :
        /\ gated = {g}
        /\ g.frame.len >= PREFIX_LEN
        /\ u16_from_be(g.frame.prefix[3], g.frame.prefix[4]) = g.id

(* Only the gate fills the slot and only open_gated empties it. *)
LEMMA GatedMoves ==
  ASSUME Next
  PROVE  \/ UNCHANGED gated
         \/ \E frame \in Datagram, ok \in BOOLEAN : lunet_paxe_frame_for_us(frame, ok)
         \/ \E cap \in Capacity : open_gated(cap)
<1>1. ASSUME NEW payload, NEW to, NEW c, NEW cap, NEW ok,
             lunet_paxe_seal(payload, to, c, cap, ok)
      PROVE  UNCHANGED gated
  BY <1>1, Zenon DEF lunet_paxe_seal
<1>2. ASSUME NEW n, lunet_paxe_set_local_id(n) PROVE UNCHANGED gated
  BY <1>2, Zenon DEF lunet_paxe_set_local_id
<1>3. ASSUME NEW p, NEW e, NEW ok, NEW m,
             lunet_paxe_keystore_set(p, e, ok, m) \/ lunet_paxe_keystore_retire(p, e)
      PROVE  UNCHANGED gated
  BY <1>3, Zenon DEF lunet_paxe_keystore_set, lunet_paxe_keystore_retire
<1>4. ASSUME NEW o, lunet_paxe_init(o[1], o[2], o[3]) PROVE UNCHANGED gated
  BY <1>4, Zenon DEF lunet_paxe_init
<1>5. ASSUME NEW f, NEW cap, NEW ok, open_ungated(f, cap, ok) PROVE UNCHANGED gated
  BY <1>5, Zenon DEF open_ungated
<1>6. ASSUME NEW name, NEW ok, lunet_paxe_fail_policy_set(name, ok) PROVE UNCHANGED gated
  BY <1>6, Zenon DEF lunet_paxe_fail_policy_set
<1>7. CASE \/ lunet_paxe_shutdown \/ process_exit \/ process_abort
           \/ lunet_paxe_keystore_clear \/ lunet_paxe_last_error \/ lunet_paxe_stats
           \/ terminated
  BY <1>7, Zenon DEF lunet_paxe_shutdown, process_exit, process_abort,
     lunet_paxe_keystore_clear, lunet_paxe_last_error, lunet_paxe_stats, terminated, vars
<1> QED
  BY <1>1, <1>2, <1>3, <1>4, <1>5, <1>6, <1>7, Zenon DEF Next

(* GateInv is inductive. *)
LEMMA GateInvStep == GateInv /\ [Next]_vars => GateInv'
<1> SUFFICES ASSUME GateInv, [Next]_vars PROVE GateInv'
  OBVIOUS
<1>1. CASE UNCHANGED gated
  BY <1>1 DEF GateInv
<1>2. ASSUME NEW frame \in Datagram, NEW ok \in BOOLEAN, lunet_paxe_frame_for_us(frame, ok)
      PROVE  GateInv'
  <2>1. CASE addressed_here(frame) /\ gated' = {[frame |-> frame, id |-> local_id]}
    BY <2>1 DEF GateInv, addressed_here
  <2> QED
    BY <1>1, <1>2, <2>1 DEF lunet_paxe_frame_for_us
<1>3. ASSUME NEW cap \in Capacity, open_gated(cap) PROVE GateInv'
  BY <1>3 DEF open_gated, GateInv
<1>4. CASE UNCHANGED vars
  BY <1>1, <1>4 DEF vars
<1> QED
  BY <1>1, <1>2, <1>3, <1>4, GatedMoves

(* Counting one reason leaves the other counters of reasons alone. *)
LEMMA OthersKeepCount ==
  ASSUME NEW s \in Stats, NEW r \in RejectReason, NEW q \in RejectReason, q # r
  PROVE  record_rx_drop(record_reject(s, r)).rx_rejects[q] = s.rx_rejects[q]
<1> DEFINE t == record_reject(s, r)
<1>1. t \in Stats /\ t.rx_rejects = [s.rx_rejects EXCEPT ![r] = saturating_add(@, 1)]
  BY RejectKeepsStats
<1>2. s.rx_rejects \in [RejectReason -> Counter]
  BY StatsFields
<1> HIDE DEF t
<1>3. record_rx_drop(t).rx_rejects = t.rx_rejects
  BY <1>1 DEF record_rx_drop, Stats
<1> QED
  BY <1>1, <1>2, <1>3 DEF t

(* A frame addressed to the node is not rejected as Plaintext. *)
LEMMA AddressedIsNotPlaintext ==
  ASSUME NEW f, NEW t, u16_from_be(f.prefix[3], f.prefix[4]) = local_id
  PROVE  open_verdict(local_id, t, f) # "Plaintext"
<1>1. parsed_header(f.prefix).to_id = local_id
  BY Zenon DEF parsed_header, header_from_bytes
<1> QED
  BY <1>1, ZenonT(30) DEF open_verdict, standard_verdict, dek_verdict, from_codec, key_miss

(* What the gate settled stays settled. *)
THEOREM GateSettles == Spec => GateSettlesAddressing
<1> DEFINE Settled == \A g \in gated :
          gated' = {} =>
             /\ g.id = local_id =>
                   stats'.rx_rejects["Plaintext"] = stats.rx_rejects["Plaintext"]
             /\ stats'.rx_rejects["TooShort"] # stats.rx_rejects["TooShort"] =>
                   g.frame.len >= PREFIX_LEN
<1>1. Init => GateInv
  BY Zenon DEF Init, GateInv
<1>2. GateInv /\ StatsInv /\ [Next]_vars => [Settled]_vars
  <2> SUFFICES ASSUME GateInv, StatsInv, Next, NEW g \in gated, gated' = {}, g.id = local_id
               PROVE  stats'.rx_rejects["Plaintext"] = stats.rx_rejects["Plaintext"]
    BY DEF GateInv
  <2>1. PICK cap \in Capacity : open_gated(cap)
    BY GatedMoves, Zenon DEF lunet_paxe_frame_for_us
  <2>2. lunet_paxe_open(g.frame, cap, TRUE)
    BY <2>1, Zenon DEF open_gated, GateInv
  <2> DEFINE v == open_verdict(local_id, contents, g.frame)
  <2>3. v # "Plaintext" /\ stats \in Stats
    BY AddressedIsNotPlaintext DEF GateInv, StatsInv
  <2>4. v # "Ok" => v \in RejectReason
    BY VerdictIsReason
  <2>5. \/ UNCHANGED stats
        \/ stats' = record_rx_ok(stats)
        \/ v # "Ok" /\ stats' = record_rx_drop(record_reject(stats, v))
    BY <2>2, Zenon DEF lunet_paxe_open, count_reject
  <2> HIDE DEF v
  <2>6. record_rx_ok(stats).rx_rejects = stats.rx_rejects
    BY <2>3 DEF record_rx_ok, Stats
  <2>7. "Plaintext" \in RejectReason
    BY DEF RejectReason
  <2> QED
    BY <2>3, <2>4, <2>5, <2>6, <2>7, OthersKeepCount
<1> QED
  BY <1>1, <1>2, GateInvStep, StatsInvariant, PTL DEF Spec, GateSettlesAddressing

-----------------------------------------------------------------------------
(* No call but seal returns as seal. *)
LEMMA OnlySealSeals ==
  ASSUME RestOK, Next, running', ret'.call = "seal"
  PROVE  \E payload \in PayloadArg : \E to \in PeerArg : \E c \in ChannelArg :
         \E cap \in Capacity : \E ok \in BOOLEAN : lunet_paxe_seal(payload, to, c, cap, ok)
<1>1. ASSUME NEW f, NEW cap, NEW ok, lunet_paxe_open(f, cap, ok) PROVE FALSE
  <2>1. invalid("open") \/ drop("open") \/ \E rc, out : returns("open", rc, out)
    BY <1>1, Zenon DEF lunet_paxe_open
  <2> QED
    BY <2>1, ReturnCodes
<1>2. ASSUME NEW f, NEW ok, lunet_paxe_frame_for_us(f, ok) PROVE FALSE
  <2>1. invalid("frame_for_us") \/ \E rc, out : returns("frame_for_us", rc, out)
    BY <1>2, Zenon DEF lunet_paxe_frame_for_us
  <2> QED
    BY <2>1, ReturnCodes
<1>3. ASSUME NEW n, lunet_paxe_set_local_id(n) PROVE FALSE
  BY <1>3, ReturnCodes DEF lunet_paxe_set_local_id
<1>4. ASSUME NEW p, NEW e, NEW ok, NEW m, lunet_paxe_keystore_set(p, e, ok, m) PROVE FALSE
  <2>1. \/ invalid("keystore_set") \/ fail("keystore_set")
        \/ returns("keystore_set", RC_OK, {})
    BY <1>4, Zenon DEF lunet_paxe_keystore_set
  <2> QED
    BY <2>1, ReturnCodes
<1>5. ASSUME NEW p, NEW e, lunet_paxe_keystore_retire(p, e) PROVE FALSE
  BY <1>5, ReturnCodes DEF lunet_paxe_keystore_retire
<1>6. ASSUME NEW o, lunet_paxe_init(o[1], o[2], o[3]) PROVE FALSE
  BY <1>6, ReturnCodes DEF lunet_paxe_init
<1>7. ASSUME NEW name, NEW ok, lunet_paxe_fail_policy_set(name, ok) PROVE FALSE
  <2>1. invalid("fail_policy_set") \/ \E rc : returns("fail_policy_set", rc, {})
    BY <1>7, Zenon DEF lunet_paxe_fail_policy_set
  <2> QED
    BY <2>1, ReturnCodes
<1>8. ~lunet_paxe_keystore_clear /\ ~lunet_paxe_last_error /\ ~lunet_paxe_stats
  BY ReturnCodes DEF lunet_paxe_keystore_clear, lunet_paxe_last_error, lunet_paxe_stats
<1>9. ~lunet_paxe_shutdown
  BY DEF lunet_paxe_shutdown
<1>10. ~process_exit /\ ~process_abort
  BY EndingsEnd
<1>11. ~terminated
  BY DEF terminated, vars, running
<1> QED
  BY <1>1, <1>2, <1>3, <1>4, <1>5, <1>6, <1>7, <1>8, <1>9, <1>10, <1>11, ZenonT(30)
  DEF Next, open_ungated, open_gated

(* Every frame handed out opens at its destination. *)
THEOREM SealedFramesOpen == Spec => SealedFrameOpensAtPeer
<1>1. ASSUME StoreInv, NEW payload \in PayloadArg, NEW to \in PeerArg, NEW c \in ChannelArg,
             NEW cap \in Capacity, NEW ok \in BOOLEAN,
             lunet_paxe_seal(payload, to, c, cap, ok), ret'.rc = RC_OK, NEW f \in ret'.out
      PROVE  OpensAtPeer(f)
  <2> DEFINE frame == standard_frame(local_id, contents, to, c,
                                     key_for_send_current(contents, to), payload, "fresh")
  <2>1. \/ invalid("seal") \/ fail("seal")
        \/ /\ to \in U16 /\ configured /\ peer_known(contents, to)
           /\ returns("seal", RC_OK, {frame})
    BY <1>1, ZenonT(30) DEF lunet_paxe_seal, u16_ok
  <2>2. ~invalid("seal") /\ ~fail("seal")
    BY <1>1, ReturnCodes, CodesDiffer, ZenonT(30)
  <2>3. to \in U16 /\ configured /\ peer_known(contents, to) /\ f = frame
    BY <1>1, <2>1, <2>2 DEF returns
  <2> QED
    BY <1>1, <2>3, StandardOpensAtPeer, ZenonT(30)
<1>2. StoreInv /\ RestOK /\ [Next]_vars =>
         [ret'.call = "seal" /\ ret'.rc = RC_OK /\ running' =>
             \A f \in ret'.out : OpensAtPeer(f)]_vars
  BY <1>1, OnlySealSeals, ZenonT(30)
<1> QED
  BY <1>2, SessionStore, RestInitially, RestStep, PTL
  DEF Spec, SealedFrameOpensAtPeer, OpensAtPeer

-----------------------------------------------------------------------------
(* The store behind the C ABI keeps the promises of the store on its own:  *)
(* it never holds more than MAX_ENTRIES keys, and it implements PeerKeys.  *)
THEOREM SessionKeepsPromise == Spec => []WithinCapacity /\ ImplementsPeerKeys
<1>1. Spec => StoreSpec
  BY CallsKeepTheStore DEF CallsAreStoreOperations
<1> QED
  BY <1>1, CapacityRespected, StoreKeepsPromise, PTL

=============================================================================
