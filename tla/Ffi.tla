-------------------------------- MODULE Ffi --------------------------------
(***************************************************************************)
(* The C ABI of src/ffi.rs: one session of the library in one host         *)
(* process, driven by any sequence of calls.  Every exported function that *)
(* reads or writes session state is an action; one call is one step, since *)
(* every caller runs on the one VM thread.  The key store, the frames and  *)
(* the counters are those of KeyStore, Frames and Stats.                   *)
(***************************************************************************)
EXTENDS KeyStore, Frames, Stats

CONSTANTS
    InitOutcome,        \* outcomes of setrlimit, of libsodium and of atexit at init
    ChannelArg,         \* channels passed to seal (u32, as two halves)
    PayloadArg,         \* payloads passed to seal
    Capacity,           \* sizes of the caller's output buffers
    PolicyArg,          \* names passed to fail_policy_set
    Datagram,           \* datagrams the host may receive
    Ending,             \* how the host process may end: exited, aborted
    ALLOW_CORE_DUMPS    \* LUNET_PAXE_ALLOW_CORE_DUMPS = "1"

ASSUME SessionAssumption ==
    /\ ALLOW_CORE_DUMPS \in BOOLEAN
    /\ Capacity \subseteq Nat
    /\ InitOutcome \subseteq BOOLEAN \X BOOLEAN \X BOOLEAN
    /\ ChannelArg \subseteq U32
    /\ \A payload \in PayloadArg : payload # Noise /\ payload.len \in Nat

VARIABLES
    stats,      \* STATS
    log,        \* POLICY and LOGGED, with the history of the window
    last_error, \* LAST_ERROR: "" or the class of the message in it
    proc,       \* exit hook, core limit, and whether the process still runs
    gated,      \* the datagram frame_for_us admitted and the host still holds
    ret         \* what the last call returned and wrote to its out-pointers

vars == <<local_id, entries, heap, stats, log, last_error, proc, gated, ret>>

RC_OK == 0
RC_OK_ABSENT == 1
RC_ERR == -1
RC_INVAL == -2
RC_DROP == -3

(* hook: EXIT_HOOK_REGISTERED; armed: atexit accepted the handler. *)
Proc == [hook : BOOLEAN, armed : BOOLEAN, init_called : BOOLEAN, cores : {"inherited", "off"},
         warned : BOOLEAN, state : {"running", "exited", "aborted"}]

Init ==
    /\ StoreInit
    /\ stats = ZERO
    /\ log = SILENT
    /\ last_error = ""
    /\ proc = [hook |-> FALSE, armed |-> FALSE, init_called |-> FALSE, cores |-> "inherited",
               warned |-> FALSE, state |-> "running"]
    /\ gated = {}
    /\ ret = [call |-> "none", rc |-> RC_OK, out |-> {}]

-----------------------------------------------------------------------------
(* How calls return.  fail and invalid write the last-error buffer; no     *)
(* other return does.                                                      *)

returns(call, rc, out) ==
    ret' = [call |-> call, rc |-> rc, out |-> out] /\ UNCHANGED last_error
fail(call) ==
    ret' = [call |-> call, rc |-> RC_ERR, out |-> {}] /\ last_error' = "ERR"
invalid(call) ==
    ret' = [call |-> call, rc |-> RC_INVAL, out |-> {}] /\ last_error' = "INVAL"

running == proc.state = "running"
configured == local_id # NoId

(* check_u16, check_epoch, check_channel. *)
u16_ok(v) == v \in U16
epoch_ok(v) == v \in Epoch
channel_ok(c) == ~(c[1] = 0 /\ c[2] \in 1..99)

-----------------------------------------------------------------------------
(* Lifecycle. *)

(* Core-dump suppression comes first and never fails the call; then        *)
(* sodium::init, check_sizes and require_aes_gcm (together: ready); only   *)
(* then is the exit hook registered, once, whether or not atexit took it.  *)
lunet_paxe_init_suppressing_last(core_ok, ready, atexit_ok) ==
    LET suppress == ready /\ ~ALLOW_CORE_DUMPS
    IN  /\ running
        /\ proc' = [proc EXCEPT
                      !.init_called = TRUE,
                      !.cores = IF suppress /\ core_ok THEN "off" ELSE @,
                      !.warned = @ \/ (suppress /\ ~core_ok),
                      !.armed = @ \/ (ready /\ ~proc.hook /\ atexit_ok),
                      !.hook = @ \/ ready]
        /\ IF ready THEN returns("init", RC_OK, {}) ELSE fail("init")
        /\ UNCHANGED <<local_id, entries, heap, stats, log, gated>>

lunet_paxe_init(core_ok, ready, atexit_ok) ==
    LET suppress == ~ALLOW_CORE_DUMPS
    IN  /\ running
        /\ proc' = [proc EXCEPT
                      !.init_called = TRUE,
                      !.cores = IF suppress /\ core_ok THEN "off" ELSE @,
                      !.warned = @ \/ (suppress /\ ~core_ok),
                      !.armed = @ \/ (ready /\ ~proc.hook /\ atexit_ok),
                      !.hook = @ \/ ready]
        /\ IF ready THEN returns("init", RC_OK, {}) ELSE fail("init")
        /\ UNCHANGED <<local_id, entries, heap, stats, log, gated>>

lunet_paxe_set_local_id_recreating(node_id) ==
    /\ running
    /\ \/ /\ ~u16_ok(node_id)
          /\ invalid("set_local_id")
          /\ UNCHANGED storeVars
       \/ /\ u16_ok(node_id)
          /\ local_id' = node_id
          /\ entries' = EmptyTable
          /\ heap' = sodium_free(heap, {entries[s] : s \in DOMAIN entries})
          /\ returns("set_local_id", RC_OK, {})
    /\ UNCHANGED <<stats, log, proc, gated>>

lunet_paxe_set_local_id(node_id) ==
    /\ running
    /\ \/ /\ ~u16_ok(node_id) \/ configured
          /\ invalid("set_local_id")
          /\ UNCHANGED storeVars
       \/ /\ u16_ok(node_id) /\ ~configured     \* sodium::init failed
          /\ fail("set_local_id")
          /\ UNCHANGED storeVars
       \/ /\ u16_ok(node_id) /\ ~configured
          /\ new(node_id)
          /\ returns("set_local_id", RC_OK, {})
    /\ UNCHANGED <<stats, log, proc, gated>>

(* shutdown_state: the store, the last error and the log-once memo go; the *)
(* counters and the policy stay.                                           *)
shutdown_state_zeroing_counters ==
    /\ drop_store
    /\ last_error' = ""
    /\ log' = reset_log_once_memo(log)
    /\ stats' = ZERO

shutdown_state ==
    /\ drop_store
    /\ last_error' = ""
    /\ log' = reset_log_once_memo(log)
    /\ UNCHANGED stats

lunet_paxe_shutdown ==
    /\ running
    /\ shutdown_state
    /\ ret' = [call |-> "shutdown", rc |-> RC_OK, out |-> {}]
    /\ UNCHANGED <<proc, gated>>

(* Normal termination: the exit hook, once armed, is shutdown_state.       *)
(* Without it the thread-local destructors may or may not run.             *)
process_exit ==
    /\ running
    /\ proc' = [proc EXCEPT !.state = "exited"]
    /\ \/ shutdown_state
       \/ /\ ~proc.armed
          /\ UNCHANGED <<local_id, entries, heap, stats, log, last_error>>
    /\ UNCHANGED <<gated, ret>>

(* A crash of the host: panic = "abort" runs no destructor. *)
process_abort ==
    /\ running
    /\ proc' = [proc EXCEPT !.state = "aborted"]
    /\ UNCHANGED <<local_id, entries, heap, stats, log, last_error, gated, ret>>

-----------------------------------------------------------------------------
(* Keys.  key_ok: the buffer is non-null and exactly 32 bytes long. *)

lunet_paxe_keystore_set(peer, epoch, key_ok, material) ==
    LET slot == <<peer, epoch>>
        args_ok == u16_ok(peer) /\ epoch_ok(epoch) /\ key_ok
    IN  /\ running
        /\ \/ /\ ~args_ok
              /\ invalid("keystore_set")
              /\ UNCHANGED storeVars
           \/ /\ args_ok /\ ~configured
              /\ fail("keystore_set")
              /\ UNCHANGED storeVars
           \/ /\ args_ok
              /\ install_full(slot, material) \/ install_failed(slot, material)
              /\ fail("keystore_set")
           \/ /\ args_ok
              /\ install_ok(slot, material)
              /\ returns("keystore_set", RC_OK, {})
        /\ UNCHANGED <<stats, log, proc, gated>>

lunet_paxe_keystore_retire(peer, epoch) ==
    LET slot == <<peer, epoch>>
        args_ok == u16_ok(peer) /\ epoch_ok(epoch)
    IN  /\ running
        /\ \/ /\ ~args_ok
              /\ invalid("keystore_retire")
              /\ UNCHANGED storeVars
           \/ /\ args_ok /\ ~configured
              /\ fail("keystore_retire")
              /\ UNCHANGED storeVars
           \/ /\ args_ok
              /\ retire(slot)
              /\ returns("keystore_retire",
                         IF contains_key(entries, slot) THEN RC_OK ELSE RC_OK_ABSENT, {})
        /\ UNCHANGED <<stats, log, proc, gated>>

lunet_paxe_keystore_clear ==
    /\ running
    /\ clear \/ (~configured /\ UNCHANGED storeVars)
    /\ returns("keystore_clear", RC_OK, {})
    /\ UNCHANGED <<stats, log, proc, gated>>

-----------------------------------------------------------------------------
(* Sealing.  ptrs_ok: every pointer passes buf_in, buf_out and its null    *)
(* check.  The oversize gate comes before the configuration gate, and the  *)
(* frame is built before the caller's buffer is measured.                  *)

lunet_paxe_seal(payload, to_id, channel, out_cap, ptrs_ok) ==
    LET args_ok == u16_ok(to_id) /\ channel_ok(channel) /\ ptrs_ok
        oversize == payload.len > MAX_PAYLOAD
        keyed == configured /\ peer_known(contents, to_id)
        epoch == key_for_send_current(contents, to_id)
        verdict == seal_verdict(contents, to_id, epoch, payload)
        frame == standard_frame(local_id, contents, to_id, channel, epoch,
                                payload, "fresh")
    IN  /\ running
        /\ \/ ~args_ok /\ invalid("seal") /\ UNCHANGED stats
           \/ /\ args_ok /\ oversize
              /\ stats' = record_tx_oversize(stats)
              /\ fail("seal")
           \/ /\ args_ok /\ ~oversize
              /\ ~(keyed /\ verdict = "Ok")
              /\ fail("seal")
              /\ UNCHANGED stats
           \/ /\ args_ok /\ ~oversize /\ keyed /\ verdict = "Ok"
              /\ frame.len > out_cap
              /\ invalid("seal")
              /\ UNCHANGED stats
           \/ /\ args_ok /\ ~oversize /\ keyed /\ verdict = "Ok"
              /\ frame.len <= out_cap
              /\ stats' = record_tx_sealed(stats, "Standard")
              /\ returns("seal", RC_OK, {frame})
        /\ UNCHANGED <<local_id, entries, heap, log, proc, gated>>

-----------------------------------------------------------------------------
(* Receiving. *)

drop_explaining(call) ==
    ret' = [call |-> call, rc |-> RC_DROP, out |-> {}] /\ last_error' = "DROP"

drop(call) == returns(call, RC_DROP, {})

(* A datagram rejected by a configured receiver: the reason is recorded    *)
(* where it is known, the total at the boundary.                           *)
count_reject_total_only(reason) ==
    /\ stats' = record_rx_drop(stats)
    /\ log' = apply_policy(log, reason)

count_reject(reason) ==
    /\ stats' = record_rx_drop(record_reject(stats, reason))
    /\ log' = apply_policy(log, reason)

lunet_paxe_open(frame, out_cap, ptrs_ok) ==
    LET verdict == open_verdict(local_id, contents, frame)
        plain == opened(frame)
    IN  /\ running
        /\ \/ ~ptrs_ok /\ invalid("open") /\ UNCHANGED <<stats, log>>
           \/ ptrs_ok /\ ~configured /\ drop("open") /\ UNCHANGED <<stats, log>>
           \/ /\ ptrs_ok /\ configured /\ verdict = "Ok"
              /\ plain.payload.len > out_cap
              /\ invalid("open")
              /\ UNCHANGED <<stats, log>>
           \/ /\ ptrs_ok /\ configured /\ verdict = "Ok"
              /\ plain.payload.len <= out_cap
              /\ stats' = record_rx_ok(stats)
              /\ returns("open", RC_OK, {plain})
              /\ UNCHANGED log
           \/ /\ ptrs_ok /\ configured /\ verdict # "Ok"
              /\ count_reject(verdict)
              /\ drop("open")
        /\ UNCHANGED <<local_id, entries, heap, proc>>

(* The protected-socket gate: header toId, big-endian in bytes 2-3. *)
addressed_here_any_length(frame) ==
    Len(frame.prefix) >= 4 /\ u16_from_be(frame.prefix[3], frame.prefix[4]) = local_id

addressed_here(frame) ==
    /\ frame.len >= PREFIX_LEN
    /\ u16_from_be(frame.prefix[3], frame.prefix[4]) = local_id

lunet_paxe_frame_for_us(frame, ptrs_ok) ==
    /\ running
    /\ \/ ~ptrs_ok /\ invalid("frame_for_us") /\ UNCHANGED <<stats, log, gated>>
       \/ /\ ptrs_ok /\ ~configured
          /\ returns("frame_for_us", 0, {})
          /\ UNCHANGED <<stats, log, gated>>
       \/ /\ ptrs_ok /\ configured /\ addressed_here(frame)
          /\ returns("frame_for_us", 1, {})
          /\ gated' = {[frame |-> frame, id |-> local_id]}
          /\ UNCHANGED <<stats, log>>
       \/ /\ ptrs_ok /\ configured /\ ~addressed_here(frame)
          /\ count_reject("Plaintext")
          /\ returns("frame_for_us", 0, {})
          /\ UNCHANGED gated
    /\ UNCHANGED <<local_id, entries, heap, proc>>

(* The host's protected socket opens what the gate admitted, after any     *)
(* calls of its own in between; a host may also open without the gate.     *)
open_gated(out_cap) ==
    \E g \in gated : lunet_paxe_open(g.frame, out_cap, TRUE) /\ gated' = {}

open_ungated(frame, out_cap, ptrs_ok) ==
    lunet_paxe_open(frame, out_cap, ptrs_ok) /\ UNCHANGED gated

-----------------------------------------------------------------------------
(* Diagnostics. *)

lunet_paxe_fail_policy_set(name, ptr_ok) ==
    /\ running
    /\ \/ /\ ptr_ok /\ name \in FailPolicy
          /\ log' = set_policy(log, name)
          /\ returns("fail_policy_set", RC_OK, {})
       \/ /\ ~(ptr_ok /\ name \in FailPolicy)
          /\ invalid("fail_policy_set")
          /\ UNCHANGED log
    /\ UNCHANGED <<local_id, entries, heap, stats, proc, gated>>

(* The buffer pointer of a Vec, empty or not, is never null. *)
lunet_paxe_last_error ==
    /\ running
    /\ returns("last_error", RC_OK, {"pointer"})
    /\ UNCHANGED <<local_id, entries, heap, stats, log, proc, gated>>

(* The count is always thirteen; the caller's buffer takes the snapshot,   *)
(* or as much of it as it holds.                                           *)
lunet_paxe_stats ==
    /\ running
    /\ returns("stats", 13, {fields(stats)})
    /\ UNCHANGED <<local_id, entries, heap, stats, log, proc, gated>>

terminated == ~running /\ UNCHANGED vars

-----------------------------------------------------------------------------
Next ==
    \/ \E o \in InitOutcome : lunet_paxe_init(o[1], o[2], o[3])
    \/ \E n \in PeerArg : lunet_paxe_set_local_id(n)
    \/ lunet_paxe_shutdown
    \/ "exited" \in Ending /\ process_exit
    \/ "aborted" \in Ending /\ process_abort
    \/ \E p \in PeerArg, e \in EpochArg :
          \/ \E key_ok \in BOOLEAN, m \in Material :
                lunet_paxe_keystore_set(p, e, key_ok, m)
          \/ lunet_paxe_keystore_retire(p, e)
    \/ lunet_paxe_keystore_clear
    \/ \E payload \in PayloadArg, to \in PeerArg, c \in ChannelArg,
          cap \in Capacity, ptrs_ok \in BOOLEAN :
             lunet_paxe_seal(payload, to, c, cap, ptrs_ok)
    \/ \E frame \in Datagram, cap \in Capacity, ptrs_ok \in BOOLEAN :
          open_ungated(frame, cap, ptrs_ok)
    \/ \E cap \in Capacity : open_gated(cap)
    \/ \E frame \in Datagram, ptrs_ok \in BOOLEAN :
          lunet_paxe_frame_for_us(frame, ptrs_ok)
    \/ \E name \in PolicyArg, ptr_ok \in BOOLEAN :
          lunet_paxe_fail_policy_set(name, ptr_ok)
    \/ lunet_paxe_last_error
    \/ lunet_paxe_stats
    \/ terminated

Spec == Init /\ [][Next]_vars

-----------------------------------------------------------------------------
(* Type invariant of the session. *)
TypeOK ==
    /\ StoreTypeOK
    /\ stats \in Stats
    /\ log \in Log
    /\ last_error \in {"", "ERR", "INVAL"}
    /\ proc \in Proc
    /\ ret.rc \in {RC_OK, RC_OK_ABSENT, RC_ERR, RC_INVAL, RC_DROP, 13}

(* The accounting invariant of stats.rs and paxe.h: every datagram counted *)
(* in rx_total was either opened or dropped for exactly one reason,        *)
(* through any mix of gate calls, gated and ungated opens, shutdowns and   *)
(* reconfigurations.  Counters saturate, so the sum does too.              *)
RxAccounting == stats.rx_total = saturating_add(stats.rx_ok, reject_sum(stats))

(* The same for transmission: every sealed frame is counted under its mode. *)
TxAccounting == stats.tx_total = saturating_add(stats.tx_standard, stats.tx_dek)

(* Log-once: within one log_once window every reason that was dropped has  *)
(* written exactly one line, however many datagrams were dropped, and a    *)
(* window opened again after a shutdown or a policy change reports anew.   *)
LogOnceWindow ==
    log.policy = "log_once" =>
        \A r \in RejectReason : log.lines[r] = IF r \in log.dropped THEN 1 ELSE 0

(* A process that exits normally after its hook was armed leaves no key in *)
(* guarded memory, whatever was installed since and whether or not the     *)
(* script called shutdown (lunet_paxe_init, shutdown_at_exit).             *)
ExitErasesKeys ==
    proc.state = "exited" /\ proc.armed => DOMAIN heap = {}

(* A crash after init, successful or not, writes no core with keys in it:  *)
(* core dumps are off, or the operator was warned or asked for them.       *)
CrashLeavesNoCore ==
    proc.state = "aborted" /\ proc.init_called /\ DOMAIN heap # {} =>
        proc.cores = "off" \/ proc.warned \/ ALLOW_CORE_DUMPS

(* No call, shutdown included, makes a counter go down: a monitoring delta *)
(* is never negative.                                                      *)
CountersNeverDecrease ==
    [][/\ stats'.rx_total >= stats.rx_total
       /\ stats'.rx_ok >= stats.rx_ok
       /\ \A r \in RejectReason : stats'.rx_rejects[r] >= stats.rx_rejects[r]
       /\ stats'.tx_total >= stats.tx_total
       /\ stats'.tx_standard >= stats.tx_standard
       /\ stats'.tx_oversize >= stats.tx_oversize]_vars

(* A rejected datagram tells the caller nothing: the last-error buffer     *)
(* keeps what it held, the out-pointers are not written, no key changes.   *)
DropIsOpaque ==
    [][ret'.rc = RC_DROP /\ running' =>
          last_error' = last_error /\ ret'.out = {} /\ UNCHANGED storeVars]_vars

(* A call that reports failure has changed nothing a later call can see    *)
(* except the last-error buffer, the oversize counter, and at init the     *)
(* core limit: identity, keys, counters and log are as before.             *)
FailureChangesNothing ==
    [][ret'.rc \in {RC_ERR, RC_INVAL} /\ running' =>
          /\ local_id' = local_id
          /\ contents' = contents
          /\ [stats' EXCEPT !.tx_oversize = 0] = [stats EXCEPT !.tx_oversize = 0]
          /\ log' = log]_vars

(* Identity changes only through shutdown: a second set_local_id never     *)
(* replaces a live store, so no call but retire, clear, an overwrite and   *)
(* shutdown can lose a key.                                                *)
NoSilentWipe ==
    [][/\ configured /\ configured' => local_id' = local_id
       /\ \A s \in DOMAIN entries \ DOMAIN entries' :
             ret'.call \in {"shutdown", "keystore_clear", "keystore_retire"} \/ ~running']_vars

(* What the gate admitted, open never rejects as misaddressed, unless the  *)
(* node was given another identity in between; and never as shorter than a *)
(* prefix, so its TooShort is a reusable-DEK frame below its own minimum.  *)
GateSettlesAddressing ==
    [][\A g \in gated :
          gated' = {} =>
             /\ g.id = local_id =>
                   stats'.rx_rejects["Plaintext"] = stats.rx_rejects["Plaintext"]
             /\ stats'.rx_rejects["TooShort"] # stats.rx_rejects["TooShort"] =>
                   g.frame.len >= PREFIX_LEN]_vars

(* The peer's half of the link: the same keys under this node's id. *)
mirror(peer) ==
    [s \in {<<local_id, e>> : e \in installed_epochs(contents, peer)} |->
        contents[<<peer, s[2]>>]]

(* A frame handed out by seal is one the destination opens, holding the    *)
(* same keys for the link under this node's id: it carries this node as    *)
(* its sender and is sealed under the highest epoch installed for the      *)
(* destination, with the key of the destination and of nobody else.        *)
SealedFrameOpensAtPeer ==
    [][ret'.call = "seal" /\ ret'.rc = RC_OK /\ running' =>
          \A f \in ret'.out :
             LET h == parsed_header(f.prefix)
                 e == parsed_flags(f.prefix).epoch
             IN  /\ h.from_id = local_id
                 /\ \A o \in installed_epochs(contents, h.to_id) : o <= e
                 /\ open_verdict(h.to_id, mirror(h.to_id), f) = "Ok"]_vars

(* Every call acts on the key store by at most one of its operations, so   *)
(* what holds of the store on its own holds of it behind the C ABI.        *)
CallsAreStoreOperations == StoreSpec

=============================================================================
