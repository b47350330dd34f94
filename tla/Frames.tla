------------------------------- MODULE Frames -------------------------------
(***************************************************************************)
(* Sealing and opening datagrams: src/standard.rs and src/dek.rs over the  *)
(* AEAD wrappers of src/sodium.rs.                                         *)
(*                                                                         *)
(* The AEAD is symbolic: a ciphertext is the record of the key, associated *)
(* data, nonce and plaintext it was made from, and opens only under that   *)
(* key, data and length.  A frame is its length, its prefix bytes, the     *)
(* ciphertext under the PSK (the payload of a standard frame, the DEK of a *)
(* fanout frame) and the body of a fanout frame.  Bytes that no sealer     *)
(* made are Noise.  A payload is an identity and a length.                 *)
(***************************************************************************)
EXTENDS KeyTable

CONSTANT Noise              \* a value that is no key, nonce or plaintext

OVERHEAD == 37
DEK_OVERHEAD == 97
MAX_UDP_DATAGRAM == 65507
MAX_PAYLOAD == MAX_UDP_DATAGRAM - OVERHEAD
DEK_MAX_PAYLOAD == MAX_UDP_DATAGRAM - DEK_OVERHEAD

-----------------------------------------------------------------------------
(* aead_encrypt, which has no failure once the length gates have passed,   *)
(* and aead_decrypt, whose every failure is AuthFailed.                    *)

aead_encrypt(key, nonce, aad, plain) ==
    [key |-> key, nonce |-> nonce, aad |-> aad, plain |-> plain]

opens_ignoring_aad(key, aad, box) == box.key = key

opens(key, aad, box) == box.key = key /\ box.aad = aad

NoBox == aead_encrypt(Noise, Noise, Noise, Noise)

(* Associated data: frame_aad is the prefix of the frame; body_aad is the  *)
(* sender, the channel and the marker 0x05; envelope_aad is the prefix and *)
(* the nonce and tag of the body, which stand for the whole body.          *)
frame_aad(prefix) == [prefix |-> prefix, body |-> NoBox]
body_aad(from_id, channel) == [from_id |-> from_id, channel |-> channel]
envelope_aad(prefix, body) == [prefix |-> prefix, body |-> body]

-----------------------------------------------------------------------------
(* Sealing.  local and table are the sender's identity and keys; dek and   *)
(* the nonces are the fresh values drawn from the CSPRNG.                  *)

prefix_of(local, to_id, channel, mode, epoch) ==
    serialize_prefix([from_id |-> local, to_id |-> to_id, channel |-> channel],
                     [mode |-> mode, epoch |-> epoch])

(* standard::seal, as dek::seal calls it: the verdict in gate order (the   *)
(* output buffer is always frame-sized there), then the frame.             *)
seal_verdict(table, to_id, epoch, payload) ==
    IF payload.len > MAX_PAYLOAD THEN "Oversize"
    ELSE IF ~contains_key(table, <<to_id, epoch>>) THEN "NoKey"
    ELSE "Ok"

standard_frame_keyed_by_sender(local, table, to_id, channel, epoch, payload, nonce) ==
    LET prefix == prefix_of(local, to_id, channel, "Standard", epoch)
        slot == IF <<local, epoch>> \in DOMAIN table
                THEN <<local, epoch>> ELSE <<to_id, epoch>>
    IN  [len    |-> payload.len + OVERHEAD,
         prefix |-> prefix,
         box    |-> aead_encrypt(table[slot], nonce, frame_aad(prefix), payload),
         body   |-> NoBox]

standard_frame(local, table, to_id, channel, epoch, payload, nonce) ==
    LET prefix == prefix_of(local, to_id, channel, "Standard", epoch)
    IN  [len    |-> payload.len + OVERHEAD,
         prefix |-> prefix,
         box    |-> aead_encrypt(table[<<to_id, epoch>>], nonce,
                                 frame_aad(prefix), payload),
         body   |-> NoBox]

(* select_fanout: recipients are judged in order and the first bad one     *)
(* decides; a repeat is noticed before its key is looked up.               *)
fanout_verdict_no_dedup(table, recipients, payload) ==
    IF recipients = <<>> THEN "EmptyRecipients"
    ELSE IF payload.len > DEK_MAX_PAYLOAD THEN "Oversize"
    ELSE IF \E i \in DOMAIN recipients : ~peer_known(table, recipients[i]) THEN "NoKey"
    ELSE "Ok"

fanout_verdict(table, recipients, payload) ==
    LET duplicate(i) == \E j \in 1..(i - 1) : recipients[j] = recipients[i]
        bad == {i \in DOMAIN recipients :
                   duplicate(i) \/ ~peer_known(table, recipients[i])}
        first == CHOOSE i \in bad : \A j \in bad : i <= j
    IN  IF recipients = <<>> THEN "EmptyRecipients"
        ELSE IF payload.len > DEK_MAX_PAYLOAD THEN "Oversize"
        ELSE IF bad # {}
             THEN IF duplicate(first) THEN "DuplicateRecipient" ELSE "NoKey"
        ELSE "Ok"

(* seal_fanout_core: one body under the DEK, one envelope per recipient    *)
(* under its current PSK, in the caller's order.                           *)
fanout_frames(local, table, recipients, channel, payload, dek, body_nonce, envelope_nonces) ==
    LET body == aead_encrypt(dek, body_nonce, body_aad(local, channel), payload)
        frame(i) ==
            LET to_id == recipients[i]
                epoch == key_for_send_current(table, to_id)
                prefix == prefix_of(local, to_id, channel, "Dek", epoch)
            IN  [len    |-> payload.len + DEK_OVERHEAD,
                 prefix |-> prefix,
                 box    |-> aead_encrypt(table[<<to_id, epoch>>], envelope_nonces[i],
                                         envelope_aad(prefix, body), dek),
                 body   |-> body]
    IN  [i \in DOMAIN recipients |-> frame(i)]

-----------------------------------------------------------------------------
(* Opening.  A frame whose length was changed in transit no longer carries *)
(* the ciphertext it was sealed with.                                      *)

intact(box, payload_len) == box.plain # Noise /\ box.plain.len = payload_len

key_miss_conflated(table, from_id) == "NoPeer"

key_miss(table, from_id) ==
    IF peer_known(table, from_id) THEN "NoEpoch" ELSE "NoPeer"

(* The classification of a codec error, RejectReason::from_codec. *)
from_codec(e) == IF e = "TooShort" THEN "TooShort" ELSE "BadFlags"

(* standard::open after the prefix has parsed. *)
standard_verdict(local, table, frame) ==
    LET h == parsed_header(frame.prefix)
        f == parsed_flags(frame.prefix)
        slot == <<h.from_id, f.epoch>>
    IN  IF h.to_id # local THEN "Plaintext"
        ELSE IF frame.len < OVERHEAD THEN "LenMismatch"
        ELSE IF ~contains_key(table, slot) THEN key_miss(table, h.from_id)
        ELSE IF /\ opens(table[slot], frame_aad(frame.prefix), frame.box)
                /\ intact(frame.box, frame.len - OVERHEAD)
             THEN "Ok"
        ELSE "AuthFailed"

(* open_dek after the prefix has parsed: here the length gate comes before *)
(* the address gate.  The envelope is opened first, then the body under    *)
(* the DEK it held.                                                        *)
dek_verdict(local, table, frame) ==
    LET h == parsed_header(frame.prefix)
        f == parsed_flags(frame.prefix)
        slot == <<h.from_id, f.epoch>>
        body == IF intact(frame.body, frame.len - DEK_OVERHEAD)
                THEN frame.body ELSE NoBox
    IN  IF frame.len < DEK_OVERHEAD THEN "TooShort"
        ELSE IF h.to_id # local THEN "Plaintext"
        ELSE IF ~contains_key(table, slot) THEN key_miss(table, h.from_id)
        ELSE IF /\ opens(table[slot], envelope_aad(frame.prefix, body), frame.box)
                /\ opens(frame.box.plain, body_aad(h.from_id, h.channel), body)
             THEN "Ok"
        ELSE "AuthFailed"

(* dek::open: "Ok", or the RejectReason recorded at the reject point. *)
open_verdict(local, table, frame) ==
    LET parse == parse_verdict(frame.prefix)
    IN  IF parse # "Ok" THEN from_codec(parse)
        ELSE IF parsed_flags(frame.prefix).mode = "Standard"
             THEN standard_verdict(local, table, frame)
        ELSE dek_verdict(local, table, frame)

(* What a successful open hands to its caller. *)
opened(frame) ==
    LET h == parsed_header(frame.prefix)
        f == parsed_flags(frame.prefix)
    IN  [from_id |-> h.from_id, channel |-> h.channel, mode |-> f.mode,
         payload |-> IF f.mode = "Standard" THEN frame.box.plain ELSE frame.body.plain]

=============================================================================
