---------------------------- MODULE FramesProofs ----------------------------
(***************************************************************************)
(* Proofs about the prefix codec, for every byte string and every header,  *)
(* and about sealing and opening one frame under any tables of keys.       *)
(***************************************************************************)
EXTENDS Frames, TLAPS

(* The provers get time enough on a slow machine. *)
USE SMTT(30), ZenonT(30)

(* Two bytes are recovered from the number they spell (from_be_bytes). *)
LEMMA U16Bytes ==
  ASSUME NEW hi \in Byte, NEW lo \in Byte
  PROVE  /\ u16_from_be(hi, lo) \div 256 = hi
         /\ u16_from_be(hi, lo) % 256 = lo
<1>1. hi \in 0..255 /\ lo \in 0..255
  BY DEF Byte
<1>2. (hi * 256 + lo) \div 256 = hi
  BY <1>1
<1>3. (hi * 256 + lo) % 256 = lo
  BY <1>1
<1> QED
  BY <1>2, <1>3, Zenon DEF u16_from_be

(* A 16-bit number is recovered from its two bytes (to_be_bytes). *)
LEMMA U16Number ==
  ASSUME NEW n \in U16
  PROVE  /\ n \div 256 \in Byte /\ n % 256 \in Byte
         /\ u16_from_be(n \div 256, n % 256) = n
<1>1. n \in Int /\ 0 <= n /\ n < 256 * 256
  <2> DEFINE max == 256 * 256 - 1
  <2>1. max \in Int
    OBVIOUS
  <2>2. n \in 0..max
    BY Zenon DEF U16
  <2> HIDE DEF max
  <2>3. n \in Int /\ 0 <= n /\ n <= max
    BY <2>1, <2>2
  <2> QED
    BY <2>3 DEF max
<1>2. /\ n \div 256 \in Int /\ n % 256 \in 0..255
      /\ n = 256 * (n \div 256) + (n % 256)
  BY <1>1
<1>3. n \div 256 \in 0..255
  BY <1>1, <1>2
<1>4. (n \div 256) * 256 + (n % 256) = n
  BY <1>1, <1>2
<1> QED
  BY <1>2, <1>3, <1>4, Zenon DEF u16_from_be, Byte

(* A flags byte that passes the fixed-bit gate is re-encoded to itself. *)
LEMMA FlagsByte ==
  ASSUME NEW b \in Byte, fixed_bits_ok(b)
  PROVE  /\ flags_from_byte(b) \in Flags
         /\ flags_to_byte(flags_from_byte(b)) = b
<1>1. b \div 8 \in Epoch
  BY DEF Byte, Epoch, MAX_EPOCH
<1>2. (b \div 2) % 4 = 2
  BY DEF fixed_bits_ok
<1>3. (IF b % 2 = 0 THEN 0 ELSE 1) + 4 + 8 * (b \div 8) = b
  BY <1>2 DEF Byte
<1> QED
  BY <1>1, <1>3 DEF flags_from_byte, flags_to_byte, Flags, Mode

(* Every mode and epoch encode to a byte that passes the gate and decodes back. *)
LEMMA FlagsValue ==
  ASSUME NEW f \in Flags
  PROVE  /\ flags_to_byte(f) \in Byte
         /\ fixed_bits_ok(flags_to_byte(f))
         /\ flags_from_byte(flags_to_byte(f)) = f
<1>1. f.epoch \in 0..31 /\ f.mode \in {"Standard", "Dek"}
      /\ f = [mode |-> f.mode, epoch |-> f.epoch]
  BY DEF Flags, Mode, Epoch, MAX_EPOCH
<1>2. CASE f.mode = "Standard"
  BY <1>1, <1>2 DEF flags_to_byte, fixed_bits_ok, flags_from_byte, Byte
<1>3. CASE f.mode = "Dek"
  BY <1>1, <1>3 DEF flags_to_byte, fixed_bits_ok, flags_from_byte, Byte
<1> QED
  BY <1>1, <1>2, <1>3

(* The nine bytes serialize_prefix writes, one by one. *)
LEMMA PrefixBytes ==
  ASSUME NEW h \in Header, NEW f \in Flags
  PROVE  serialize_prefix(h, f) =
           <<h.from_id \div 256, h.from_id % 256, h.to_id \div 256, h.to_id % 256,
             h.channel[1] \div 256, h.channel[1] % 256,
             h.channel[2] \div 256, h.channel[2] % 256, flags_to_byte(f)>>
  BY DEF serialize_prefix, header_to_bytes, u16_to_be, u32_to_be

-----------------------------------------------------------------------------
(* Flags and header round trips together: every header and flags value is  *)
(* read back from the prefix it was written to.                            *)
THEOREM EveryPrefixRoundTrips ==
  ASSUME NEW h \in Header, NEW f \in Flags
  PROVE  RoundTrip(h, f)
<1> DEFINE bytes == serialize_prefix(h, f)
<1>1. h.from_id \in U16 /\ h.to_id \in U16 /\ h.channel[1] \in U16 /\ h.channel[2] \in U16
      /\ h.channel = <<h.channel[1], h.channel[2]>>
      /\ h = [from_id |-> h.from_id, to_id |-> h.to_id, channel |-> h.channel]
  BY DEF Header, U32
<1>2. /\ Len(bytes) = 9
      /\ bytes[1] = h.from_id \div 256 /\ bytes[2] = h.from_id % 256
      /\ bytes[3] = h.to_id \div 256 /\ bytes[4] = h.to_id % 256
      /\ bytes[5] = h.channel[1] \div 256 /\ bytes[6] = h.channel[1] % 256
      /\ bytes[7] = h.channel[2] \div 256 /\ bytes[8] = h.channel[2] % 256
      /\ bytes[9] = flags_to_byte(f)
  BY PrefixBytes
<1> HIDE DEF bytes
<1>3. \A i \in 1..9 : bytes[i] \in Byte
  <2>1. \A i \in 1..9 : i = 1 \/ i = 2 \/ i = 3 \/ i = 4 \/ i = 5 \/ i = 6
                        \/ i = 7 \/ i = 8 \/ i = 9
    OBVIOUS
  <2> QED
    BY <1>1, <1>2, <2>1, U16Number, FlagsValue
<1>4. parse_verdict(bytes) = "Ok"
  BY <1>2, FlagsValue DEF parse_verdict, PREFIX_LEN
<1>5. parsed_header(bytes) = h
  <2>1. /\ u16_from_be(bytes[1], bytes[2]) = h.from_id
        /\ u16_from_be(bytes[3], bytes[4]) = h.to_id
        /\ u16_from_be(bytes[5], bytes[6]) = h.channel[1]
        /\ u16_from_be(bytes[7], bytes[8]) = h.channel[2]
    BY <1>1, <1>2, U16Number
  <2> QED
    BY <1>1, <2>1 DEF parsed_header, header_from_bytes, u32_from_be
<1>6. parsed_flags(bytes) = f
  BY <1>2, FlagsValue DEF parsed_flags
<1> QED
  BY <1>2, <1>3, <1>4, <1>5, <1>6 DEF bytes, RoundTrip, PREFIX_LEN

(* Whatever bytes arrive, the parser accepts only the canonical spelling   *)
(* of the fields it returns.                                               *)
THEOREM ParseIsCanonical ==
  ASSUME NEW bytes \in Seq(Byte)
  PROVE  Canonical(bytes)
<1> SUFFICES ASSUME parse_verdict(bytes) = "Ok", NEW i \in 1..9
             PROVE  serialize_prefix(parsed_header(bytes), parsed_flags(bytes))[i]
                       = bytes[i]
  BY DEF Canonical
<1> DEFINE h == parsed_header(bytes)
           f == parsed_flags(bytes)
<1>1. Len(bytes) >= 9 /\ fixed_bits_ok(bytes[9])
  BY DEF parse_verdict, PREFIX_LEN
<1>2. /\ bytes[1] \in Byte /\ bytes[2] \in Byte /\ bytes[3] \in Byte
      /\ bytes[4] \in Byte /\ bytes[5] \in Byte /\ bytes[6] \in Byte
      /\ bytes[7] \in Byte /\ bytes[8] \in Byte /\ bytes[9] \in Byte
  BY <1>1
<1>3. /\ h.from_id = u16_from_be(bytes[1], bytes[2])
      /\ h.to_id = u16_from_be(bytes[3], bytes[4])
      /\ h.channel[1] = u16_from_be(bytes[5], bytes[6])
      /\ h.channel[2] = u16_from_be(bytes[7], bytes[8])
  BY DEF parsed_header, header_from_bytes, u32_from_be
<1>4. /\ h.from_id \div 256 = bytes[1] /\ h.from_id % 256 = bytes[2]
      /\ h.to_id \div 256 = bytes[3] /\ h.to_id % 256 = bytes[4]
      /\ h.channel[1] \div 256 = bytes[5] /\ h.channel[1] % 256 = bytes[6]
      /\ h.channel[2] \div 256 = bytes[7] /\ h.channel[2] % 256 = bytes[8]
  BY <1>2, <1>3, U16Bytes
<1>5. flags_to_byte(f) = bytes[9]
  BY <1>1, <1>2, FlagsByte DEF parsed_flags
<1> HIDE DEF h, f
<1>6. serialize_prefix(h, f) =
        <<bytes[1], bytes[2], bytes[3], bytes[4], bytes[5], bytes[6], bytes[7],
          bytes[8], bytes[9]>>
  BY <1>4, <1>5 DEF serialize_prefix, header_to_bytes, u16_to_be, u32_to_be
<1>7. i = 1 \/ i = 2 \/ i = 3 \/ i = 4 \/ i = 5 \/ i = 6 \/ i = 7 \/ i = 8 \/ i = 9
  OBVIOUS
<1> QED
  BY <1>6, <1>7 DEF h, f

-----------------------------------------------------------------------------
(* Among the epochs of a peer one is the highest.  Top(S, k) says so for   *)
(* the members of S below k.                                               *)
Top(S, k) ==
    (\E e \in S : e < k) => \E e \in S : e < k /\ \A f \in S : f < k => f <= e

(* From k to the next. *)
LEMMA Higher ==
    ASSUME NEW S \in SUBSET Epoch, NEW k \in Nat, Top(S, k)
    PROVE  Top(S, k + 1)
<1>1. S \subseteq Int
  BY DEF Epoch, MAX_EPOCH
<1>2. CASE k \in S
  BY <1>1, <1>2 DEF Top
<1>3. CASE k \notin S
  <2>1. \A e \in S : e < k + 1 <=> e < k
    BY <1>1, <1>3
  <2>2. QED
    BY <2>1 DEF Top
<1>4. QED
  BY <1>2, <1>3

(* Epochs stop at MAX_EPOCH, so there is a highest one. *)
LEMMA HighestEpoch ==
    ASSUME NEW S \in SUBSET Epoch, S # {}
    PROVE  \E e \in S : \A f \in S : f <= e
<1>1. Top(S, 0)
  BY DEF Top, Epoch, MAX_EPOCH
<1>2. \A k \in Nat : Top(S, k) => Top(S, k + 1)
  BY Higher
<1>3. Top(S, 8)
  BY <1>1, <1>2
<1>4. Top(S, 16)
  BY <1>2, <1>3
<1>5. Top(S, 24)
  BY <1>2, <1>4
<1>6. Top(S, 32)
  BY <1>2, <1>5
<1>7. \A e \in S : e < 32
  BY DEF Epoch, MAX_EPOCH
<1>8. QED
  BY <1>6, <1>7 DEF Top

(* key_for_send_current is the highest epoch of the peer, and one of its   *)
(* own, in any table whose slots name epochs.                              *)
LEMMA HighestIsCurrent ==
    ASSUME NEW table, NEW Ids, DOMAIN table \subseteq Ids \X Epoch, NEW p, peer_known(table, p)
    PROVE  /\ <<p, key_for_send_current(table, p)>> \in DOMAIN table
           /\ key_for_send_current(table, p) \in Epoch
           /\ \A o \in installed_epochs(table, p) : o <= key_for_send_current(table, p)
<1> DEFINE S == installed_epochs(table, p)
           e == key_for_send_current(table, p)
<1>1. S \in SUBSET Epoch /\ S # {}
  BY DEF installed_epochs, peer_known
<1>2. e \in S /\ \A f \in S : f <= e
  <2>1. \E x \in S : \A f \in S : f <= x
    BY <1>1, HighestEpoch
  <2>2. QED
    BY <2>1 DEF key_for_send_current
<1>3. PICK t \in DOMAIN table : t[1] = p /\ t[2] = e
  BY <1>2 DEF installed_epochs
<1>4. t = <<p, e>>
  BY <1>3
<1>5. QED
  BY <1>1, <1>2, <1>3, <1>4

(* The prefix of a sealed frame is read back (codec.rs). *)
LEMMA PrefixReads ==
    ASSUME NEW n \in U16, NEW p \in U16, NEW c \in U32, NEW mode \in Mode,
           NEW e \in Epoch, NEW prefix, prefix = prefix_of(n, p, c, mode, e)
    PROVE  /\ parse_verdict(prefix) = "Ok"
           /\ parsed_header(prefix) = [from_id |-> n, to_id |-> p, channel |-> c]
           /\ parsed_flags(prefix) = [mode |-> mode, epoch |-> e]
           /\ Len(prefix) = PREFIX_LEN
<1> DEFINE h == [from_id |-> n, to_id |-> p, channel |-> c]
           f == [mode |-> mode, epoch |-> e]
<1>1. h \in Header /\ f \in Flags
  BY DEF Header, Flags
<1>2. RoundTrip(h, f)
  BY <1>1, EveryPrefixRoundTrips
<1>3. prefix = serialize_prefix(h, f)
  BY DEF prefix_of
<1> HIDE DEF h, f
<1>4. /\ parse_verdict(prefix) = "Ok" /\ parsed_header(prefix) = h /\ parsed_flags(prefix) = f
      /\ Len(prefix) = PREFIX_LEN
  BY <1>2, <1>3, Zenon DEF RoundTrip
<1>5. QED
  BY <1>4 DEF h, f

(* It is nine bytes. *)
LEMMA PrefixTyped ==
    ASSUME NEW n \in U16, NEW p \in U16, NEW c \in U32, NEW mode \in Mode, NEW e \in Epoch
    PROVE  prefix_of(n, p, c, mode, e) \in [1..PREFIX_LEN -> Byte]
<1> DEFINE h == [from_id |-> n, to_id |-> p, channel |-> c]
           f == [mode |-> mode, epoch |-> e]
<1>1. h \in Header /\ f \in Flags
  BY DEF Header, Flags
<1>2. RoundTrip(h, f)
  BY <1>1, EveryPrefixRoundTrips
<1>3. serialize_prefix(h, f) = [i \in 1..9 |-> serialize_prefix(h, f)[i]]
  BY <1>1, PrefixBytes
<1>4. prefix_of(n, p, c, mode, e) = serialize_prefix(h, f)
  BY DEF prefix_of
<1> HIDE DEF h, f
<1>5. \A i \in 1..9 : serialize_prefix(h, f)[i] \in Byte
  BY <1>2 DEF RoundTrip, PREFIX_LEN
<1>6. QED
  BY <1>3, <1>4, <1>5 DEF PREFIX_LEN

-----------------------------------------------------------------------------
(* A frame as it was sealed: nothing cut, and every ciphertext bound to    *)
(* the prefix, and to the body, that it travels with.                      *)
Whole(f) ==
    LET h == parsed_header(f.prefix)
        mode == parsed_flags(f.prefix).mode
    IN  /\ parse_verdict(f.prefix) = "Ok"
        /\ \/ /\ mode = "Standard" /\ ~(f.len < OVERHEAD)
              /\ f.box.aad = frame_aad(f.prefix) /\ intact(f.box, f.len - OVERHEAD)
           \/ /\ mode = "Dek" /\ ~(f.len < DEK_OVERHEAD)
              /\ intact(f.body, f.len - DEK_OVERHEAD)
              /\ f.box.aad = envelope_aad(f.prefix, f.body)
              /\ opens(f.box.plain, body_aad(h.from_id, h.channel), f.body)

(* What open makes of such a frame at the node it names depends on that    *)
(* node's key in one slot and on nothing else.                             *)
LEMMA WholeVerdict ==
    ASSUME NEW f, Whole(f), NEW to, to = parsed_header(f.prefix).to_id, NEW table,
           NEW from, from = parsed_header(f.prefix).from_id,
           NEW slot, slot = <<from, parsed_flags(f.prefix).epoch>>
    PROVE  open_verdict(to, table, f) = IF ~contains_key(table, slot) THEN key_miss(table, from)
                                        ELSE IF table[slot] = f.box.key THEN "Ok"
                                        ELSE "AuthFailed"
<1> DEFINE h == parsed_header(f.prefix)
           mode == parsed_flags(f.prefix).mode
<1>1. parse_verdict(f.prefix) = "Ok" /\ mode \in {"Standard", "Dek"}
  BY DEF Whole
<1>2. CASE mode = "Standard"
  <2>1. /\ ~(f.len < OVERHEAD) /\ intact(f.box, f.len - OVERHEAD)
        /\ opens(table[slot], frame_aad(f.prefix), f.box) <=> table[slot] = f.box.key
    BY <1>2 DEF Whole, opens
  <2>2. open_verdict(to, table, f) = standard_verdict(to, table, f)
    BY <1>1, <1>2 DEF open_verdict
  <2>3. QED
    BY <2>1, <2>2 DEF standard_verdict
<1>3. CASE mode = "Dek"
  <2>1. /\ ~(f.len < DEK_OVERHEAD) /\ intact(f.body, f.len - DEK_OVERHEAD)
        /\ opens(table[slot], envelope_aad(f.prefix, f.body), f.box) <=> table[slot] = f.box.key
        /\ opens(f.box.plain, body_aad(h.from_id, h.channel), f.body)
    BY <1>3 DEF Whole, opens
  <2>2. open_verdict(to, table, f) = dek_verdict(to, table, f)
    BY <1>1, <1>3 DEF open_verdict
  <2>3. QED
    BY <2>1, <2>2 DEF dek_verdict
<1>4. QED
  BY <1>1, <1>2, <1>3

(* standard::seal makes a whole frame, under the key of its recipient. *)
LEMMA StandardIsWhole ==
    ASSUME NEW n \in U16, NEW p \in U16, NEW c \in U32, NEW e \in Epoch, NEW table,
           NEW payload, payload # Noise, payload.len \in Nat, NEW nonce,
           NEW f, f = standard_frame(n, table, p, c, e, payload, nonce)
    PROVE  /\ Whole(f) /\ f.box.key = table[<<p, e>>]
           /\ parsed_header(f.prefix) = [from_id |-> n, to_id |-> p, channel |-> c]
           /\ parsed_flags(f.prefix) = [mode |-> "Standard", epoch |-> e]
<1> DEFINE prefix == prefix_of(n, p, c, "Standard", e)
<1>1. /\ f.prefix = prefix /\ f.len = payload.len + OVERHEAD
      /\ f.box = aead_encrypt(table[<<p, e>>], nonce, frame_aad(prefix), payload)
  BY DEF standard_frame
<1>2. /\ parse_verdict(prefix) = "Ok"
      /\ parsed_header(prefix) = [from_id |-> n, to_id |-> p, channel |-> c]
      /\ parsed_flags(prefix) = [mode |-> "Standard", epoch |-> e]
  BY PrefixReads DEF Mode
<1> HIDE DEF prefix
<1>3. f.box.key = table[<<p, e>>] /\ f.box.aad = frame_aad(prefix) /\ f.box.plain = payload
  BY <1>1 DEF aead_encrypt
<1>4. ~(f.len < OVERHEAD) /\ f.len - OVERHEAD = payload.len
  BY <1>1 DEF OVERHEAD
<1>5. intact(f.box, f.len - OVERHEAD)
  BY <1>3, <1>4 DEF intact
<1>6. QED
  BY <1>1, <1>2, <1>3, <1>4, <1>5 DEF Whole

(* A peer that holds the sender's key under the sender's id opens it. *)
LEMMA StandardOpens ==
    ASSUME NEW n \in U16, NEW p \in U16, NEW c \in U32, NEW e \in Epoch, NEW table,
           NEW payload, payload # Noise, payload.len \in Nat, NEW nonce,
           NEW f, f = standard_frame(n, table, p, c, e, payload, nonce),
           NEW theirs, <<n, e>> \in DOMAIN theirs, theirs[<<n, e>>] = table[<<p, e>>]
    PROVE  /\ parsed_header(f.prefix).from_id = n /\ parsed_header(f.prefix).to_id = p
           /\ parsed_flags(f.prefix).epoch = e
           /\ open_verdict(p, theirs, f) = "Ok"
<1>1. /\ Whole(f) /\ f.box.key = table[<<p, e>>]
      /\ parsed_header(f.prefix) = [from_id |-> n, to_id |-> p, channel |-> c]
      /\ parsed_flags(f.prefix) = [mode |-> "Standard", epoch |-> e]
  BY StandardIsWhole
<1>2. /\ parsed_header(f.prefix).from_id = n /\ parsed_header(f.prefix).to_id = p
      /\ parsed_flags(f.prefix).epoch = e
  BY <1>1
<1>3. open_verdict(p, theirs, f) =
         IF ~contains_key(theirs, <<n, e>>) THEN key_miss(theirs, n)
         ELSE IF theirs[<<n, e>>] = f.box.key THEN "Ok"
         ELSE "AuthFailed"
  BY <1>1, <1>2, WholeVerdict
<1>4. QED
  BY <1>1, <1>2, <1>3 DEF contains_key

=============================================================================
