------------------------------- MODULE Codec -------------------------------
(***************************************************************************)
(* The header and flags codec of src/codec.rs: the nine-byte prefix that   *)
(* leads every PAXE datagram, and the rules by which it is parsed.  Bytes  *)
(* are numbers in 0..255 and a prefix is a sequence of nine of them.       *)
(***************************************************************************)
EXTENDS Integers, Sequences

Byte == 0..255
U16 == 0..(256 * 256 - 1)
U32 == U16 \X U16          \* high and low half: TLC's integers stop at 2^31 - 1

PREFIX_LEN == 9
MAX_EPOCH == 31
Epoch == 0..MAX_EPOCH
Mode == {"Standard", "Dek"}

Header == [from_id : U16, to_id : U16, channel : U32]
Flags == [mode : Mode, epoch : Epoch]

-----------------------------------------------------------------------------
(* Big-endian integers, as u16::to_be_bytes and its siblings lay them out. *)

u16_to_be(n) == <<n \div 256, n % 256>>
u16_from_be(hi, lo) == hi * 256 + lo
u32_to_be(n) == <<n[1] \div 256, n[1] % 256, n[2] \div 256, n[2] % 256>>
u32_from_be(b0, b1, b2, b3) == <<u16_from_be(b0, b1), u16_from_be(b2, b3)>>

(* Header::to_bytes and Header::from_bytes. *)
header_to_bytes(h) ==
    LET f == u16_to_be(h.from_id)
        t == u16_to_be(h.to_id)
        c == u32_to_be(h.channel)
    IN  <<f[1], f[2], t[1], t[2], c[1], c[2], c[3], c[4]>>

header_from_bytes_swapped(b) ==
    [from_id |-> u16_from_be(b[1], b[2]),
     to_id   |-> u16_from_be(b[4], b[3]),
     channel |-> u32_from_be(b[5], b[6], b[7], b[8])]

header_from_bytes(b) ==
    [from_id |-> u16_from_be(b[1], b[2]),
     to_id   |-> u16_from_be(b[3], b[4]),
     channel |-> u32_from_be(b[5], b[6], b[7], b[8])]

(* Flags::to_byte: mode bit 0, the fixed pattern 0x04, the epoch in bits 3-7. *)
flags_to_byte(f) ==
    (IF f.mode = "Dek" THEN 1 ELSE 0) + 4 + 8 * f.epoch

(* Flags::from_byte: the gate (byte & 0x06) = 0x04, then bit 0 and byte >> 3. *)
fixed_bits_ok_bit2_only(byte) == (byte \div 4) % 2 = 1

fixed_bits_ok(byte) == (byte \div 2) % 4 = 2

flags_from_byte(byte) ==
    [mode  |-> IF byte % 2 = 0 THEN "Standard" ELSE "Dek",
     epoch |-> byte \div 8]

-----------------------------------------------------------------------------
(* serialize_prefix, and parse_prefix with its two gates in order.  The    *)
(* verdict is "Ok" or the CodecError; the fields exist only under "Ok".    *)

serialize_prefix_headless(h, f) == header_to_bytes(h)

serialize_prefix(h, f) ==
    LET b == header_to_bytes(h)
    IN  <<b[1], b[2], b[3], b[4], b[5], b[6], b[7], b[8], flags_to_byte(f)>>

parse_verdict(bytes) ==
    IF Len(bytes) < PREFIX_LEN THEN "TooShort"
    ELSE IF ~fixed_bits_ok(bytes[9]) THEN "InvalidFlags"
    ELSE "Ok"

parsed_header(bytes) == header_from_bytes(bytes)
parsed_flags(bytes) == flags_from_byte(bytes[9])

-----------------------------------------------------------------------------
(* The parser accepts one spelling only: what it accepts is byte for byte  *)
(* what serialize_prefix makes of the fields it read, so two nodes that    *)
(* agree on the fields agree on the associated data.                       *)
Canonical(bytes) ==
    parse_verdict(bytes) = "Ok" =>
        \A i \in 1..9 :
            serialize_prefix(parsed_header(bytes), parsed_flags(bytes))[i] = bytes[i]

(* Every header and flags value survives the wire. *)
RoundTrip(h, f) ==
    LET bytes == serialize_prefix(h, f)
    IN  /\ Len(bytes) = PREFIX_LEN
        /\ \A i \in 1..9 : bytes[i] \in Byte
        /\ parse_verdict(bytes) = "Ok"
        /\ parsed_header(bytes) = h
        /\ parsed_flags(bytes) = f

=============================================================================
