------------------------------- MODULE MCCodec -------------------------------
(* The codec on its own: a prefix is written, and then bytes of it change  *)
(* or the datagram is cut or extended before it is parsed.                 *)
EXTENDS Codec

CONSTANT MaxHits        \* bound: bytes changed

VARIABLES
    made,       \* the header and flags that were serialized
    wire,       \* the bytes of the datagram
    hits

codecVars == <<made, wire, hits>>

Ids == {0, 258, 65535}
Channels == {<<0, 6767>>, <<65535, 1>>}
Prefixes == [header : [from_id : {7, 65535}, to_id : Ids, channel : Channels],
             flags : [mode : Mode, epoch : {0, 1, 16, 31}]]

CodecInit ==
    /\ made \in Prefixes
    /\ wire = serialize_prefix(made.header, made.flags)
    /\ hits = 0

change(i, byte) ==
    /\ hits < MaxHits /\ i \in DOMAIN wire
    /\ wire' = [wire EXCEPT ![i] = byte]
    /\ hits' = hits + 1
    /\ UNCHANGED made

resize(n) ==
    /\ hits < MaxHits
    /\ wire' = [i \in 1..n |-> IF i \in DOMAIN wire THEN wire[i] ELSE 0]
    /\ hits' = hits + 1
    /\ UNCHANGED made

CodecNext ==
    \/ \E i \in 1..9, byte \in Byte : change(i, byte)
    \/ \E n \in {0, 8, 10} : resize(n)

CodecSpec == CodecInit /\ [][CodecNext]_codecVars

(* Whatever reaches the parser, it accepts only the canonical spelling     *)
(* (Flags::from_byte and parse_prefix).                                    *)
CanonicalParse == Canonical(wire)

(* What was written is what is read back (serialize_prefix, parse_prefix). *)
PrefixRoundTrip == RoundTrip(made.header, made.flags)

=============================================================================
