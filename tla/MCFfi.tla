------------------------------- MODULE MCFfi -------------------------------
(* A node with id 7 talking to node 8; 9 is a node it holds no key for. *)
EXTENDS Ffi

CONSTANTS a1, a2, a3, k1, k2

Chan == <<0, 6767>>
Small == [id |-> "small", len |-> 5]

(* Node 8 shares k1 with node 7 under epoch 0. *)
Peer8 == [s \in {<<7, 0>>, <<9, 0>>} |-> k1]
Standard8 == standard_frame(8, Peer8, 7, Chan, 0, Small, "n1")
Dek == [id |-> "dek", len |-> 32]
Fanout8 == fanout_frames(8, Peer8, <<7, 9>>, Chan, Small, Dek, "n2", <<"e1", "e2">>)

reflag(frame, byte) == [frame EXCEPT !.prefix[9] = byte]

(* Datagrams of both modes, whole and damaged; to node 8 its own are       *)
(* misaddressed.                                                           *)
Good == Standard8
GoodDek == Fanout8[1]
ShortDek == [Fanout8[2] EXCEPT !.len = 60]
Stub == [Standard8 EXCEPT !.len = 5, !.prefix = SubSeq(@, 1, 5)]
ShortStandard == [Standard8 EXCEPT !.len = 36]
BadFlags == reflag(Standard8, 6)
Extended == [Standard8 EXCEPT !.len = @ + 1]

-----------------------------------------------------------------------------
(* Inputs of the runs. *)

TwoNodes == {7, 8}
TwoNodesAndTooBig == {7, 8, 65536}
TwoEpochsAndTooBig == {0, 31, 32}
AnyInit == BOOLEAN \X BOOLEAN \X BOOLEAN
Reserved == <<0, 99>>
Channels == {Reserved, Chan}
Oversize == [id |-> "oversize", len |-> MAX_PAYLOAD + 1]
Payloads == {Small, Oversize}
Policies == {"silent", "log_once", "verbose", "loud"}

SmallOnly == {Small}

(* Both an admitted datagram and every kind of refusal that the table of   *)
(* keys does not decide; those are met in MCLink.                          *)
ReceiveDatagrams == {Good, GoodDek, Stub, ShortDek, Extended}
LogDatagrams == {BadFlags, ShortStandard}

=============================================================================
