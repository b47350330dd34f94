------------------------------- MODULE MCLink -------------------------------
(* Three nodes, 7, 8 and 9, and keys k1, k2. *)
EXTENDS Link

CONSTANTS k1, k2

Nodes == {7, 8, 9}
Chan == <<0, 6767>>
Small == [id |-> <<"payload", 1>>, len |-> 60]
Other == [id |-> <<"payload", 2>>, len |-> 60]
Huge == [id |-> <<"payload", 3>>, len |-> MAX_PAYLOAD + 1]

(* One cluster-wide key under epochs 0 and 1. *)
Cluster == [n \in Nodes |-> [s \in (Nodes \ {n}) \X {0, 1} |-> k1]]

(* 7 and 8 share k1 under epoch 31; 9 shares nothing yet. *)
PairOnly == [n \in Nodes |->
    CASE n = 7 -> [s \in {<<8, 31>>} |-> k1]
      [] n = 8 -> [s \in {<<7, 31>>} |-> k1]
      [] n = 9 -> EmptyTable]

Channels == {Chan}
TwoPayloads == {Small, Other}
SmallAndHuge == {Small, Huge}
AnyDamage == {"to_id", "channel", "mode", "epoch", "length", "body"}
Lists == {<<8, 9>>}
ManyLists == {<<>>, <<8, 9>>, <<8, 8>>, <<9, 8, 9>>}

(* Installs: epoch 0 after epoch 31, epoch 31 again with the old key or    *)
(* another, and node 9.                                                    *)
Operators == {<<7, <<8, 31>>, k1>>, <<8, <<7, 31>>, k1>>, <<8, <<7, 31>>, k2>>,
              <<7, <<8, 0>>, k2>>, <<8, <<7, 0>>, k2>>,
              <<7, <<9, 0>>, k1>>, <<9, <<7, 0>>, k1>>, <<9, <<7, 1>>, k1>>}

=============================================================================
