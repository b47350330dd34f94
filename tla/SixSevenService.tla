-------------------------- MODULE SixSevenService --------------------------
(***************************************************************************)
(* A pair of six-seven-servers as one key-value service (KvService): its   *)
(* table is the two stores together, its histories those of the pair.      *)
(***************************************************************************)
EXTENDS SixSeven

(* Every key is looked up where it is stored. *)
table == [k \in UNION {DOMAIN kv[n] : n \in Pair} |->
            kv[CHOOSE n \in Pair : k \in DOMAIN kv[n]][k]]

Service == INSTANCE KvService WITH
    Asked <- [conn : Conn, node : Pair, life : 0..MaxRestarts,
              op : Ops]

(* The pair behaves as one table: a client is told what an execution of    *)
(* its own request gave, at some time after it asked, on the one copy of   *)
(* the key, or that it failed; only a node that was restarted can hand out *)
(* the answer to an earlier request of its own.                            *)
ImplementsKvService == Service!ServiceSpec

=============================================================================
