---------------------------- MODULE MCSixSeven ----------------------------
(* Nodes 100 and 200; even keys, 2 and 4, live on node 200. *)
EXTENDS SixSevenService

CONSTANTS secret, c1, c2

Nodes == {100, 200}
SameKey == [n \in Nodes |-> secret]
Homes == [d \in Conn |-> IF d = c2 THEN 200 ELSE 100]

Commands == {[name |-> "DISCONNECT", receipt |-> TRUE]}
Put2 == <<"PUT", SP, "2", SP, "x", SP>>
Get2 == <<"GET", SP, "2">>
Put4 == <<"set", SP, SP, "4", SP>>
Rm2 == <<"RM", SP, "2">>
Size == <<SP, "size">>
Requests == [d \in Conn |-> IF Homes[d] = 200 THEN {Put4, Rm2} ELSE {Put2, Get2, Size}]

(* A request on another channel of the same link. *)
Foreign == {[from |-> 100, channel |-> <<0, 100>>, about |-> 0,
             text |-> encode(Request(1, Put(2, <<"y">>)))]}

=============================================================================
