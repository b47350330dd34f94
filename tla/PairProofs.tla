----------------------------- MODULE PairProofs -----------------------------
(***************************************************************************)
(* What a pair of six-seven-servers promises its clients, for any bodies,  *)
(* any numbers of connections, requests and restarts, and a network that   *)
(* loses, repeats, delays and reorders: every key has one home, and the    *)
(* two nodes are one key-value service.  SixSevenProofs and ServiceProofs  *)
(* prove it of a link that hands over what was sent; PeerProofs proves     *)
(* that the link does.                                                     *)
(***************************************************************************)
EXTENDS ServiceProofs, PeerProofs

(* The link between the two: what open and decode make of a datagram is    *)
(* what the peer gave to encode and seal.                                  *)
LEMMA LinkHolds == LinkIsFaithful
  BY PeerIsOther, FaithfulLink, ZenonT(60)

(* Every key has one home: a node stores only keys that the placement rule *)
(* gives it, each with a value some client asked to store under that key,  *)
(* and never more than MAX_KEYS, through forwarding, late and repeated     *)
(* datagrams, datagrams of other programs on the link, and restarts.       *)
THEOREM KeysHaveOneHome == SixSpec => []OneHome
  BY LinkHolds, HomesHold, PTL

(* The pair is one service.  Whatever the network does with the datagrams  *)
(* of the two, and whichever node is restarted, clients see one table: an  *)
(* operation acts on the one copy of its key, a request is answered at     *)
(* most once, and what its client is told is a refusal, or what an         *)
(* execution of that request gave, or, from a node that was restarted, of  *)
(* an earlier request of the same node.                                    *)
THEOREM PairIsOneService == SixSpec => ImplementsKvService
  BY LinkHolds, ServiceSteps, PTL

=============================================================================
