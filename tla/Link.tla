-------------------------------- MODULE Link --------------------------------
(***************************************************************************)
(* Several nodes, each a Rust host over the key store and the frames of    *)
(* this crate, joined by UDP.  PAXE is sans-io, so the network is the      *)
(* host's: it loses, repeats, reorders and delays datagrams, and may       *)
(* deliver one damaged, cut short, to the wrong node, or put together from *)
(* two others.  Operators install and retire keys at one node at a time.   *)
(* A node's keys are a table slot -> material, which is what KeyStore      *)
(* promises (PeerKeys).                                                    *)
(***************************************************************************)
EXTENDS Frames

CONSTANTS
    Node,           \* node ids
    Sealer,         \* the nodes that send
    Tables,         \* each node's keys at the start
    Provisioning,   \* installs an operator may make: <<node, slot, key>>
    Channel,        \* channels
    PayloadArg,     \* payloads
    RecipientList,  \* recipient lists passed to seal_fanout
    Damage,         \* kinds of damage the network does
    MaxDraws,       \* bound: seals, each with fresh random values
    MaxHits         \* bound: times the network damages a datagram

ASSUME LinkAssumption ==
    /\ Node \subseteq U16 /\ Sealer \subseteq Node
    /\ MaxDraws \in Nat /\ MaxHits \in Nat
    /\ DOMAIN Tables = Node
    /\ RecipientList \subseteq Seq(U16)

(* Tables name nodes, and start as an operator leaves them who gave every  *)
(* key of a sender to the other end too; a payload is no Noise.            *)
ASSUME ProvisioningAssumption ==
    /\ Tables = [n \in Node |-> Tables[n]]
    /\ \A n \in Node : DOMAIN Tables[n] \subseteq Node \X Epoch
    /\ \A n \in Sealer : \A s \in DOMAIN Tables[n] :
          /\ <<n, s[2]>> \in DOMAIN Tables[s[1]]
          /\ Tables[s[1]][<<n, s[2]>>] = Tables[n][s]
    /\ \A p \in Provisioning : p[1] \in Node /\ p[2] \in Node \X Epoch
    /\ Channel \subseteq U32
    /\ \A payload \in PayloadArg : payload # Noise /\ payload.len \in Nat

VARIABLES
    tables,     \* node -> its keys
    net,        \* datagrams in flight
    draws,      \* seals so far; numbers the random values
    hits,       \* datagrams damaged so far
    sent,       \* history: what was sealed, by whom, for whom
    delivered,  \* history: what open handed to each node
    careful,    \* history: every install and retire so far was made receiver first
    call        \* the last seal or seal_fanout: arguments, verdict, frames

linkVars == <<tables, net, draws, hits, sent, delivered, careful, call>>

NoCall == [from |-> 0, recipients |-> <<>>, verdict |-> "none", frames |-> <<>>]

LinkInit ==
    /\ tables = Tables
    /\ net = {} /\ draws = 0 /\ hits = 0 /\ sent = {} /\ delivered = {}
    /\ careful = TRUE /\ call = NoCall

(* KeyGuard::random: a data-encryption key is itself a 32-byte plaintext. *)
fresh_dek(draw) == [id |-> <<"dek", draw>>, len |-> 32]

(* One protected message: the claim a frame makes once opened. *)
message(from_id, to_id, channel, payload) ==
    [from_id |-> from_id, to_id |-> to_id, channel |-> channel, payload |-> payload]

-----------------------------------------------------------------------------
(* Operators.  One who rotates keys receiver first gives a sender only     *)
(* keys that the other end already holds, adds a key at a receiver in a    *)
(* free slot, and takes one away there only when the sender no longer      *)
(* holds it and no datagram under it is in flight.                         *)

holds(n, slot, m) == contains_key(tables[n], slot) /\ tables[n][slot] = m

in_flight(n, slot) ==
    \E f \in net : /\ parsed_header(f.prefix).to_id = n
                   /\ parsed_header(f.prefix).from_id = slot[1]
                   /\ parsed_flags(f.prefix).epoch = slot[2]

install(n, slot, m) ==
    LET p == slot[1]
        mirrored == <<n, slot[2]>>
    IN  /\ ~full(tables[n], slot)
        /\ tables' = [tables EXCEPT ![n] = insert(@, slot, m)]
        /\ careful' = /\ careful
                      /\ n \in Sealer => holds(p, mirrored, m)
                      /\ p \in Sealer => ~contains_key(tables[n], slot)
        /\ UNCHANGED <<net, draws, hits, sent, delivered, call>>

retire(n, slot) ==
    LET p == slot[1]
        mirrored == <<n, slot[2]>>
    IN  /\ tables' = [tables EXCEPT ![n] = remove(@, slot)]
        /\ careful' = /\ careful
                      /\ p \in Sealer => /\ ~contains_key(tables[p], mirrored)
                                         /\ ~in_flight(n, slot)
        /\ UNCHANGED <<net, draws, hits, sent, delivered, call>>

(* dek::seal under the current epoch, and dek::seal_fanout. *)
seal(n, to_id, channel, payload) ==
    LET keyed == peer_known(tables[n], to_id)
        epoch == key_for_send_current(tables[n], to_id)
        verdict == IF keyed THEN seal_verdict(tables[n], to_id, epoch, payload)
                   ELSE "NoKey"
        frame == standard_frame(n, tables[n], to_id, channel, epoch, payload,
                                <<draws, 0>>)
    IN  /\ draws < MaxDraws
        /\ \/ /\ verdict = "Ok"
              /\ net' = net \cup {frame}
              /\ sent' = sent \cup {message(n, to_id, channel, payload)}
              /\ draws' = draws + 1
              /\ call' = [from |-> n, recipients |-> <<to_id>>,
                          verdict |-> verdict, frames |-> <<frame>>]
           \/ /\ verdict # "Ok"
              /\ call' = [from |-> n, recipients |-> <<to_id>>,
                          verdict |-> verdict, frames |-> <<>>]
              /\ UNCHANGED <<net, sent, draws>>
        /\ UNCHANGED <<tables, hits, delivered, careful>>

seal_fanout(n, recipients, channel, payload) ==
    LET verdict == fanout_verdict(tables[n], recipients, payload)
        frames == fanout_frames(n, tables[n], recipients, channel, payload,
                                fresh_dek(draws), <<draws, 0>>,
                                [i \in DOMAIN recipients |-> <<draws, i>>])
    IN  /\ draws < MaxDraws
        /\ \/ /\ verdict = "Ok"
              /\ net' = net \cup {frames[i] : i \in DOMAIN frames}
              /\ sent' = sent \cup {message(n, recipients[i], channel, payload) :
                                       i \in DOMAIN recipients}
              /\ draws' = draws + 1
              /\ call' = [from |-> n, recipients |-> recipients,
                          verdict |-> verdict, frames |-> frames]
           \/ /\ verdict # "Ok"
              /\ call' = [from |-> n, recipients |-> recipients,
                          verdict |-> verdict, frames |-> <<>>]
              /\ UNCHANGED <<net, sent, draws>>
        /\ UNCHANGED <<tables, hits, delivered, careful>>

(* A node takes one datagram from its socket: dek::open.  The datagram     *)
(* stays in the network, and may come again, until it is lost.             *)
receive(n, frame) ==
    /\ IF open_verdict(n, tables[n], frame) = "Ok"
       THEN LET o == opened(frame)
            IN  delivered' = delivered \cup
                    {[message |-> message(o.from_id, n, o.channel, o.payload),
                      at |-> n]}
       ELSE UNCHANGED delivered
    /\ UNCHANGED <<tables, net, draws, hits, sent, careful, call>>

-----------------------------------------------------------------------------
(* The network. *)

lose(frame) ==
    /\ net' = net \ {frame}
    /\ UNCHANGED <<tables, draws, hits, sent, delivered, careful, call>>

(* What damage of each kind makes of a datagram: another destination, the  *)
(* low channel byte, the mode bit, the epoch, one byte less, or the        *)
(* envelope of one datagram on the body of another.  A datagram cut into   *)
(* its prefix, which no parser accepts, is left out.                       *)
damaged(frame) ==
    UNION {
        IF "to_id" \in Damage
        THEN {[frame EXCEPT !.prefix[4] = n % 256] : n \in Node} ELSE {},
        IF "channel" \in Damage
        THEN {[frame EXCEPT !.prefix[8] = (@ + 1) % 256]} ELSE {},
        IF "mode" \in Damage
        THEN {[frame EXCEPT !.prefix[9] = IF @ % 2 = 0 THEN @ + 1 ELSE @ - 1]} ELSE {},
        IF "epoch" \in Damage
        THEN {[frame EXCEPT !.prefix[9] = (@ + 8) % 256]} ELSE {},
        IF "length" \in Damage /\ frame.len > PREFIX_LEN
        THEN {[frame EXCEPT !.len = @ - 1]} ELSE {},
        IF "body" \in Damage
        THEN {[frame EXCEPT !.body = g.body, !.len = g.len] :
                 g \in {h \in net : h.body # NoBox}} ELSE {} }

damage(frame) ==
    /\ hits < MaxHits
    /\ hits' = hits + 1
    /\ net' \in {(net \ {frame}) \cup {g} : g \in damaged(frame)}
    /\ UNCHANGED <<tables, draws, sent, delivered, careful, call>>

-----------------------------------------------------------------------------
Sealing ==
    \E n \in Sealer, c \in Channel, payload \in PayloadArg :
        \/ \E to \in Node \ {n} : seal(n, to, c, payload)
        \/ \E recipients \in RecipientList : seal_fanout(n, recipients, c, payload)

LinkNext ==
    \/ Sealing
    \/ \E p \in Provisioning : install(p[1], p[2], p[3])
    \/ \E p \in Provisioning : retire(p[1], p[2])
    \/ \E frame \in net :
          \/ lose(frame)
          \/ damage(frame)
          \/ \E n \in Node : receive(n, frame)

LinkSpec == LinkInit /\ [][LinkNext]_linkVars

-----------------------------------------------------------------------------
(* Type invariant of the link. *)
LinkTypeOK ==
    /\ \A n \in Node : DOMAIN tables[n] \subseteq Slot
    /\ draws \in 0..MaxDraws
    /\ \A f \in net : Len(f.prefix) = PREFIX_LEN /\ f.len \in Nat

(* Whatever the network did, what open hands to a node is a message that   *)
(* the node named as its sender sealed for this node, on this channel,     *)
(* with this payload.  This needs every field of the prefix, the mode and  *)
(* the epoch included, to be authenticated, and the envelope of a fanout   *)
(* frame to be bound to its body; under one cluster-wide key as well.      *)
DeliveredWasSent == \A d \in delivered : d.message \in sent

(* seal_fanout is all or nothing: a refused call leaves no frame for any   *)
(* recipient, and a successful one has exactly one for each, in the        *)
(* caller's order, and nothing else goes out.                             *)
FanoutAllOrNothing ==
    [][call' # call =>
          LET recipient(f) == parsed_header(f.prefix).to_id
              frames == call'.frames
          IN  /\ call'.verdict # "Ok" => frames = <<>> /\ net' = net
              /\ call'.verdict = "Ok" =>
                    /\ \A i, j \in DOMAIN frames :
                          recipient(frames[i]) = recipient(frames[j]) => i = j
                    /\ [i \in DOMAIN frames |-> recipient(frames[i])] = call'.recipients
                    /\ net' = net \cup {frames[i] : i \in DOMAIN frames}]_linkVars

(* The counters tell the operator the truth about an undamaged datagram:   *)
(* NoPeer if the recipient holds no key for the sender, NoEpoch if it      *)
(* holds others but not this one, AuthFailed only if it holds a different  *)
(* key in that slot, and otherwise the datagram opens.                     *)
FaithfulDiagnosis ==
    \A i \in DOMAIN call.frames :
        LET f == call.frames[i]
            to == parsed_header(f.prefix).to_id
            slot == <<call.from, parsed_flags(f.prefix).epoch>>
            verdict == open_verdict(to, tables[to], f)
        IN  /\ verdict = "NoPeer" <=> \A e \in Epoch : <<call.from, e>> \notin DOMAIN tables[to]
            /\ verdict = "Ok" <=> holds(to, slot, f.box.key)
            /\ verdict \in {"Ok", "NoPeer", "NoEpoch", "AuthFailed"}

(* Rotating receiver first loses no traffic: as long as every operator has *)
(* followed the rule, and nothing was damaged, every datagram in flight    *)
(* opens when it arrives, however late, across the wrap from epoch 31 to 0 *)
(* and under fanouts to nodes that are at different stages.                *)
HitlessRotation ==
    careful /\ hits = 0 =>
        \A f \in net :
            LET to == parsed_header(f.prefix).to_id
            IN  open_verdict(to, tables[to], f) = "Ok"

=============================================================================
