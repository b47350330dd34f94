------------------------------ MODULE SixSeven ------------------------------
(***************************************************************************)
(* A pair of six-seven-servers (main.rs): the core thread of each, its     *)
(* clients, and the PAXE datagrams between the two.  A core thread handles *)
(* one event at a time, so a handler is one step; its event queue only     *)
(* delays what clients and network send it, which they do anyway.  A       *)
(* datagram stays in the network and is delivered any number of times, in  *)
(* any order; one that is lost, or that arrives after the UDP reader       *)
(* thread has ended, is one that is never delivered.                       *)
(***************************************************************************)
EXTENDS Frames, Peer

CONSTANTS
    Pair,           \* the two node ids, config.id and config.peer_id of each
    LinkKey,        \* node -> the key it was started with
    Conn,           \* client connections, numbered by each process from the start
    Home,           \* connection -> the node it is made to
    Command,        \* commands other than SEND: [name, receipt]
    Body,           \* connection -> bodies of its SEND frames
    Stray,          \* datagrams of other programs that hold the link key, on other channels
    MaxRequests,    \* bound: requests that name a key
    MaxRestarts     \* bound: restarts of the two nodes together

ASSUME PairAssumption ==
    /\ Pair \subseteq U16 /\ Cardinality(Pair) = 2
    /\ Home \in [Conn -> Pair]
    /\ MaxRequests \in Nat /\ MaxRestarts \in Nat

VARIABLES
    kv,         \* node -> Store.entries
    clients,    \* node -> the connections it can write to
    pending,    \* node -> its forwarded requests: corr -> [conn, receipt]
    next_corr,  \* node -> the last correlation id it minted
    stuck,      \* node -> the connection its core thread waits to write to
    life,       \* node -> how often it was restarted
    link,       \* connection -> "none", "up", "gone" (ClientDown queued), "down"
    net,        \* the datagrams sent
    requests,   \* history: the requests, in order: [conn, node, life, op]
    outcomes,   \* history: for each request, the replies its executions gave
    answers     \* history: for each request, what its client was sent

nodeVars == <<kv, clients, pending, next_corr, stuck, life>>
histVars == <<requests, outcomes, answers>>
sixVars == <<kv, clients, pending, next_corr, stuck, life, link, net,
             requests, outcomes, answers>>

PEER_CHANNEL == <<0, 6767>>
EPOCH == 0
NoConn == "no connection"

peer(n) == CHOOSE m \in Pair : m # n

(* run(): the key store of a node holds one key, for its peer. *)
store(n) == [s \in {<<peer(n), EPOCH>>} |-> LinkKey[n]]

SixInit ==
    /\ kv = [n \in Pair |-> [k \in {} |-> 0]]
    /\ clients = [n \in Pair |-> {}]
    /\ pending = [n \in Pair |-> [c \in {} |-> 0]]
    /\ next_corr = [n \in Pair |-> 0]
    /\ stuck = [n \in Pair |-> NoConn]
    /\ life = [n \in Pair |-> 0]
    /\ link = [c \in Conn |-> "none"]
    /\ net = Stray
    /\ requests = <<>> /\ outcomes = <<>> /\ answers = <<>>

idle(n) == stuck[n] = NoConn

-----------------------------------------------------------------------------
(* Writing to clients: reply_to_client and write_frame, for a set of       *)
(* [conn, receipt, reply].  A connection that is not in clients is         *)
(* skipped; a write to a client that has gone may fail, which takes it out *)
(* of clients; one to a client that does not read holds the core thread    *)
(* up.  Those in leaving are taken out in any case.  receipt is the number *)
(* of the request, or 0 for a frame that is no request.                    *)

answer_each(batch, to, sent) ==
    [r \in DOMAIN sent |->
        LET mine == {b \in batch : b.receipt = r /\ b.conn \in to}
        IN  IF mine = {} THEN sent[r]
            ELSE Append(sent[r], (CHOOSE b \in mine : TRUE).reply)]

write_frames(n, batch, leaving, sent) ==
    LET addressed == {b.conn : b \in batch} \cap clients[n]
    IN  \E failed \in SUBSET {c \in addressed : link[c] = "gone"} :
        \E slow \in {NoConn} \cup {c \in addressed : link[c] = "up"} :
           /\ clients' = [clients EXCEPT ![n] = @ \ (failed \cup leaving)]
           /\ answers' = answer_each(batch, addressed \ failed, sent)
           /\ stuck' = [stuck EXCEPT ![n] = slow]

(* A blocked write ends when the client reads, or fails once it has gone. *)
unblock(n) ==
    /\ ~idle(n)
    /\ stuck' = [stuck EXCEPT ![n] = NoConn]
    /\ clients' = [clients EXCEPT ![n] =
                      IF link[stuck[n]] = "up" THEN @ ELSE @ \ {stuck[n]}]
    /\ UNCHANGED <<kv, pending, next_corr, life, link, net, requests, outcomes, answers>>

-----------------------------------------------------------------------------
(* The link.  A datagram is [from, channel, text, about], and what travels *)
(* is frame(d), sealed by from for its peer.  about is history: the        *)
(* request the text belongs to, which no code reads; it also numbers the   *)
(* random nonce.                                                           *)

payload(d) == [id |-> d.text, len |-> Len(d.text)]

frame(d) ==
    standard_frame(d.from, store(d.from), peer(d.from), d.channel, EPOCH, payload(d), d.about)

(* send_to_peer: what it sends, and whether seal lets it. *)
datagram(n, message, about) ==
    [from |-> n, channel |-> PEER_CHANNEL, text |-> encode(message), about |-> about]

seals(d) == seal_verdict(store(d.from), peer(d.from), EPOCH, payload(d)) = "Ok"

(* handle_datagram up to the match: what open, the gate on peer and        *)
(* channel, and decode make of a datagram.                                 *)
takes(n, d) ==
    LET f == frame(d)
    IN  IF /\ open_verdict(n, store(n), f) = "Ok"
           /\ opened(f).from_id = peer(n) /\ opened(f).channel = PEER_CHANNEL
        THEN decode(opened(f).payload.id)
        ELSE undecodable

(* The bodies as Op::parse reads them, the datagrams that can be in flight *)
(* and what a node takes from each.  The keys of a node never change, so   *)
(* these are constants.                                                    *)
Bodies == UNION {Body[c] : c \in Conn}

Letter == UNION {Range(body) : body \in Bodies}

ASSUME TextAssumption ==
    /\ Bodies \subseteq Seq(Letter)
    /\ \A d \in Stray : d.from \in Pair /\ d.channel \in U32 /\ d.channel # PEER_CHANNEL

parsed == [body \in Bodies |-> parse(body)]

Ops == {parsed[body].op : body \in {body \in Bodies : parsed[body].ok}}

NotOwner == Err(<<"not the owner">>)

(* What the nodes tell each other: requests with an operation, and their   *)
(* replies.                                                                *)
KvReplies == {Ok, Nil, Err(<<"ceiling">>), NotOwner} \cup {Value(op.value) : op \in Ops}

Messages ==
    UNION {{Request(i, op) : op \in Ops} \cup {Response(i, reply) : reply \in KvReplies}
             : i \in 1..MaxRequests}

Datagrams == Stray \cup {datagram(n, m, r) : n \in Pair, m \in Messages, r \in 1..MaxRequests}

taken == [n \in Pair |-> [d \in Datagrams |-> takes(n, d)]]

-----------------------------------------------------------------------------
(* Clients.  A reader thread queues the frames of its connection between   *)
(* ClientUp and ClientDown, so frames of a client that has gone may still  *)
(* be handled.                                                             *)

client_up(c) ==
    /\ link[c] = "none" /\ idle(Home[c])
    /\ link' = [link EXCEPT ![c] = "up"]
    /\ clients' = [clients EXCEPT ![Home[c]] = @ \cup {c}]
    /\ UNCHANGED <<kv, pending, next_corr, stuck, life, net, requests, outcomes, answers>>

(* The stream ends or fails: read_frame returns None or an error. *)
hang_up(c) ==
    /\ link[c] = "up"
    /\ link' = [link EXCEPT ![c] = "gone"]
    /\ UNCHANGED <<nodeVars, net, histVars>>

retained_all(entries, c) == entries

(* pending.retain: the entries of other connections. *)
retained(entries, c) == [k \in {k \in DOMAIN entries : entries[k].conn # c} |-> entries[k]]

client_down(c) ==
    LET n == Home[c]
    IN  /\ link[c] = "gone" /\ idle(n)
        /\ link' = [link EXCEPT ![c] = "down"]
        /\ clients' = [clients EXCEPT ![n] = @ \ {c}]
        /\ pending' = [pending EXCEPT ![n] = retained(@, c)]
        /\ UNCHANGED <<kv, next_corr, stuck, life, net, requests, outcomes, answers>>

(* handle_client_frame for every command but SEND.  DISCONNECT forgets the *)
(* writer; the reader thread and the pending entries stay.                 *)
other_frame(c, command) ==
    LET n == Home[c]
        name == command.name
        replies == command.receipt \/ name \notin {"SUBSCRIBE", "UNSUBSCRIBE", "DISCONNECT"}
    IN  /\ link[c] \in {"up", "gone"} /\ idle(n)
        /\ write_frames(n, IF replies THEN {[conn |-> c, receipt |-> 0, reply |-> Nil]} ELSE {},
                        IF name = "DISCONNECT" THEN {c} ELSE {}, answers)
        /\ UNCHANGED <<kv, pending, next_corr, life, link, net, requests, outcomes>>

(* SEND of a body that names no key: SIZE, answered with the count, and    *)
(* whatever does not parse, answered with an error.                        *)
is_size(body) == trim(body) \in {<<"SIZE">>, <<"size">>}

send_unkeyed(c, body) ==
    LET n == Home[c]
    IN  /\ link[c] \in {"up", "gone"} /\ idle(n)
        /\ is_size(body) \/ ~parsed[body].ok
        /\ write_frames(n, {[conn |-> c, receipt |-> 0, reply |-> Nil]}, {}, answers)
        /\ UNCHANGED <<kv, pending, next_corr, life, link, net, requests, outcomes>>

(* SEND of an operation: number the request, and find the owner. *)
asks(c, body) ==
    LET n == Home[c]
    IN  /\ link[c] \in {"up", "gone"} /\ idle(n)
        /\ Len(requests) < MaxRequests
        /\ ~is_size(body) /\ parsed[body].ok
        /\ requests' = Append(requests, [conn |-> c, node |-> n, life |-> life[n],
                                         op |-> parsed[body].op])

owns(n, op) == owner(op.key, n, peer(n)) = n

send_local(c, body) ==
    LET n == Home[c]
        op == parsed[body].op
        reply == reply_of(kv[n], op)
    IN  /\ asks(c, body) /\ owns(n, op)
        /\ kv' = [kv EXCEPT ![n] = executed(@, op)]
        /\ outcomes' = Append(outcomes, {reply})
        /\ write_frames(n, {[conn |-> c, receipt |-> Len(requests'), reply |-> reply]}, {},
                        Append(answers, <<>>))
        /\ UNCHANGED <<pending, next_corr, life, link, net>>

mint_by_count(n) == Cardinality(DOMAIN pending[n]) + 1

mint_before_increment(n) == next_corr[n]

mint(n) == next_corr[n] + 1

(* The rest is forwarded: the id is spent first, and the request becomes   *)
(* pending only once its datagram has gone out.                            *)
send_forward(c, body) ==
    LET n == Home[c]
        op == parsed[body].op
        corr == mint(n)
        r == Len(requests')
        d == datagram(n, Request(corr, op), r)
    IN  /\ asks(c, body) /\ ~owns(n, op)
        /\ next_corr' = [next_corr EXCEPT ![n] = corr]
        /\ outcomes' = Append(outcomes, {})
        /\ \/ /\ seals(d)
              /\ net' = net \cup {d}
              /\ pending' = [pending EXCEPT ![n] =
                                insert(@, corr, [conn |-> c, receipt |-> r])]
              /\ answers' = Append(answers, <<>>)
              /\ UNCHANGED <<clients, stuck>>
           \/ /\ write_frames(n, {[conn |-> c, receipt |-> r, reply |-> Err(<<"sending">>)]},
                              {}, Append(answers, <<>>))     \* seal or send_to failed
              /\ UNCHANGED <<net, pending>>
        /\ UNCHANGED <<kv, life, link>>

-----------------------------------------------------------------------------
(* The match of handle_datagram.  A forwarded operation is executed each   *)
(* time it arrives, and only by the owner of its key.                      *)

handle_request(n, d, t) ==
    LET m == t.message
        reply == IF owns(n, m.op) THEN reply_of(kv[n], m.op) ELSE NotOwner
        response == datagram(n, Response(m.corr, reply), d.about)
    IN  /\ idle(n) /\ t.ok /\ m.kind = "Request"
        /\ kv' = [kv EXCEPT ![n] = IF owns(n, m.op) THEN executed(@, m.op) ELSE @]
        /\ outcomes' = [outcomes EXCEPT ![d.about] = @ \cup {reply}]
        /\ net' = IF seals(response) THEN net \cup {response} ELSE net
        /\ UNCHANGED <<clients, pending, next_corr, stuck, life, link, requests, answers>>

settled_never(entries, corrs) == entries

(* pending.remove. *)
settled(entries, corrs) == [c \in DOMAIN entries \ corrs |-> entries[c]]

handle_response(n, t) ==
    LET m == t.message
        p == pending[n][m.corr]
    IN  /\ idle(n) /\ t.ok /\ m.kind = "Response"
        /\ m.corr \in DOMAIN pending[n]
        /\ pending' = [pending EXCEPT ![n] = settled(@, {m.corr})]
        /\ write_frames(n, {[conn |-> p.conn, receipt |-> p.receipt, reply |-> m.reply]}, {},
                        answers)
        /\ UNCHANGED <<kv, next_corr, life, link, net, requests, outcomes>>

(* A datagram that changes nothing: refused, undecodable, or an answer to  *)
(* a request that is no longer pending.                                    *)
ignore_datagram(n, t) ==
    LET m == t.message
    IN  /\ idle(n)
        /\ ~t.ok \/ (m.kind = "Response" /\ m.corr \notin DOMAIN pending[n])
        /\ UNCHANGED sixVars

-----------------------------------------------------------------------------
(* Event::Tick, once a deadline has passed: every entry that is due is     *)
(* removed and its client told.  Each deadline is FORWARD_TIMEOUT after    *)
(* the minting of the id, so the due entries are those up to some id.      *)

expired_later(n, last) == {c \in DOMAIN pending[n] : c > last}

expired(n, last) == {c \in DOMAIN pending[n] : c <= last}

tick(n) ==
    LET late(c) == [conn |-> pending[n][c].conn, receipt |-> pending[n][c].receipt,
                    reply |-> Err(<<"peer did not answer">>)]
    IN  \E last \in DOMAIN pending[n] :
          /\ idle(n)
          /\ pending' = [pending EXCEPT ![n] = settled(@, expired(n, last))]
          /\ write_frames(n, {late(c) : c \in expired(n, last)}, {}, answers)
          /\ UNCHANGED <<kv, next_corr, life, link, net, requests, outcomes>>

(* A node stops, at any point, and is started again: nothing is kept. *)
restart(n) ==
    /\ life[n] + life[peer(n)] < MaxRestarts
    /\ life' = [life EXCEPT ![n] = @ + 1]
    /\ kv' = [kv EXCEPT ![n] = [k \in {} |-> 0]]
    /\ clients' = [clients EXCEPT ![n] = {}]
    /\ pending' = [pending EXCEPT ![n] = [c \in {} |-> 0]]
    /\ next_corr' = [next_corr EXCEPT ![n] = 0]
    /\ stuck' = [stuck EXCEPT ![n] = NoConn]
    /\ link' = [c \in Conn |-> IF Home[c] = n THEN "none" ELSE link[c]]
    /\ UNCHANGED <<net, requests, outcomes, answers>>

-----------------------------------------------------------------------------
SixNext ==
    \/ \E c \in Conn :
          \/ client_up(c) \/ hang_up(c) \/ client_down(c)
          \/ \E command \in Command : other_frame(c, command)
          \/ \E body \in Body[c] :
                send_unkeyed(c, body) \/ send_local(c, body) \/ send_forward(c, body)
    \/ \E n \in Pair :
          \/ \E d \in net : \E t \in {taken[n][d]} :
                handle_request(n, d, t) \/ handle_response(n, t) \/ ignore_datagram(n, t)
          \/ unblock(n) \/ tick(n) \/ restart(n)

(* Time passes, so a deadline is reached, and the Tick queued after it is  *)
(* handled once the events ahead of it have been, since the queue is first *)
(* in, first out.  Nothing is asked of the network, of the peer or of any  *)
(* client.                                                                 *)
SixSpec ==
    /\ SixInit /\ [][SixNext]_sixVars
    /\ \A n \in Pair : SF_sixVars(tick(n))

-----------------------------------------------------------------------------
(* Type invariant of the pair. *)
SixTypeOK ==
    /\ \A n \in Pair : clients[n] \subseteq {c \in Conn : Home[c] = n}
    /\ next_corr \in [Pair -> Nat]
    /\ \A n \in Pair : DOMAIN pending[n] \subseteq 1..next_corr[n]
    /\ stuck \in [Pair -> Conn \cup {NoConn}]
    /\ life \in [Pair -> 0..MaxRestarts]
    /\ link \in [Conn -> {"none", "up", "gone", "down"}]
    /\ Len(requests) <= MaxRequests
    /\ DOMAIN outcomes = DOMAIN requests /\ DOMAIN answers = DOMAIN requests

waiting(r) == \E n \in Pair : \E c \in DOMAIN pending[n] : pending[n][c].receipt = r

(* A request is answered once, if at all, through any late, repeated or    *)
(* reordered datagrams, timeouts racing answers, and restarts of either    *)
(* node: while it is pending its client has been told nothing, and no two  *)
(* entries are about the same request.                                     *)
AnsweredOnce ==
    /\ \A r \in DOMAIN requests :
          Len(answers[r]) <= 1 /\ (waiting(r) => answers[r] = <<>>)
    /\ \A n, m \in Pair : \A c \in DOMAIN pending[n], d \in DOMAIN pending[m] :
          pending[n][c].receipt = pending[m][d].receipt => n = m /\ c = d

(* An entry of the pending table belongs to a client of this node whose    *)
(* ClientDown is still to come, and to a request that it made: departures  *)
(* leave nothing behind, whether by hanging up, by DISCONNECT or by a      *)
(* write that failed.                                                      *)
PendingHasClient ==
    \A n \in Pair : \A c \in DOMAIN pending[n] :
        LET p == pending[n][c]
        IN  /\ Home[p.conn] = n /\ link[p.conn] \in {"up", "gone"}
            /\ requests[p.receipt].conn = p.conn

(* Every key has one home: a node stores only keys the rule gives it, only *)
(* values that a client asked to store under that key, and never more keys *)
(* than the ceiling, however often a delayed PUT is executed again.        *)
OneHome ==
    \A n \in Pair :
        /\ Cardinality(DOMAIN kv[n]) <= MAX_KEYS
        /\ \A k \in DOMAIN kv[n] :
              /\ k % 2 = 1 <=> n <= peer(n)
              /\ \E r \in DOMAIN requests : requests[r].op = Put(k, kv[n][k])

(* Every forwarded request is settled, if no client blocks the core thread *)
(* for ever by not reading: its client is answered, by the peer or by the  *)
(* timeout, or can no longer be written to.                                *)
EveryForwardSettles ==
    (\A n \in Pair : []<>idle(n)) =>
        \A r \in 1..MaxRequests :
            waiting(r) ~> /\ r \in DOMAIN requests /\ ~waiting(r)
                          /\ \/ answers[r] # <<>>
                             \/ requests[r].conn \notin clients[requests[r].node]

-----------------------------------------------------------------------------
(* What the pair relies on from the texts and the frames that it exchanges. *)
(* A body that parses names a key and one of the three operations; a node   *)
(* takes nothing from the datagrams of other programs; and what it takes    *)
(* from a message is that message, sent by its peer.                        *)
OpsWellFormed ==
    \A op \in Ops :
        /\ op.key \in Nat /\ op.verb \in {"Get", "Put", "Rm"}
        /\ op.verb = "Put" => op = Put(op.key, op.value)

StrayIgnored == \A n \in Pair : \A d \in Stray : ~taken[n][d].ok

TakenAsSent ==
    \A n, from \in Pair : \A r \in 1..MaxRequests : \A m \in Messages : \A d :
        d = datagram(from, m, r) /\ taken[n][d].ok =>
            taken[n][d].message = m /\ from = peer(n)

LinkIsFaithful == OpsWellFormed /\ StrayIgnored /\ TakenAsSent

=============================================================================
