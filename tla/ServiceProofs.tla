---------------------------- MODULE ServiceProofs ----------------------------
(***************************************************************************)
(* The pair as one key-value service, over a link that hands over what was *)
(* sent (LinkIsFaithful).  First the traffic: whose request every datagram *)
(* in flight is about.  Then, step by step, the refinement of KvService.   *)
(***************************************************************************)
EXTENDS SixSevenService, SixSevenProofs

(* The provers get time enough on a slow machine. *)
USE SMTT(30), ZenonT(30)

-----------------------------------------------------------------------------
(* The pair: each node is the peer of the other, and of every key exactly  *)
(* one of them is the owner.                                               *)
LEMMA PairIsBoth ==
    ASSUME NEW n \in Pair
    PROVE  Pair = {n, peer(n)} /\ peer(peer(n)) = n
<1> DEFINE p == peer(n)
<1>1. p \in Pair /\ p # n
  BY PeerIsOther
<1>2. IsFiniteSet(Pair)
  <2>1. IsFiniteSet(U16)
    <3>1. 0 \in Int /\ 256 * 256 - 1 \in Int
      OBVIOUS
    <3>2. QED
      BY <3>1, FS_Interval, Zenon DEF U16
  <2>2. Pair \subseteq U16
    BY PairAssumption
  <2>3. QED
    BY <2>1, <2>2, FS_Subset
<1> HIDE DEF p
<1>3. IsFiniteSet({n} \cup {p}) /\ Cardinality({n} \cup {p}) = 2
  <2>1. IsFiniteSet({n}) /\ Cardinality({n}) = 1
    BY FS_Singleton
  <2>2. p \notin {n}
    BY <1>1
  <2>3. Cardinality({n} \cup {p}) = Cardinality({n}) + 1
    BY <2>1, <2>2, FS_AddElement
  <2>4. IsFiniteSet({n} \cup {p})
    BY <2>1, FS_AddElement
  <2>5. QED
    BY <2>1, <2>3, <2>4
<1>4. {n} \cup {p} \subseteq Pair
  BY <1>1
<1>5. Cardinality(Pair) = 2
  BY PairAssumption
<1>6. Pair = {n} \cup {p}
  BY <1>2, <1>3, <1>4, <1>5, FS_Subset
<1>7. peer(p) \in Pair /\ peer(p) # p
  BY <1>1, PeerIsOther
<1>8. QED
  BY <1>6, <1>7 DEF p

(* Of every key exactly one of the two is the owner. *)
LEMMA OneOwner ==
    ASSUME NEW n \in Pair, NEW op, op.key \in Nat
    PROVE  owns(n, op) <=> ~owns(peer(n), op)
<1> DEFINE p == peer(n)
           k == op.key
<1>1. p \in Nat /\ n \in Nat /\ p # n
  <2>1. p \in Pair /\ p # n
    BY PeerIsOther
  <2>2. Pair \subseteq U16
    BY PairAssumption
  <2>3. U16 \subseteq Nat
    BY DEF U16
  <2>4. QED
    BY <2>1, <2>2, <2>3, Zenon
<1>2. peer(p) = n
  BY PairIsBoth
<1>3. owns(n, op) <=> owner(k, n, p) = n
  BY DEF owns
<1>4. owns(p, op) <=> owner(k, p, n) = p
  BY <1>2 DEF owns
<1> HIDE DEF p, k
<1>5. owner(k, n, p) = n <=> ~(owner(k, p, n) = p)
  BY <1>1 DEF owner
<1>6. QED
  BY <1>3, <1>4, <1>5 DEF p

-----------------------------------------------------------------------------
(* Who asked for what is in flight.  A request belongs to the node that    *)
(* minted its id; while that node lives, the id is spent, and an entry     *)
(* under it is about that request.  A response carries one of the outcomes *)
(* of the request it is about.                                             *)
Made == [conn : Conn, node : Pair, life : 0..MaxRestarts, op : Ops]

Minted(n, i, q) ==
    /\ requests[q].node = n
    /\ requests[q].life <= life[n]
    /\ requests[q].life = life[n] =>
          /\ i <= next_corr[n]
          /\ i \in DOMAIN pending[n] => pending[n][i].receipt = q

Carried(d) ==
    \/ d \in Stray
    \/ \E n \in Pair : \E i \in 1..MaxRequests : \E q \in 1..Len(requests) :
          /\ Minted(n, i, q)
          /\ \/ /\ ~owns(n, requests[q].op)
                /\ d = datagram(n, Request(i, requests[q].op), q)
             \/ \E reply \in KvReplies \cap outcomes[q] :
                   d = datagram(peer(n), Response(i, reply), q)

EntriesCurrent ==
    \A n \in Pair : \A i \in DOMAIN pending[n] :
        /\ requests[pending[n][i].receipt].node = n
        /\ requests[pending[n][i].receipt].life = life[n]

TrafficInv ==
    /\ \A q \in 1..Len(requests) : requests[q] \in Made
    /\ EntriesCurrent
    /\ \A d \in net : Carried(d)

(* A step that moves nothing leaves the traffic accounted for. *)
LEMMA TrafficRests ==
    ASSUME TrafficInv, UNCHANGED <<pending, next_corr, life, net, requests, outcomes>>
    PROVE  TrafficInv'
<1>1. EntriesCurrent'
  BY DEF TrafficInv, EntriesCurrent
<1>2. \A n, i, q : Minted(n, i, q) => Minted(n, i, q)'
  BY DEF Minted
<1>3. \A d : Carried(d) => Carried(d)'
  BY <1>2 DEF Carried
<1>4. QED
  BY <1>1, <1>3 DEF TrafficInv

(* What every step leaves of the past: requests and outcomes stay, and a   *)
(* node that was not restarted has no other entry under an id it spent.    *)
PastStays ==
    \A q \in 1..Len(requests) :
        /\ q \in 1..Len(requests') /\ requests'[q] = requests[q]
        /\ outcomes[q] \subseteq outcomes'[q]

IdsStay ==
    \A n \in Pair :
        \/ life[n] < life'[n]
        \/ /\ life'[n] = life[n] /\ next_corr[n] <= next_corr'[n]
           /\ \A i \in DOMAIN pending'[n] : i <= next_corr[n] =>
                 i \in DOMAIN pending[n] /\ pending'[n][i] = pending[n][i]

(* No step rewrites the requests and outcomes so far. *)
LEMMA HistoryStays ==
    ASSUME PairInv, TypesInv, HistoryMove
    PROVE  PastStays
<1> DEFINE m == Len(requests)
<1>1. m \in Nat /\ Over(m, outcomes)
  BY DEF PairInv, Histories, TypesInv
<1>2. CASE UNCHANGED <<requests, outcomes>>
  BY <1>2 DEF PastStays
<1>3. ASSUME NEW c \in Conn, NEW body, asks(c, body),
             NEW replies, outcomes' = Append(outcomes, replies)
      PROVE  PastStays
  <2>1. /\ Len(requests') = m + 1
        /\ \A q \in 1..m : requests'[q] = requests[q]
    BY <1>3, Asking
  <2> HIDE DEF m
  <2>2. \A q \in 1..m : outcomes'[q] = outcomes[q]
    BY <1>1, <1>3, AppendTo
  <2>3. \A q \in 1..m : q \in 1..(m + 1)
    BY <1>1
  <2>4. QED
    BY <2>1, <2>2, <2>3 DEF PastStays, m
<1>4. ASSUME UNCHANGED requests, NEW r, NEW replies,
             outcomes' = [outcomes EXCEPT ![r] = @ \cup replies]
      PROVE  PastStays
  <2>1. DOMAIN outcomes = 1..m
    BY <1>1 DEF Over
  <2>2. \A q \in 1..m : outcomes[q] \subseteq outcomes'[q]
    BY <1>4, <2>1
  <2>3. QED
    BY <1>4, <2>2 DEF PastStays
<1>5. QED
  BY <1>2, <1>3, <1>4, Zenon DEF HistoryMove

(* No step puts another entry under an id that was spent. *)
LEMMA IdsSpentStay ==
    ASSUME PairInv, TypesInv, PendingMove
    PROVE  IdsStay
<1>1. /\ DOMAIN pending = Pair /\ next_corr \in [Pair -> Nat]
      /\ life \in [Pair -> 0..MaxRestarts] /\ MaxRestarts \in Nat
      /\ \A n \in Pair : DOMAIN pending[n] \subseteq 1..next_corr[n]
  BY PairAssumption DEF PairInv, Shapes, TypesInv, SixTypeOK
<1>2. CASE UNCHANGED <<pending, next_corr, life>>
  BY <1>1, <1>2 DEF IdsStay
<1>3. ASSUME NEW n \in Pair, next_corr' = [next_corr EXCEPT ![n] = mint(n)], UNCHANGED life,
             \/ UNCHANGED pending
             \/ \E entry : pending' = [pending EXCEPT ![n] = insert(@, mint(n), entry)]
      PROVE  IdsStay
  <2>1. mint(n) = next_corr[n] + 1 /\ next_corr[n] \in Nat
    BY <1>1 DEF mint
  <2>2. ASSUME NEW m \in Pair, NEW k \in DOMAIN pending'[m]
        PROVE  \/ k \in DOMAIN pending[m] /\ pending'[m][k] = pending[m][k]
               \/ m = n /\ k = mint(n)
    BY <1>1, <1>3, <2>2 DEF insert
  <2>3. \A m \in Pair : next_corr[m] <= next_corr'[m]
    BY <1>1, <1>3, <2>1
  <2>4. QED
    BY <1>3, <2>1, <2>2, <2>3 DEF IdsStay
<1>4. ASSUME UNCHANGED <<next_corr, life>>, NEW n \in Pair, NEW kept, Kept(kept, pending[n]),
             pending' = [pending EXCEPT ![n] = kept]
      PROVE  IdsStay
  BY <1>1, <1>4 DEF Kept, IdsStay
<1>5. ASSUME NEW n \in Pair, next_corr' = [next_corr EXCEPT ![n] = 0],
             pending' = [pending EXCEPT ![n] = [c \in {} |-> 0]],
             life' = [life EXCEPT ![n] = @ + 1]
      PROVE  IdsStay
  BY <1>1, <1>5 DEF IdsStay
<1>6. QED
  BY <1>2, <1>3, <1>4, <1>5, Zenon DEF PendingMove

(* A request stays with the node that minted its id. *)
LEMMA MintedStays ==
    ASSUME TypesInv, TypesInv', TrafficInv, PastStays, IdsStay,
           NEW n \in Pair, NEW i \in 1..MaxRequests, NEW q \in 1..Len(requests), Minted(n, i, q)
    PROVE  Minted(n, i, q)'
<1>1. requests'[q] = requests[q]
  BY DEF PastStays
<1>2. requests[q].life \in Int
  BY DEF TrafficInv, Made
<1>3. /\ life[n] \in Int /\ next_corr[n] \in Int /\ DOMAIN pending[n] \subseteq Nat
      /\ i \in Int
  BY DEF TypesInv, SixTypeOK
<1> DEFINE then == requests[q].life
           now == life[n]
<1>6. /\ requests[q].node = n /\ then <= now
      /\ then = now => i <= next_corr[n] /\ (i \in DOMAIN pending[n] => pending[n][i].receipt = q)
  BY DEF Minted
<1>7. ASSUME /\ then <= life'[n]
             /\ then = life'[n] =>
                   i <= next_corr'[n] /\ (i \in DOMAIN pending'[n] => pending'[n][i].receipt = q)
      PROVE  Minted(n, i, q)'
  BY <1>1, <1>6, <1>7 DEF Minted
<1>4. CASE now < life'[n]
  <2> HIDE DEF then
  <2>1. life'[n] \in Int
    BY DEF TypesInv, SixTypeOK
  <2>2. then \in Int
    BY <1>2 DEF then
  <2>3. now \in Int
    BY <1>3
  <2> HIDE DEF now
  <2>4. then <= life'[n] /\ then # life'[n]
    BY <1>4, <1>6, <2>1, <2>2, <2>3
  <2>5. QED
    BY <1>7, <2>4
<1>5. CASE /\ life'[n] = life[n] /\ next_corr[n] <= next_corr'[n]
           /\ \A k \in DOMAIN pending'[n] : k <= next_corr[n] =>
                 k \in DOMAIN pending[n] /\ pending'[n][k] = pending[n][k]
  <2>1. next_corr'[n] \in Int
    BY DEF TypesInv, SixTypeOK
  <2>2. then = now => i <= next_corr'[n]
    BY <1>3, <1>5, <1>6, <2>1
  <2>3. then = now /\ i \in DOMAIN pending'[n] => pending'[n][i].receipt = q
    BY <1>5, <1>6
  <2>4. QED
    BY <1>5, <1>6, <1>7, <2>2, <2>3
<1>8. QED
  BY <1>4, <1>5 DEF IdsStay

(* What was in flight is still accounted for after any step. *)
LEMMA CarriedStays ==
    ASSUME TypesInv, TypesInv', TrafficInv, PastStays, IdsStay, NEW d, Carried(d)
    PROVE  Carried(d)'
<1>2. CASE d \in Stray
  BY <1>2 DEF Carried
<1>3. CASE d \notin Stray
  <2>1. PICK n \in Pair, i \in 1..MaxRequests, q \in 1..Len(requests) :
          /\ Minted(n, i, q)
          /\ \/ /\ ~owns(n, requests[q].op)
                /\ d = datagram(n, Request(i, requests[q].op), q)
             \/ \E reply \in KvReplies \cap outcomes[q] :
                   d = datagram(peer(n), Response(i, reply), q)
    BY <1>3, Zenon DEF Carried
  <2>2. /\ q \in 1..Len(requests') /\ requests'[q] = requests[q]
        /\ outcomes[q] \subseteq outcomes'[q]
    BY DEF PastStays
  <2>3. Minted(n, i, q)'
    BY <2>1, MintedStays
  <2>4. \/ /\ ~owns(n, requests'[q].op)
           /\ d = datagram(n, Request(i, requests'[q].op), q)
        \/ \E reply \in KvReplies \cap outcomes'[q] :
              d = datagram(peer(n), Response(i, reply), q)
    BY <2>1, <2>2, Zenon
  <2>5. QED
    BY <2>2, <2>3, <2>4 DEF Carried
<1>4. QED
  BY <1>2, <1>3
(* A request that is taken came from the peer, which asked it for one of   *)
(* its clients and does not own the key.                                   *)
LEMMA RequestTaken ==
    ASSUME LinkIsFaithful, PairInv, TypesInv, TrafficInv, NEW n \in Pair, NEW d \in net,
           taken[n][d].ok, taken[n][d].message.kind = "Request"
    PROVE  \E i \in 1..MaxRequests : \E q \in 1..Len(requests) :
              /\ taken[n][d].message = Request(i, requests[q].op) /\ d.about = q
              /\ Minted(peer(n), i, q) /\ ~owns(peer(n), requests[q].op)
<1>1. Carried(d)
  BY DEF TrafficInv
<1>2. d \notin Stray
  BY DEF LinkIsFaithful, StrayIgnored
<1>3. PICK from \in Pair, i \in 1..MaxRequests, q \in 1..Len(requests) :
         /\ Minted(from, i, q)
         /\ \/ /\ ~owns(from, requests[q].op)
               /\ d = datagram(from, Request(i, requests[q].op), q)
            \/ \E reply \in KvReplies \cap outcomes[q] :
                  d = datagram(peer(from), Response(i, reply), q)
  BY <1>1, <1>2, Zenon DEF Carried
<1>4. q \in 1..MaxRequests
  BY PairAssumption DEF PairInv, Histories, TypesInv, SixTypeOK
<1>5. ASSUME NEW reply \in KvReplies, d = datagram(peer(from), Response(i, reply), q)
      PROVE  FALSE
  <2>1. peer(from) \in Pair
    BY PeerIsOther
  <2>2. taken[n][d].message.kind = "Response"
    BY <1>4, <1>5, <2>1, ResponseArrives, Zenon
  <2>3. QED
    BY <2>2
<1>6. /\ ~owns(from, requests[q].op)
      /\ d = datagram(from, Request(i, requests[q].op), q)
  BY <1>3, <1>5
<1> DEFINE op == requests[q].op
<1>7. op \in Ops
  BY DEF TrafficInv, Made
<1>8. d = datagram(from, Request(i, op), q)
  BY <1>6, Zenon
<1> HIDE DEF op
<1>9. taken[n][d].message = Request(i, op) /\ from = peer(n) /\ d.about = q
  BY <1>4, <1>7, <1>8, RequestArrives
<1>10. QED
  BY <1>3, <1>6, <1>9 DEF op

(* A response that is taken answers a request of this node, with one of    *)
(* its outcomes.                                                           *)
LEMMA ResponseTaken ==
    ASSUME LinkIsFaithful, PairInv, TypesInv, TrafficInv, NEW n \in Pair, NEW d \in net,
           taken[n][d].ok, taken[n][d].message.kind = "Response"
    PROVE  \E i \in 1..MaxRequests : \E q \in 1..Len(requests) :
              \E reply \in outcomes[q] :
                 taken[n][d].message = Response(i, reply) /\ Minted(n, i, q)
<1>1. Carried(d)
  BY DEF TrafficInv
<1>2. d \notin Stray
  BY DEF LinkIsFaithful, StrayIgnored
<1>3. PICK to \in Pair, i \in 1..MaxRequests, q \in 1..Len(requests) :
         /\ Minted(to, i, q)
         /\ \/ /\ ~owns(to, requests[q].op)
               /\ d = datagram(to, Request(i, requests[q].op), q)
            \/ \E reply \in KvReplies \cap outcomes[q] :
                  d = datagram(peer(to), Response(i, reply), q)
  BY <1>1, <1>2, Zenon DEF Carried
<1>4. q \in 1..MaxRequests
  BY PairAssumption DEF PairInv, Histories, TypesInv, SixTypeOK
<1>5. ASSUME d = datagram(to, Request(i, requests[q].op), q)
      PROVE  FALSE
  <2> DEFINE op == requests[q].op
  <2>1. op \in Ops
    BY DEF TrafficInv, Made
  <2>2. d = datagram(to, Request(i, op), q)
    BY <1>5, Zenon
  <2> HIDE DEF op
  <2>3. taken[n][d].message.kind = "Request"
    BY <1>4, <2>1, <2>2, RequestArrives
  <2>4. QED
    BY <2>3
<1>6. PICK reply \in KvReplies \cap outcomes[q] : d = datagram(peer(to), Response(i, reply), q)
  BY <1>3, <1>5
<1>7. peer(to) \in Pair /\ reply \in KvReplies /\ reply \in outcomes[q]
  BY PeerIsOther
<1>8. taken[n][d].message = Response(i, reply) /\ peer(to) = peer(n)
  BY <1>4, <1>6, <1>7, ResponseArrives
<1>9. to = n
  BY <1>8, PairIsBoth
<1>10. QED
  BY <1>3, <1>7, <1>8, <1>9

-----------------------------------------------------------------------------
(* Steps that add no entry keep the traffic accounted for, if what they    *)
(* send is.                                                                *)
Remaining ==
    \A n \in Pair : \A i \in DOMAIN pending'[n] :
        /\ i \in DOMAIN pending[n] /\ pending'[n][i] = pending[n][i]
        /\ life'[n] = life[n]

(* A request that is made is one of those that can be. *)
LEMMA MadeTyped ==
    ASSUME PairInv, TypesInv, TrafficInv, PastStays,
           UNCHANGED requests \/ \E c \in Conn : \E body \in Body[c] : asks(c, body)
    PROVE  \A q \in 1..Len(requests') : requests'[q] \in Made
<1>1. \A q \in 1..Len(requests) : requests[q] \in Made
  BY DEF TrafficInv
<1>2. CASE UNCHANGED requests
  BY <1>1, <1>2
<1>3. ASSUME NEW c \in Conn, NEW body \in Body[c], asks(c, body)
      PROVE  \A q \in 1..Len(requests') : requests'[q] \in Made
  <2> DEFINE rec == [conn |-> c, node |-> Home[c], life |-> life[Home[c]], op |-> parsed[body].op]
             m == Len(requests)
  <2>1. rec \in Made
    <3>1. Home[c] \in Pair /\ life[Home[c]] \in 0..MaxRestarts
      BY PairAssumption DEF TypesInv, SixTypeOK
    <3>2. parsed[body].op \in Ops
      <4>1. body \in Bodies /\ parsed[body].ok
        BY <1>3 DEF Bodies, asks
      <4>2. QED
        BY <4>1 DEF Ops
    <3>3. QED
      BY <3>1, <3>2 DEF Made
  <2>2. requests' = Append(requests, rec) /\ m \in Nat /\ Over(m, requests)
    BY <1>3, Zenon DEF asks, PairInv, Histories
  <2> HIDE DEF rec, m
  <2>3. Len(requests') = m + 1 /\ requests'[m + 1] = rec
    BY <2>2, AppendTo
  <2>4. \A q \in 1..m : requests'[q] = requests[q]
    BY <2>2, AppendTo
  <2>5. \A q \in 1..(m + 1) : q \in 1..m \/ q = m + 1
    BY <2>2
  <2>6. \A q \in 1..m : requests[q] \in Made
    BY <1>1 DEF m
  <2>7. QED
    BY <2>1, <2>3, <2>4, <2>5, <2>6
<1>4. QED
  BY <1>2, <1>3

(* A step that adds to the network only what is accounted for keeps the    *)
(* traffic accounted for.                                                  *)
LEMMA TrafficKept ==
    ASSUME PairInv, TypesInv, TypesInv', TrafficInv, Moves, Remaining,
           UNCHANGED requests \/ \E c \in Conn : \E body \in Body[c] : asks(c, body),
           \A d \in net' : d \in net \/ Carried(d)'
    PROVE  TrafficInv'
<1>1. PastStays /\ IdsStay
  BY HistoryStays, IdsSpentStay DEF Moves
<1>2. \A q \in 1..Len(requests') : requests'[q] \in Made
  BY <1>1, MadeTyped
<1>3. EntriesCurrent'
  <2>1. ASSUME NEW n \in Pair, NEW i \in DOMAIN pending'[n]
        PROVE  /\ requests'[pending'[n][i].receipt].node = n
               /\ requests'[pending'[n][i].receipt].life = life'[n]
    <3> DEFINE r == pending[n][i].receipt
    <3>1. i \in DOMAIN pending[n] /\ pending'[n][i] = pending[n][i] /\ life'[n] = life[n]
      BY <2>1 DEF Remaining
    <3>2. r \in 1..Len(requests)
      BY <3>1 DEF PairInv, AllOwed, Owed
    <3>3. requests[r].node = n /\ requests[r].life = life[n]
      BY <3>1 DEF TrafficInv, EntriesCurrent
    <3>4. requests'[r] = requests[r]
      BY <1>1, <3>2 DEF PastStays
    <3>5. QED
      BY <3>1, <3>3, <3>4
  <2>2. QED
    BY <2>1, ZenonT(30) DEF EntriesCurrent
<1>4. ASSUME NEW d \in net' PROVE Carried(d)'
  <2>1. CASE d \in net
    <3>1. Carried(d)
      BY <2>1 DEF TrafficInv
    <3>2. QED
      BY <1>1, <3>1, CarriedStays
  <2>2. QED
    BY <1>4, <2>1
<1>5. QED
  BY <1>2, <1>3, <1>4 DEF TrafficInv

(* A forwarded request is in flight under the id its entry has. *)
LEMMA SendForwardTraffic ==
    ASSUME PairInv, TypesInv, TypesInv', HomeInv, TrafficInv, Moves,
           NEW c \in Conn, NEW body \in Body[c], send_forward(c, body)
    PROVE  TrafficInv'
<1> DEFINE n == Home[c]
           op == parsed[body].op
<1>a. PICK corr : corr = mint(n)
  OBVIOUS
<1>b. PICK r : r = Len(requests')
  BY ZenonT(30)
<1> DEFINE d0 == datagram(n, Request(corr, op), r)
           entry == [conn |-> c, receipt |-> r]
<1>1. /\ asks(c, body) /\ ~owns(n, op)
      /\ next_corr' = [next_corr EXCEPT ![n] = corr]
      /\ UNCHANGED life
      /\ \/ /\ net' = net \cup {d0}
            /\ pending' = [pending EXCEPT ![n] = insert(@, corr, entry)]
         \/ UNCHANGED <<net, pending>>
  <2>1. /\ asks(c, body) /\ ~owns(n, op)
        /\ next_corr' = [next_corr EXCEPT ![n] = mint(n)]
        /\ UNCHANGED life
        /\ \/ /\ net' = net \cup {datagram(n, Request(mint(n), op), Len(requests'))}
              /\ pending' = [pending EXCEPT ![n] =
                                insert(@, mint(n), [conn |-> c, receipt |-> Len(requests')])]
           \/ UNCHANGED <<net, pending>>
    BY Zenon DEF send_forward
  <2>2. QED
    BY <1>a, <1>b, <2>1
<1>2. PastStays /\ IdsStay
  BY HistoryStays, IdsSpentStay, Zenon DEF Moves
<1>3. CASE UNCHANGED <<net, pending>>
  <2>1. Remaining
    BY <1>1, <1>3 DEF Remaining
  <2>2. QED
    BY <1>1, <1>3, <2>1, TrafficKept, ZenonT(30)
<1>4. CASE /\ net' = net \cup {d0}
           /\ pending' = [pending EXCEPT ![n] = insert(@, corr, entry)]
  <2>1. \A q \in 1..Len(requests') : requests'[q] \in Made
    BY <1>1, <1>2, MadeTyped
  <2>2. n \in Pair /\ DOMAIN pending = Pair /\ next_corr \in [Pair -> Nat]
    BY PairAssumption DEF PairInv, Shapes, TypesInv, SixTypeOK
  <2>3. /\ r = Len(requests) + 1 /\ r \in 1..Len(requests') /\ r \in 1..MaxRequests
        /\ Len(requests) \in Nat
    BY <1>a, <1>b, <1>1, AskingMakes
  <2>4. requests'[r].node = n /\ requests'[r].life = life[n] /\ requests'[r].op = op
    <3> DEFINE rec == [conn |-> c, node |-> n, life |-> life[n], op |-> op]
               m == Len(requests)
    <3>1. requests' = Append(requests, rec) /\ m \in Nat /\ Over(m, requests)
      BY <1>1, Zenon DEF asks, PairInv, Histories
    <3>2. rec.node = n /\ rec.life = life[n] /\ rec.op = op
      OBVIOUS
    <3>3. r = m + 1
      BY <2>3
    <3> HIDE DEF rec, m
    <3>4. requests'[m + 1] = rec
      BY <3>1, AppendTo
    <3>5. QED
      BY <3>2, <3>3, <3>4
  <2>5. corr \in 1..MaxRequests /\ corr = next_corr[n] + 1
    <3>1. next_corr[n] <= Len(requests) /\ next_corr[n] \in Nat
      BY <2>2 DEF HomeInv
    <3>2. corr = next_corr[n] + 1
      BY <1>a DEF mint
    <3>3. PICK last, all : last = next_corr[n] /\ all = Len(requests)
      BY Zenon
    <3>4. /\ last \in Nat /\ all \in Nat /\ last <= all /\ corr = last + 1
          /\ all + 1 \in 1..MaxRequests /\ MaxRequests \in Nat
      BY <2>3, <3>1, <3>2, <3>3, PairAssumption
    <3>5. corr \in 1..MaxRequests
      BY <3>4
    <3>6. QED
      BY <3>2, <3>5
  <2> HIDE DEF n, op
  <2>6. ASSUME NEW m \in Pair, NEW i \in DOMAIN pending'[m]
        PROVE  \/ m = n /\ i = corr /\ pending'[m][i].receipt = r
               \/ i \in DOMAIN pending[m] /\ pending'[m][i] = pending[m][i]
    BY <1>4, <2>2, <2>6, ZenonT(30) DEF insert
  <2>7. EntriesCurrent'
    <3>1. ASSUME NEW m \in Pair, NEW i \in DOMAIN pending'[m]
          PROVE  /\ requests'[pending'[m][i].receipt].node = m
                 /\ requests'[pending'[m][i].receipt].life = life'[m]
      <4>1. CASE m = n /\ i = corr /\ pending'[m][i].receipt = r
        BY <1>1, <2>4, <4>1
      <4>2. CASE i \in DOMAIN pending[m] /\ pending'[m][i] = pending[m][i]
        <5> DEFINE s == pending[m][i].receipt
        <5>1. s \in 1..Len(requests)
          BY <4>2 DEF PairInv, AllOwed, Owed
        <5>2. requests[s].node = m /\ requests[s].life = life[m]
          BY <4>2 DEF TrafficInv, EntriesCurrent
        <5>3. requests'[s] = requests[s]
          BY <1>2, <5>1 DEF PastStays
        <5>4. QED
          BY <1>1, <4>2, <5>2, <5>3, ZenonT(30)
      <4>3. QED
        BY <2>6, <4>1, <4>2, ZenonT(30)
    <3>2. QED
      BY <3>1, Zenon DEF EntriesCurrent
  <2>8. Minted(n, corr, r)'
    <3>1. next_corr'[n] = corr /\ life'[n] = life[n] /\ life[n] \in Int
      BY <1>1, <2>2 DEF TypesInv, SixTypeOK
    <3>2. corr \in DOMAIN pending'[n] => pending'[n][corr].receipt = r
      BY <1>4, <2>2 DEF insert
    <3>3. QED
      BY <2>4, <2>5, <3>1, <3>2 DEF Minted
  <2>9. Carried(d0)'
    <3>1. d0 = datagram(n, Request(corr, requests'[r].op), r) /\ ~owns(n, requests'[r].op)
      BY <1>1, <2>4
    <3>2. r \in 1..Len(requests')
      BY <2>3
    <3>3. QED
      BY <2>2, <2>5, <2>8, <3>1, <3>2, Zenon DEF Carried
  <2> HIDE DEF d0
  <2>10. ASSUME NEW d \in net' PROVE Carried(d)'
    <3>1. CASE d \in net
      <4>1. Carried(d)
        BY <3>1 DEF TrafficInv
      <4>2. QED
        BY <1>2, <4>1, CarriedStays
    <3>2. CASE d = d0
      BY <2>9, <3>2
    <3>3. QED
      BY <1>4, <2>10, <3>1, <3>2
  <2>11. QED
    BY <2>1, <2>7, <2>10, ZenonT(30) DEF TrafficInv
<1>5. QED
  BY <1>1, <1>3, <1>4

(* A response carries an outcome of the request it answers. *)
LEMMA HandleRequestTraffic ==
    ASSUME LinkIsFaithful, PairInv, TypesInv, TypesInv', HomeInv, TrafficInv, Moves,
           NEW n \in Pair, NEW d \in net, handle_request(n, d, taken[n][d])
    PROVE  TrafficInv'
<1> DEFINE t == taken[n][d]
<1>1. t.ok /\ t.message.kind = "Request"
  BY Zenon DEF handle_request
<1>2. PICK i \in 1..MaxRequests, q \in 1..Len(requests) :
         /\ t.message = Request(i, requests[q].op) /\ d.about = q
         /\ Minted(peer(n), i, q) /\ ~owns(peer(n), requests[q].op)
  BY <1>1, RequestTaken
<1>3. PICK op : op = requests[q].op
  OBVIOUS
<1>4. t.message.corr = i /\ t.message.op = op
  BY <1>2, <1>3 DEF Request
<1>5. PICK reply : reply = IF owns(n, op) THEN reply_of(kv[n], op) ELSE NotOwner
  BY ZenonT(30)
<1> DEFINE d0 == datagram(n, Response(i, reply), q)
<1>6. /\ outcomes' = [outcomes EXCEPT ![q] = @ \cup {reply}]
      /\ net' = net \cup {d0} \/ net' = net
      /\ UNCHANGED <<pending, life, requests>>
  <2>1. /\ outcomes' = [outcomes EXCEPT ![d.about] = @ \cup
                {IF owns(n, t.message.op) THEN reply_of(kv[n], t.message.op) ELSE NotOwner}]
        /\ \/ net' = net \cup {datagram(n, Response(t.message.corr,
                IF owns(n, t.message.op) THEN reply_of(kv[n], t.message.op) ELSE NotOwner), d.about)}
           \/ net' = net
        /\ UNCHANGED <<pending, life, requests>>
    BY Zenon DEF handle_request
  <2> HIDE DEF t
  <2>2. QED
    BY <1>2, <1>4, <1>5, <2>1
<1>7. PastStays /\ IdsStay
  BY HistoryStays, IdsSpentStay DEF Moves
<1>8. reply \in KvReplies
  <2>1. op \in OpsMade
    BY <1>3 DEF OpsMade, PairInv, Histories, Over
  <2>2. Housed(n, kv[n], OpsMade) /\ OpsMade \subseteq Ops
    BY DEF HomeInv
  <2>3. reply_of(kv[n], op) \in KvReplies
    BY <2>1, <2>2, RepliesOfStore
  <2>4. NotOwner \in KvReplies
    BY DEF KvReplies
  <2>5. QED
    BY <1>5, <2>3, <2>4
<1>9. reply \in outcomes'[q]
  <2>1. DOMAIN outcomes = 1..Len(requests)
    BY DEF TypesInv, Over
  <2>2. QED
    BY <1>6, <2>1
<1>10. Carried(d0)'
  <2> DEFINE p == peer(n)
  <2>1. p \in Pair /\ n = peer(p)
    BY PeerIsOther, PairIsBoth
  <2> HIDE DEF p
  <2>2. Minted(p, i, q)
    BY <1>2 DEF p
  <2>3. Minted(p, i, q)'
    BY <1>7, <2>1, <2>2, MintedStays
  <2>4. d0 = datagram(peer(p), Response(i, reply), q)
    BY <2>1
  <2>5. q \in 1..Len(requests')
    BY <1>6
  <2> HIDE DEF d0
  <2>6. QED
    BY <1>8, <1>9, <2>1, <2>3, <2>4, <2>5 DEF Carried
<1> HIDE DEF d0
<1>11. \A e \in net' : e \in net \/ Carried(e)'
  BY <1>6, <1>10
<1>12. Remaining
  BY <1>6 DEF Remaining
<1>13. QED
  BY <1>6, <1>11, <1>12, TrafficKept

(* Every step keeps the traffic accounted for. *)
LEMMA TrafficStep ==
    ASSUME LinkIsFaithful, PairInv, TypesInv, TypesInv', HomeInv, TrafficInv, [SixNext]_sixVars
    PROVE  TrafficInv'
<1>1. CASE UNCHANGED sixVars
  <2>1. UNCHANGED <<pending, next_corr, life, net, requests, outcomes>>
    BY <1>1 DEF sixVars
  <2>2. QED
    BY <2>1, TrafficRests, Zenon
<1>2. CASE SixNext
  <2>1. Moves
    BY <1>2, StepsMove
  <2> DEFINE Still == Remaining /\ UNCHANGED <<requests, net>>
  <2>2. UNCHANGED <<pending, life>> => Remaining
    BY DEF Remaining
  <2>3. ASSUME NEW n \in Pair, UNCHANGED life, NEW kept, Kept(kept, pending[n]),
               pending' = [pending EXCEPT ![n] = kept]
        PROVE  Remaining
    <3>1. DOMAIN pending = Pair
      BY DEF PairInv, Shapes
    <3>2. QED
      BY <2>3, <3>1 DEF Remaining, Kept
  <2>4. Still => TrafficInv'
    BY <2>1, TrafficKept
  <2>5. ASSUME NEW c \in Conn,
               \/ client_up(c) \/ hang_up(c) \/ client_down(c)
               \/ \E command \in Command : other_frame(c, command)
               \/ \E body \in Body[c] : send_unkeyed(c, body)
        PROVE  Still
    <3>1. client_up(c) => UNCHANGED <<pending, life, requests, net>>
      BY Zenon DEF client_up
    <3>2. hang_up(c) => UNCHANGED <<pending, life, requests, net>>
      BY DEF hang_up, nodeVars, histVars
    <3>3. ASSUME client_down(c) PROVE Still
      <4>1. /\ pending' = [pending EXCEPT ![Home[c]] = retained(@, c)]
            /\ UNCHANGED <<life, requests, net>>
        BY <3>3, Zenon DEF client_down
      <4>2. Kept(retained(pending[Home[c]], c), pending[Home[c]])
        BY DEF retained, Kept
      <4>3. Home[c] \in Pair
        BY PairAssumption
      <4>4. QED
        BY <2>3, <4>1, <4>2, <4>3, Zenon
    <3>4. \A command \in Command :
             other_frame(c, command) => UNCHANGED <<pending, life, requests, net>>
      BY Zenon DEF other_frame
    <3>5. \A body \in Body[c] :
             send_unkeyed(c, body) => UNCHANGED <<pending, life, requests, net>>
      BY Zenon DEF send_unkeyed
    <3>6. UNCHANGED <<pending, life, requests, net>> => Still
      BY <2>2
    <3> HIDE DEF Still
    <3>7. QED
      BY <2>5, <3>1, <3>2, <3>3, <3>4, <3>5, <3>6, Zenon
  <2>6. ASSUME NEW c \in Conn, NEW body \in Body[c], send_local(c, body) PROVE TrafficInv'
    <3>1. asks(c, body) /\ UNCHANGED <<pending, life, net>>
      BY <2>6, Zenon DEF send_local
    <3>2. QED
      BY <2>1, <2>2, <3>1, TrafficKept
  <2>7. ASSUME NEW c \in Conn, NEW body \in Body[c], send_forward(c, body) PROVE TrafficInv'
    BY <2>1, <2>7, SendForwardTraffic
  <2>8. ASSUME NEW n \in Pair, NEW d \in net, NEW t, t = taken[n][d], handle_request(n, d, t)
        PROVE  TrafficInv'
    BY <2>1, <2>8, HandleRequestTraffic
  <2>9. ASSUME NEW n \in Pair, NEW t, handle_response(n, t) PROVE Still
    <3>1. /\ pending' = [pending EXCEPT ![n] = settled(@, {t.message.corr})]
          /\ UNCHANGED <<life, requests, net>>
      BY <2>9, Zenon DEF handle_response
    <3>2. Kept(settled(pending[n], {t.message.corr}), pending[n])
      BY DEF settled, Kept
    <3>3. QED
      BY <2>3, <3>1, <3>2, Zenon
  <2>10. ASSUME NEW n \in Pair, NEW t, ignore_datagram(n, t) PROVE Still
    BY <2>2, <2>10 DEF ignore_datagram, sixVars
  <2>11. ASSUME NEW n \in Pair, unblock(n) PROVE Still
    <3>1. UNCHANGED <<pending, life, requests, net>>
      BY <2>11, Zenon DEF unblock
    <3>2. QED
      BY <2>2, <3>1
  <2>12. ASSUME NEW n \in Pair, tick(n) PROVE Still
    <3>1. PICK last \in DOMAIN pending[n] :
            /\ pending' = [pending EXCEPT ![n] = settled(@, expired(n, last))]
            /\ UNCHANGED <<life, requests, net>>
      BY <2>12, Zenon DEF tick
    <3>2. Kept(settled(pending[n], expired(n, last)), pending[n])
      BY DEF settled, Kept
    <3>3. QED
      BY <2>3, <3>1, <3>2, ZenonT(30)
  <2>13. ASSUME NEW n \in Pair, restart(n) PROVE Still
    <3>1. /\ pending' = [pending EXCEPT ![n] = [c \in {} |-> 0]]
          /\ life' = [life EXCEPT ![n] = @ + 1]
          /\ UNCHANGED <<requests, net>>
      BY <2>13, Zenon DEF restart
    <3>2. DOMAIN pending = Pair /\ DOMAIN life = Pair
      BY DEF PairInv, Shapes, TypesInv, SixTypeOK
    <3>3. \A m \in Pair : \A i \in DOMAIN pending'[m] : m # n
      BY <3>1, <3>2
    <3>4. QED
      BY <3>1, <3>2, <3>3 DEF Remaining
  <2> HIDE DEF Still
  <2>14. QED
    BY <1>2, <2>4, <2>5, <2>6, <2>7, <2>8, <2>9, <2>10, <2>11, <2>12, <2>13, Zenon DEF SixNext
<1>3. QED
  BY <1>1, <1>2

(* Every request and response in flight belongs to a request of a client. *)
LEMMA TrafficInvHolds ==
    ASSUME LinkIsFaithful
    PROVE  SixSpec => []TrafficInv
<1>1. SixInit => TrafficInv
  <2> SUFFICES ASSUME SixInit PROVE TrafficInv
    OBVIOUS
  <2>1. /\ requests = <<>> /\ Len(requests) = 0 /\ 1..Len(requests) = {}
        /\ net = Stray /\ \A n \in Pair : DOMAIN pending[n] = {}
    BY DEF SixInit
  <2>2. \A d \in net : Carried(d)
    BY <2>1, Zenon DEF Carried
  <2>3. QED
    BY <2>1, <2>2 DEF TrafficInv, EntriesCurrent
<1>2. QED
  BY <1>1, TrafficStep, PairInvHolds, TypesInvHolds, HomeInvHolds, PTL DEF SixSpec

(* What a request that is still to be executed asks for. *)
LEMMA RequestAsks ==
    ASSUME TrafficInv, NEW i, NEW q \in 1..Len(requests), NEW m, m = Request(i, requests[q].op)
    PROVE  m.op = requests[q].op /\ requests[q].op \in Ops
<1>1. requests[q] \in Made
  BY Zenon DEF TrafficInv
<1>2. PICK rec : rec = requests[q]
  OBVIOUS
<1>3. rec.op \in Ops
  BY <1>1, <1>2 DEF Made
<1>4. PICK o : o = rec.op
  OBVIOUS
<1>5. Request(i, o).op = o
  BY DEF Request
<1>6. QED
  BY <1>2, <1>3, <1>4, <1>5, Zenon

-----------------------------------------------------------------------------
(* The pair as one service.  The table is the two stores together, and its *)
(* halves are the stores.                                                  *)
TableOf(stores) ==
    [k \in UNION {DOMAIN stores[n] : n \in Pair} |->
        stores[CHOOSE n \in Pair : k \in DOMAIN stores[n]][k]]

(* The service executes operations as a store does. *)
LEMMA ServiceStores ==
    ASSUME NEW entries, NEW op
    PROVE  /\ Service!reply_of(entries, op) = reply_of(entries, op)
           /\ Service!executed(entries, op) = executed(entries, op)
<1>1. Service!at_ceiling(entries, op.key) = at_ceiling(entries, op.key)
  BY Zenon DEF Service!at_ceiling, at_ceiling, Service!Cardinality, Cardinality
<1>2. /\ Service!Ok = Ok /\ Service!Nil = Nil
      /\ \A x : Service!Value(x) = Value(x) /\ Service!Err(x) = Err(x)
  BY DEF Service!Ok, Ok, Service!Nil, Nil, Service!Value, Value, Service!Err, Err
<1>3. QED
  BY <1>1, <1>2, Zenon DEF Service!reply_of, reply_of, Service!executed, executed

(* The home of a key is the node that the placement rule gives it to. *)
LEMMA HomeIs ==
    ASSUME NEW n \in Pair, NEW k
    PROVE  Service!home(k) = n <=> (k % 2 = 1 <=> n <= peer(n))
<1> DEFINE p == peer(n)
           odd == k % 2 = 1
           Rule(x) == \A m \in Pair : IF odd THEN x <= m ELSE x >= m
<1>1. Service!home(k) = CHOOSE x \in Pair : Rule(x)
  BY DEF Service!home
<1>2. p \in Nat /\ n \in Nat /\ p # n /\ p \in Pair
  <2>1. p \in Pair /\ p # n
    BY PeerIsOther
  <2>2. Pair \subseteq U16
    BY PairAssumption
  <2>3. U16 \subseteq Nat
    BY DEF U16
  <2>4. QED
    BY <2>1, <2>2, <2>3, Zenon
<1>3. Pair = {n, p}
  BY PairIsBoth
<1> HIDE DEF p, odd
<1>4. /\ Rule(n) <=> IF odd THEN n <= p ELSE n >= p
      /\ Rule(p) <=> IF odd THEN p <= n ELSE p >= n
  BY <1>2, <1>3
<1>5. /\ Rule(n) <=> ~Rule(p)
      /\ Rule(n) <=> (odd <=> n <= p)
  BY <1>2, <1>4
<1> HIDE DEF Rule
<1>6. (CHOOSE x \in Pair : Rule(x)) = n <=> Rule(n)
  BY <1>2, <1>3, <1>5, ZenonT(30)
<1>7. QED
  BY <1>1, <1>5, <1>6 DEF p, odd

(* Each half of the table is the store of a node. *)
LEMMA HalfIsStore ==
    ASSUME NEW stores, NEW ops, \A m \in Pair : Housed(m, stores[m], ops),
           NEW entries, entries = TableOf(stores), NEW n \in Pair
    PROVE  Service!half(entries, n) = stores[n]
<1>1. ASSUME NEW m \in Pair, NEW k \in DOMAIN stores[m]
      PROVE  Service!home(k) = m
  <2>1. k % 2 = 1 <=> m <= peer(m)
    BY ZenonT(30) DEF Housed
  <2>2. QED
    BY <2>1, HomeIs
<1>2. /\ DOMAIN entries = UNION {DOMAIN stores[m] : m \in Pair}
      /\ \A k \in DOMAIN entries :
            entries[k] = stores[CHOOSE m \in Pair : k \in DOMAIN stores[m]][k]
  BY DEF TableOf
<1>3. {k \in DOMAIN entries : Service!home(k) = n} = DOMAIN stores[n]
  BY <1>1, <1>2
<1>4. ASSUME NEW k \in DOMAIN stores[n]
      PROVE  entries[k] = stores[n][k]
  <2>1. k \in DOMAIN entries
    BY <1>2
  <2> DEFINE x == CHOOSE m \in Pair : k \in DOMAIN stores[m]
  <2>2. x \in Pair /\ k \in DOMAIN stores[x]
    OBVIOUS
  <2> HIDE DEF x
  <2>3. x = n
    BY <1>1, <2>2
  <2>4. QED
    BY <1>2, <2>1, <2>3 DEF x
<1>5. Service!half(entries, n) = [k \in DOMAIN stores[n] |-> entries[k]]
  BY <1>3 DEF Service!half
<1>6. stores[n] = [k \in DOMAIN stores[n] |-> stores[n][k]]
  BY DEF Housed
<1>7. QED
  BY <1>4, <1>5, <1>6

(* The halves before a step and after it. *)
LEMMA Halves ==
    ASSUME HomeInv, HomeInv', NEW n \in Pair
    PROVE  Service!half(table, n) = kv[n] /\ Service!half(table', n) = kv'[n]
<1>1. table = TableOf(kv) /\ table' = TableOf(kv')
  BY Zenon DEF table, TableOf
<1> DEFINE ops == OpsMade
           made == OpsMade'
<1>2. /\ \A m \in Pair : Housed(m, kv[m], ops)
      /\ \A m \in Pair : Housed(m, kv'[m], made)
  BY DEF HomeInv
<1> HIDE DEF ops, made
<1>3. QED
  BY <1>1, <1>2, HalfIsStore

(* An execution by the owner is an application of the operation. *)
LEMMA Applied ==
    ASSUME HomeInv, HomeInv', NEW n \in Pair, NEW r, NEW op, op = requests'[r].op,
           op.key \in Nat, owns(n, op),
           kv' = [kv EXCEPT ![n] = executed(@, op)],
           NEW known, outcomes' = [known EXCEPT ![r] = @ \cup {reply_of(kv[n], op)}]
    PROVE  Service!Apply(r, known)
<1>1. Service!home(op.key) = n
  BY OwnsByParity, HomeIs, ZenonT(30)
<1>2. \A m \in Pair : Service!half(table, m) = kv[m] /\ Service!half(table', m) = kv'[m]
  BY Halves
<1>3. DOMAIN kv = Pair
  BY DEF HomeInv
<1>4. kv'[n] = executed(kv[n], op) /\ \A m \in Pair \ {n} : kv'[m] = kv[m]
  BY <1>3
<1>5. /\ Service!reply_of(kv[n], op) = reply_of(kv[n], op)
      /\ Service!executed(kv[n], op) = executed(kv[n], op)
  BY ServiceStores
<1>6. /\ outcomes' = [known EXCEPT ![r] =
                        @ \cup {Service!reply_of(Service!half(table, Service!home(op.key)), op)}]
      /\ Service!half(table', Service!home(op.key)) =
            Service!executed(Service!half(table, Service!home(op.key)), op)
      /\ \A m \in Pair \ {Service!home(op.key)} :
            Service!half(table', m) = Service!half(table, m)
  BY <1>1, <1>2, <1>4, <1>5, ZenonT(30)
<1>7. QED
  BY <1>6, Zenon DEF Service!Apply

-----------------------------------------------------------------------------
(* What a client may be told: that its request failed, what an execution   *)
(* of it gave.                                                             *)
LEMMA DueReplies ==
    ASSUME NEW r, NEW reply,
           \/ reply.tag = "Err"
           \/ r \in DOMAIN requests' /\ reply \in outcomes'[r]
    PROVE  Service!due_to(r, reply)
  BY DEF Service!due_to

(* A batch of frames, each due to its client, for requests that have not   *)
(* been answered.                                                          *)
LEMMA AnswersDue ==
    ASSUME NEW m \in Nat, NEW before, Over(m, before), NEW batch, NEW to,
           answers' = answer_each(batch, to, before),
           \A b \in batch : b.receipt \in 1..m =>
               before[b.receipt] = <<>> /\ Service!due_to(b.receipt, b.reply)
    PROVE  Service!Answer(before)
<1> DEFINE mine(r) == {b \in batch : b.receipt = r /\ b.conn \in to}
<1>1. DOMAIN before = 1..m
  BY DEF Over
<1>2. /\ DOMAIN answers' = 1..m
      /\ \A r \in 1..m : answers'[r] = IF mine(r) = {} THEN before[r]
                                       ELSE Append(before[r], (CHOOSE b \in mine(r) : TRUE).reply)
  BY <1>1 DEF answer_each
<1>3. ASSUME NEW r \in 1..m
      PROVE  \/ answers'[r] = before[r]
             \/ before[r] = <<>> /\ Len(answers'[r]) = 1 /\ Service!due_to(r, answers'[r][1])
  <2>1. CASE mine(r) = {}
    BY <1>2, <2>1, ZenonT(30)
  <2>2. CASE mine(r) # {}
    <3>1. PICK b \in batch : /\ b.receipt = r
                             /\ answers'[r] = Append(before[r], b.reply)
      <4> DEFINE x == CHOOSE b \in mine(r) : TRUE
      <4>1. x \in mine(r)
        BY <2>2
      <4>2. answers'[r] = Append(before[r], x.reply)
        BY <1>2, <2>2, Zenon
      <4> HIDE DEF x
      <4>3. QED
        BY <4>1, <4>2
    <3>2. before[r] = <<>> /\ Service!due_to(r, b.reply)
      BY <3>1, Zenon
    <3>3. Append(<<>>, b.reply) = <<b.reply>>
      OBVIOUS
    <3>4. answers'[r] = <<b.reply>>
      BY <3>1, <3>2, <3>3, ZenonT(30)
    <3>5. Len(answers'[r]) = 1 /\ answers'[r][1] = b.reply
      BY <3>4
    <3>6. QED
      BY <3>2, <3>5
  <2>3. QED
    BY <2>1, <2>2, Zenon
<1>4. QED
  BY <1>1, <1>2, <1>3 DEF Service!Answer

(* Frames written in a step that asks nothing. *)
LEMMA ServedBy ==
    ASSUME PairInv, UNCHANGED <<kv, requests, outcomes>>,
           NEW n, NEW batch, NEW leaving, write_frames(n, batch, leaving, answers),
           \A b \in batch : b.receipt \in 1..Len(requests) =>
               answers[b.receipt] = <<>> /\ Service!due_to(b.receipt, b.reply)
    PROVE  Service!ServiceNext
<1>1. PICK to : answers' = answer_each(batch, to, answers)
  BY Written
<1> DEFINE m == Len(requests)
<1>2. m \in Nat /\ Over(m, answers)
  BY DEF PairInv, Histories
<1>3. \A b \in batch : b.receipt \in 1..m =>
         answers[b.receipt] = <<>> /\ Service!due_to(b.receipt, b.reply)
  OBVIOUS
<1> HIDE DEF m
<1>4. Service!Answer(answers)
  BY <1>1, <1>2, <1>3, AnswersDue, ZenonT(30)
<1>5. UNCHANGED table
  BY DEF table
<1>6. QED
  BY <1>4, <1>5, Zenon DEF Service!ServiceNext, Service!Serve

(* A step that changes neither stores nor histories. *)
LEMMA Unserved ==
    ASSUME UNCHANGED <<kv, requests, outcomes, answers>>
    PROVE  UNCHANGED Service!serviceVars
<1>1. UNCHANGED table
  BY DEF table
<1>2. QED
  BY <1>1 DEF Service!serviceVars

(* A request is made; what its client is told at once is due to it. *)
LEMMA AsksService ==
    ASSUME PairInv, TypesInv, TrafficInv, PastStays,
           NEW c \in Conn, NEW body \in Body[c], asks(c, body),
           \/ Service!Apply(Len(requests'), Append(outcomes, {}))
           \/ outcomes' = Append(outcomes, {}) /\ UNCHANGED table,
           \/ answers' = Append(answers, <<>>)
           \/ \E n, reply, leaving :
                 /\ write_frames(n, {[conn |-> c, receipt |-> Len(requests'), reply |-> reply]},
                                 leaving, Append(answers, <<>>))
                 /\ reply.tag = "Err" \/ reply \in outcomes'[Len(requests')]
    PROVE  Service!ServiceNext
<1> DEFINE sent == Append(answers, <<>>)
           m == Len(requests')
<1>1. /\ m = Len(requests) + 1 /\ m \in Nat
      /\ Over(m, requests') /\ Over(m, sent) /\ sent[m] = <<>>
  BY Asking, Zenon
<1>2. requests'[m] \in Made
  <2>1. m \in 1..Len(requests')
    BY <1>1, Asking
  <2>2. QED
    BY <2>1, MadeTyped, ZenonT(30)
<1>3. requests' = Append(requests, requests'[m])
  <2>1. PICK rec : requests' = Append(requests, rec)
    BY ZenonT(30) DEF asks
  <2>2. Len(requests) \in Nat /\ Over(Len(requests), requests)
    BY DEF PairInv, Histories
  <2>3. Append(requests, rec)[Len(requests) + 1] = rec
    BY <2>2, AppendTo
  <2>4. QED
    BY <1>1, <2>1, <2>3, ZenonT(30)
<1>4. Service!Answer(sent)
  <2>1. CASE answers' = sent
    BY <2>1, Zenon DEF Service!Answer
  <2>2. ASSUME NEW n, NEW reply, NEW leaving,
               write_frames(n, {[conn |-> c, receipt |-> m, reply |-> reply]}, leaving, sent),
               reply.tag = "Err" \/ reply \in outcomes'[m]
        PROVE  Service!Answer(sent)
    <3> DEFINE batch == {[conn |-> c, receipt |-> m, reply |-> reply]}
    <3>1. PICK to : answers' = answer_each(batch, to, sent)
      BY <2>2, Written
    <3>2. m \in DOMAIN requests'
      BY <1>1 DEF Over
    <3>3. Service!due_to(m, reply)
      BY <2>2, <3>2, DueReplies, Zenon
    <3> HIDE DEF m, sent
    <3>4. \A b \in batch : b.receipt = m /\ b.reply = reply
      OBVIOUS
    <3> HIDE DEF batch
    <3>5. \A b \in batch : b.receipt \in 1..m =>
             sent[b.receipt] = <<>> /\ Service!due_to(b.receipt, b.reply)
      BY <1>1, <3>3, <3>4, Zenon
    <3>6. QED
      BY <1>1, <3>1, <3>5, AnswersDue
  <2>3. QED
    BY <2>1, <2>2, Zenon
<1>5. requests'[m] \in [conn : Conn, node : Pair, life : 0..MaxRestarts, op : Ops]
  BY <1>2 DEF Made
<1>6. Service!Ask
  BY <1>1, <1>3, <1>4, <1>5, Zenon DEF Service!Ask
<1>7. QED
  BY <1>6, Zenon DEF Service!ServiceNext

-----------------------------------------------------------------------------
(* An operation executed where it was asked for. *)
LEMMA SendLocalServes ==
    ASSUME LinkIsFaithful, PairInv, TypesInv, HomeInv, HomeInv', TrafficInv, Moves,
           NEW c \in Conn, NEW body \in Body[c], send_local(c, body)
    PROVE  Service!ServiceNext
<1> DEFINE n == Home[c]
           op == parsed[body].op
           reply == reply_of(kv[n], op)
           m == Len(requests) + 1
<1>1. /\ asks(c, body) /\ owns(n, op)
      /\ kv' = [kv EXCEPT ![n] = executed(@, op)]
      /\ outcomes' = Append(outcomes, {reply})
      /\ write_frames(n, {[conn |-> c, receipt |-> Len(requests'), reply |-> reply]}, {},
                      Append(answers, <<>>))
  BY Zenon DEF send_local
<1>2. n \in Pair
  BY PairAssumption
<1>3. Len(requests') = m /\ Len(requests) \in Nat /\ op.key \in Nat
  <2>1. Len(requests') = Len(requests) + 1 /\ Len(requests) \in Nat /\ op \in Ops
    BY <1>1, AskingMakes, Zenon
  <2>2. op.key \in Nat
    BY <2>1 DEF LinkIsFaithful, OpsWellFormed
  <2>3. QED
    BY <2>1, <2>2
<1>4. requests'[m].op = op
  BY <1>1, AskingMakes, Zenon
<1> HIDE DEF n, op, reply
<1>5. /\ outcomes' = [Append(outcomes, {}) EXCEPT ![m] = @ \cup {reply}]
      /\ outcomes'[m] = {reply}
  <2> DEFINE l == Len(requests)
             f == Append(outcomes, {})
             g == Append(outcomes, {reply})
  <2>1. l \in Nat /\ Over(l, outcomes)
    BY <1>3 DEF TypesInv
  <2>2. g = outcomes'
    BY <1>1, Zenon
  <2> HIDE DEF l
  <2>3. Over(l + 1, f) /\ (\A i \in 1..l : f[i] = outcomes[i]) /\ f[l + 1] = {}
    BY <2>1, AppendTo
  <2>4. Over(l + 1, g) /\ (\A i \in 1..l : g[i] = outcomes[i]) /\ g[l + 1] = {reply}
    BY <2>1, AppendTo
  <2> HIDE DEF f, g
  <2>5. \A i \in 1..(l + 1) : i \in 1..l \/ i = l + 1
    BY <2>1
  <2>6. l + 1 \notin 1..l /\ l + 1 \in 1..(l + 1)
    BY <2>1
  <2>7. g = [f EXCEPT ![l + 1] = @ \cup {reply}]
    BY <2>3, <2>4, <2>5, <2>6, Zenon DEF Over
  <2>8. QED
    BY <2>2, <2>4, <2>7 DEF f, l
<1>6. Service!Apply(m, Append(outcomes, {}))
  <2>1. PICK known : known = Append(outcomes, {})
    BY ZenonT(30)
  <2>2. outcomes' = [known EXCEPT ![m] = @ \cup {reply_of(kv[n], op)}]
    BY <1>5, <2>1 DEF reply
  <2>3. PICK r : r = m
    OBVIOUS
  <2>4. PICK o : o = op
    OBVIOUS
  <2>5. /\ o = requests'[r].op /\ o.key \in Nat /\ owns(n, o)
        /\ kv' = [kv EXCEPT ![n] = executed(@, o)]
        /\ outcomes' = [known EXCEPT ![r] = @ \cup {reply_of(kv[n], o)}]
    BY <1>1, <1>3, <1>4, <2>2, <2>3, <2>4, Zenon
  <2>6. Service!Apply(r, known)
    BY <1>2, <2>5, Applied, Zenon
  <2>7. QED
    BY <2>1, <2>3, <2>6, Zenon
<1>7. PastStays
  BY HistoryStays DEF Moves
<1>8. reply \in outcomes'[Len(requests')]
  BY <1>3, <1>5
<1>9. Service!Apply(Len(requests'), Append(outcomes, {}))
  BY <1>3, <1>6, Zenon
<1>10. QED
  BY <1>1, <1>7, <1>8, <1>9, AsksService, Zenon

(* An operation forwarded, or one that could not be. *)
LEMMA SendForwardServes ==
    ASSUME PairInv, TypesInv, TrafficInv, Moves,
           NEW c \in Conn, NEW body \in Body[c], send_forward(c, body)
    PROVE  Service!ServiceNext
<1>1. /\ asks(c, body) /\ UNCHANGED kv
      /\ outcomes' = Append(outcomes, {})
      /\ \/ answers' = Append(answers, <<>>)
         \/ write_frames(Home[c], {[conn |-> c, receipt |-> Len(requests'),
                                    reply |-> Err(<<"sending">>)]}, {}, Append(answers, <<>>))
  BY Zenon DEF send_forward
<1>2. PastStays
  BY HistoryStays, ZenonT(30) DEF Moves
<1>3. UNCHANGED table
  BY <1>1 DEF table
<1>4. PICK reply : reply = Err(<<"sending">>)
  OBVIOUS
<1>5. reply.tag = "Err"
  BY <1>4 DEF Err
<1>6. \/ answers' = Append(answers, <<>>)
      \/ write_frames(Home[c], {[conn |-> c, receipt |-> Len(requests'), reply |-> reply]}, {},
                      Append(answers, <<>>))
  BY <1>1, <1>4, Zenon
<1>7. QED
  BY <1>1, <1>2, <1>3, <1>5, <1>6, AsksService, Zenon

(* A forwarded operation, executed each time it arrives: only the owner    *)
(* gets it.                                                                *)
LEMMA HandleRequestServes ==
    ASSUME LinkIsFaithful, PairInv, TypesInv, HomeInv, HomeInv', TrafficInv,
           NEW n \in Pair, NEW d \in net, handle_request(n, d, taken[n][d])
    PROVE  Service!ServiceNext
<1> DEFINE t == taken[n][d]
<1>1. t.ok /\ t.message.kind = "Request"
  BY Zenon DEF handle_request
<1>2. PICK i \in 1..MaxRequests, q \in 1..Len(requests) :
         /\ t.message = Request(i, requests[q].op) /\ d.about = q
         /\ Minted(peer(n), i, q) /\ ~owns(peer(n), requests[q].op)
  BY <1>1, RequestTaken
<1>3. PICK op : op = requests[q].op
  OBVIOUS
<1>4. t.message.op = op /\ op \in Ops
  <2>1. PICK m : m = t.message
    BY Zenon
  <2>2. m = Request(i, requests[q].op)
    BY <1>2, <2>1, Zenon
  <2>3. m.op = requests[q].op /\ requests[q].op \in Ops
    BY <2>2, RequestAsks, ZenonT(30)
  <2>4. QED
    BY <1>3, <2>1, <2>3, Zenon
<1>5. op.key \in Nat
  BY <1>4, ZenonT(30) DEF LinkIsFaithful, OpsWellFormed
<1>6. owns(n, op)
  BY <1>2, <1>3, <1>5, OneOwner
<1>7. /\ kv' = [kv EXCEPT ![n] = IF owns(n, op) THEN executed(@, op) ELSE @]
      /\ outcomes' = [outcomes EXCEPT ![q] = @ \cup
                        {IF owns(n, op) THEN reply_of(kv[n], op) ELSE NotOwner}]
      /\ UNCHANGED <<requests, answers>>
  <2>1. /\ kv' = [kv EXCEPT ![n] = IF owns(n, t.message.op) THEN executed(@, t.message.op) ELSE @]
        /\ outcomes' = [outcomes EXCEPT ![d.about] = @ \cup
             {IF owns(n, t.message.op) THEN reply_of(kv[n], t.message.op) ELSE NotOwner}]
        /\ UNCHANGED <<requests, answers>>
    BY Zenon DEF handle_request
  <2> HIDE DEF t
  <2>2. QED
    BY <1>2, <1>4, <2>1
<1>8. /\ kv' = [kv EXCEPT ![n] = executed(@, op)]
      /\ outcomes' = [outcomes EXCEPT ![q] = @ \cup {reply_of(kv[n], op)}]
  BY <1>6, <1>7
<1>9. op = requests'[q].op
  BY <1>3, <1>7
<1>10. Service!Apply(q, outcomes)
  BY <1>5, <1>6, <1>8, <1>9, Applied, ZenonT(30)
<1>11. Service!Answer(answers)
  BY <1>7, Zenon DEF Service!Answer
<1>12. q \in DOMAIN requests
  BY DEF PairInv, Histories, Over
<1>13. QED
  BY <1>7, <1>10, <1>11, <1>12, Zenon DEF Service!ServiceNext, Service!Serve

(* An answer from the peer is due to the client it is handed to: it is     *)
(* about the same request, or about one of a former life of the node.      *)
LEMMA HandleResponseServes ==
    ASSUME LinkIsFaithful, PairInv, TypesInv, TrafficInv,
           NEW n \in Pair, NEW d \in net, handle_response(n, taken[n][d])
    PROVE  Service!ServiceNext
<1> DEFINE t == taken[n][d]
           k == t.message.corr
           p == pending[n][k]
<1>1. /\ t.ok /\ t.message.kind = "Response" /\ k \in DOMAIN pending[n]
      /\ write_frames(n, {[conn |-> p.conn, receipt |-> p.receipt, reply |-> t.message.reply]},
                      {}, answers)
      /\ UNCHANGED <<kv, requests, outcomes>>
  BY Zenon DEF handle_response
<1>2. PICK i \in 1..MaxRequests, q \in 1..Len(requests) : \E reply \in outcomes[q] :
         t.message = Response(i, reply) /\ Minted(n, i, q)
  BY <1>1, ResponseTaken, Zenon
<1>3. t.message.corr = i /\ t.message.reply \in outcomes[q] /\ Minted(n, i, q)
  BY <1>2 DEF Response
<1>4. /\ p.receipt \in 1..Len(requests) /\ answers[p.receipt] = <<>>
      /\ requests[p.receipt].node = n /\ requests[p.receipt].life = life[n]
  <2> HIDE DEF k
  <2>1. k \in DOMAIN pending[n]
    BY <1>1, ZenonT(30)
  <2>2. Owed(n, p)
    BY <2>1 DEF PairInv, AllOwed
  <2>3. requests[p.receipt].node = n /\ requests[p.receipt].life = life[n]
    BY <2>1, ZenonT(30) DEF TrafficInv, EntriesCurrent
  <2> HIDE DEF p
  <2>4. QED
    BY <2>2, <2>3 DEF Owed
<1>5. Service!due_to(p.receipt, t.message.reply)
  <2> DEFINE r == p.receipt
             reply == t.message.reply
  <2>1. /\ requests[q].node = n
        /\ requests[q].life < life[n] \/ q = r
    <3>1. requests[q].life \in Int /\ life[n] \in Int
      BY DEF TrafficInv, Made, TypesInv, SixTypeOK
    <3>2. k = i /\ i \in DOMAIN pending[n] /\ r = pending[n][i].receipt
      BY <1>1, <1>3, ZenonT(30)
    <3> HIDE DEF t, k, p, r
    <3>3. QED
      BY <1>3, <3>1, <3>2 DEF Minted
  <2>2. reply \in outcomes'[q]
    BY <1>1, <1>3, ZenonT(30)
  <2>3. requests'[q].node = requests'[r].node /\ (requests'[q].life < requests'[r].life \/ q = r)
    BY <1>1, <1>4, <2>1, ZenonT(30)
  <2>4. q \in DOMAIN requests'
    BY <1>1, Zenon DEF PairInv, Histories, Over
  <2> HIDE DEF r, reply
  <2>5. Service!due_to(r, reply)
    BY <2>2, <2>3, <2>4, Zenon DEF Service!due_to
  <2>6. QED
    BY <2>5, ZenonT(30) DEF r, reply
<1> DEFINE batch == {[conn |-> p.conn, receipt |-> p.receipt, reply |-> t.message.reply]}
<1>6. \A b \in batch : b.receipt = p.receipt /\ b.reply = t.message.reply
  <2> HIDE DEF t, k, p
  <2>1. QED
    OBVIOUS
<1>7. write_frames(n, batch, {}, answers)
  BY <1>1, ZenonT(30)
<1> HIDE DEF batch, t, k, p
<1>8. \A b \in batch : b.receipt \in 1..Len(requests) =>
         answers[b.receipt] = <<>> /\ Service!due_to(b.receipt, b.reply)
  BY <1>4, <1>5, <1>6, ZenonT(30)
<1>9. QED
  BY <1>1, <1>7, <1>8, ServedBy, Zenon

(* A timeout tells the clients of the entries it removes that they failed. *)
LEMMA TickServes ==
    ASSUME PairInv, NEW n \in Pair, tick(n)
    PROVE  Service!ServiceNext
<1> DEFINE late(k) == [conn |-> pending[n][k].conn, receipt |-> pending[n][k].receipt,
                       reply |-> Err(<<"peer did not answer">>)]
<1>1. PICK last \in DOMAIN pending[n] :
         /\ write_frames(n, {late(k) : k \in expired(n, last)}, {}, answers)
         /\ UNCHANGED <<kv, requests, outcomes>>
  BY Zenon DEF tick
<1>2. expired(n, last) \subseteq DOMAIN pending[n]
  BY DEF expired
<1> DEFINE batch == {late(k) : k \in expired(n, last)}
<1>3. \A b \in batch : /\ b.reply = Err(<<"peer did not answer">>)
                       /\ \E k \in DOMAIN pending[n] : b.receipt = pending[n][k].receipt
  <2>1. \A b \in batch : \E k \in DOMAIN pending[n] : b = late(k)
    BY <1>2, Zenon
  <2>2. \A k : /\ late(k).reply = Err(<<"peer did not answer">>)
               /\ late(k).receipt = pending[n][k].receipt
    OBVIOUS
  <2> HIDE DEF late, batch
  <2>3. QED
    BY <2>1, <2>2, Zenon
<1>4. write_frames(n, batch, {}, answers)
  BY <1>1, Zenon
<1> HIDE DEF batch
<1>5. ASSUME NEW b \in batch
      PROVE  answers[b.receipt] = <<>> /\ Service!due_to(b.receipt, b.reply)
  <2>1. PICK k \in DOMAIN pending[n] : b.receipt = pending[n][k].receipt
    BY <1>3, Zenon
  <2>2. Owed(n, pending[n][k])
    BY DEF PairInv, AllOwed
  <2>4. answers[b.receipt] = <<>>
    BY <2>1, <2>2, Zenon DEF Owed
  <2>5. b.reply = Err(<<"peer did not answer">>)
    BY <1>3, ZenonT(30)
  <2>6. Err(<<"peer did not answer">>).tag = "Err"
    BY DEF Err
  <2>7. b.reply.tag = "Err"
    BY <2>5, <2>6, Zenon
  <2>3. QED
    BY <2>4, <2>7, DueReplies
<1>6. QED
  BY <1>1, <1>4, <1>5, ServedBy, ZenonT(30)

(* A restart forgets the half of the table that the node kept. *)
LEMMA RestartForgets ==
    ASSUME HomeInv, HomeInv', NEW n \in Pair, restart(n)
    PROVE  Service!ServiceNext
<1>1. /\ kv' = [kv EXCEPT ![n] = [k \in {} |-> 0]]
      /\ UNCHANGED <<requests, outcomes, answers>>
  BY Zenon DEF restart
<1>2. \A m \in Pair : Service!half(table, m) = kv[m] /\ Service!half(table', m) = kv'[m]
  BY Halves
<1>3. DOMAIN kv = Pair
  BY DEF HomeInv
<1>4. DOMAIN kv'[n] = {} /\ \A m \in Pair \ {n} : kv'[m] = kv[m]
  BY <1>1, <1>3
<1>5. Service!Forget(n)
  BY <1>1, <1>2, <1>4 DEF Service!Forget
<1>6. QED
  BY <1>5, Zenon DEF Service!ServiceNext

(* Every step of the pair is a step of the service, or changes nothing     *)
(* that its clients can see.                                               *)
LEMMA ServiceStep ==
    ASSUME LinkIsFaithful, PairInv, TypesInv, HomeInv, HomeInv', TrafficInv, [SixNext]_sixVars
    PROVE  [Service!ServiceNext]_(Service!serviceVars)
<1> DEFINE Goal == Service!ServiceNext \/ UNCHANGED Service!serviceVars
<1>1. UNCHANGED <<kv, requests, outcomes, answers>> => Goal
  BY Unserved
<1>2. ASSUME UNCHANGED sixVars PROVE Goal
  <2>1. UNCHANGED <<kv, requests, outcomes, answers>>
    BY <1>2, ZenonT(30) DEF sixVars
  <2>2. QED
    BY <1>1, <2>1, Zenon
<1>3. ASSUME NEW n, NEW batch, \A b \in batch : b.receipt = 0, NEW leaving,
             write_frames(n, batch, leaving, answers), UNCHANGED <<kv, requests, outcomes>>
      PROVE  Goal
  <2>1. \A b \in batch : b.receipt \notin 1..Len(requests)
    BY <1>3 DEF PairInv, Histories
  <2>2. QED
    BY <1>3, <2>1, ServedBy
<1>4. ASSUME NEW c \in Conn, client_up(c) \/ hang_up(c) \/ client_down(c) PROVE Goal
  <2>1. client_up(c) \/ client_down(c) => UNCHANGED <<kv, requests, outcomes, answers>>
    BY Zenon DEF client_up, client_down
  <2>2. hang_up(c) => UNCHANGED <<kv, requests, outcomes, answers>>
    BY DEF hang_up, nodeVars, histVars
  <2> HIDE DEF Goal
  <2>3. QED
    BY <1>1, <1>4, <2>1, <2>2, Zenon
<1>5. ASSUME NEW c \in Conn, NEW command \in Command, other_frame(c, command) PROVE Goal
  <2>1. PICK batch, leaving :
          /\ batch \subseteq {[conn |-> c, receipt |-> 0, reply |-> Nil]}
          /\ write_frames(Home[c], batch, leaving, answers)
          /\ UNCHANGED <<kv, requests, outcomes>>
    BY <1>5, Zenon DEF other_frame
  <2>2. \A b \in batch : b.receipt = 0
    BY <2>1
  <2> HIDE DEF Goal
  <2>3. QED
    BY <1>3, <2>1, <2>2
<1>6. ASSUME NEW c \in Conn, NEW body \in Body[c], send_unkeyed(c, body) PROVE Goal
  <2>1. PICK batch :
          /\ batch = {[conn |-> c, receipt |-> 0, reply |-> Nil]}
          /\ write_frames(Home[c], batch, {}, answers)
          /\ UNCHANGED <<kv, requests, outcomes>>
    BY <1>6, Zenon DEF send_unkeyed
  <2>2. \A b \in batch : b.receipt = 0
    BY <2>1
  <2> HIDE DEF Goal
  <2>3. QED
    BY <1>3, <2>1, <2>2
<1>7. ASSUME SixNext PROVE Goal
  <2>1. Moves
    BY <1>7, StepsMove
  <2>2. ASSUME NEW c \in Conn, NEW body \in Body[c], send_local(c, body) \/ send_forward(c, body)
        PROVE  Goal
    BY <2>1, <2>2, SendLocalServes, SendForwardServes, Zenon
  <2>3. ASSUME NEW n \in Pair, NEW d \in net, NEW t, t = taken[n][d],
               handle_request(n, d, t) \/ handle_response(n, t)
        PROVE  Goal
    BY <2>3, HandleRequestServes, HandleResponseServes, Zenon
  <2>4. ASSUME NEW n, NEW t, ignore_datagram(n, t) PROVE Goal
    <3>1. UNCHANGED <<kv, requests, outcomes, answers>>
      BY <2>4, Zenon DEF ignore_datagram, sixVars
    <3>2. QED
      BY <1>1, <3>1, Zenon
  <2>5. ASSUME NEW n \in Pair, unblock(n) PROVE Goal
    <3>1. UNCHANGED <<kv, requests, outcomes, answers>>
      BY <2>5, Zenon DEF unblock
    <3>2. QED
      BY <1>1, <3>1, Zenon
  <2>6. ASSUME NEW n \in Pair, tick(n) \/ restart(n) PROVE Goal
    BY <2>6, TickServes, RestartForgets, Zenon
  <2> HIDE DEF Goal
  <2>7. QED
    <3>1. ASSUME NEW c \in Conn,
                 \/ client_up(c) \/ hang_up(c) \/ client_down(c)
                 \/ \E command \in Command : other_frame(c, command)
                 \/ \E body \in Body[c] :
                       send_unkeyed(c, body) \/ send_local(c, body) \/ send_forward(c, body)
          PROVE  Goal
      BY <1>4, <1>5, <1>6, <2>2, <3>1, Zenon
    <3>2. ASSUME NEW n \in Pair,
                 \/ \E d \in net : \E t \in {taken[n][d]} :
                       handle_request(n, d, t) \/ handle_response(n, t) \/ ignore_datagram(n, t)
                 \/ unblock(n) \/ tick(n) \/ restart(n)
          PROVE  Goal
      BY <2>3, <2>4, <2>5, <2>6, <3>2, Zenon
    <3>3. QED
      BY <1>7, <3>1, <3>2, Zenon DEF SixNext
<1>8. Goal
  BY <1>2, <1>7
<1>9. QED
  BY <1>8

(* Under these conditions the pair implements the service. *)
LEMMA ServiceSteps ==
    ASSUME LinkIsFaithful
    PROVE  SixSpec => ImplementsKvService
<1>1. SixInit => Service!ServiceInit
  <2> SUFFICES ASSUME SixInit PROVE Service!ServiceInit
    OBVIOUS
  <2>1. kv = [n \in Pair |-> [k \in {} |-> 0]] /\ requests = <<>> /\ outcomes = <<>>
        /\ answers = <<>>
    BY DEF SixInit
  <2>2. UNION {DOMAIN kv[n] : n \in Pair} = {}
    BY <2>1
  <2>3. table = [k \in {} |-> 0]
    BY <2>2 DEF table
  <2>4. QED
    BY <2>1, <2>3 DEF Service!ServiceInit
<1>2. QED
  BY <1>1, ServiceStep, PairInvHolds, TypesInvHolds, HomeInvHolds, TrafficInvHolds, PTL
  DEF SixSpec, ImplementsKvService, Service!ServiceSpec

=============================================================================
