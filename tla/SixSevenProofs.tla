--------------------------- MODULE SixSevenProofs ---------------------------
(***************************************************************************)
(* The tables of a pair of six-seven-servers, for any clients, requests,   *)
(* datagrams and restarts: what is pending, the types, and, over a link    *)
(* that hands over what was sent (LinkIsFaithful), where keys are stored.  *)
(***************************************************************************)
EXTENDS SixSeven, FiniteSetTheorems, TLAPS

(* The provers get time enough on a slow machine. *)
USE SMTT(30), ZenonT(30)

(* The inductive invariant.  Histories and tables are functions on the     *)
(* right domains; a request has been answered at most once; an entry is    *)
(* about a request of a client that is still there and has been told       *)
(* nothing; and no two entries are about the same request.                 *)
Over(n, f) == f = [i \in 1..n |-> f[i]]

Once(s) == s = <<>> \/ s = <<s[1]>>

Histories ==
    /\ Len(requests) \in Nat
    /\ Over(Len(requests), requests)
    /\ Over(Len(requests), answers)
    /\ \A r \in 1..Len(requests) : Once(answers[r])

Shapes ==
    /\ pending = [n \in Pair |-> pending[n]]
    /\ link = [c \in Conn |-> link[c]]

Owed(n, p) ==
    /\ p.conn \in Conn /\ Home[p.conn] = n /\ link[p.conn] \in {"up", "gone"}
    /\ p.receipt \in 1..Len(requests)
    /\ requests[p.receipt].conn = p.conn
    /\ answers[p.receipt] = <<>>

AllOwed == \A n \in Pair : \A c \in DOMAIN pending[n] : Owed(n, pending[n][c])

Distinct ==
    \A n, m \in Pair : \A c \in DOMAIN pending[n], d \in DOMAIN pending[m] :
        pending[n][c].receipt = pending[m][d].receipt => n = m /\ c = d

PairInv == Histories /\ Shapes /\ AllOwed /\ Distinct

-----------------------------------------------------------------------------
(* Append to a history of n elements. *)
LEMMA AppendTo ==
    ASSUME NEW n \in Nat, NEW f, Over(n, f), NEW e
    PROVE  /\ Len(f) = n /\ Len(Append(f, e)) = n + 1
           /\ Over(n + 1, Append(f, e))
           /\ \A i \in 1..n : Append(f, e)[i] = f[i]
           /\ Append(f, e)[n + 1] = e
<1> DEFINE S == {f[i] : i \in 1..n} \cup {e}
<1>1. f \in [1..n -> S]
  BY DEF Over
<1>2. f \in Seq(S) /\ Len(f) = n
  BY <1>1
<1>3. e \in S
  OBVIOUS
<1> HIDE DEF S
<1>4. QED
  BY <1>2, <1>3 DEF Over

(* The first answer to a request makes a history of one. *)
LEMMA FirstAnswer ==
    ASSUME NEW s, s = <<>>, NEW x
    PROVE  Once(Append(s, x))
<1>1. s \in Seq({x}) /\ Len(s) = 0
  OBVIOUS
<1>2. Append(s, x) \in Seq({x}) /\ Len(Append(s, x)) = 1 /\ Append(s, x)[1] = x
  BY <1>1
<1>3. Append(s, x) = <<x>>
  BY <1>2
<1>4. QED
  BY <1>3 DEF Once

(* Writing a batch of answers to requests that had none (reply_to_client). *)
LEMMA Answering ==
    ASSUME NEW n \in Nat, NEW sent, Over(n, sent),
           \A r \in 1..n : Once(sent[r]),
           NEW batch, NEW to,
           \A b \in batch : b.receipt \in 1..n => sent[b.receipt] = <<>>,
           NEW after, after = answer_each(batch, to, sent)
    PROVE  /\ Over(n, after)
           /\ \A r \in 1..n : Once(after[r])
           /\ \A r \in 1..n : (\A b \in batch : b.receipt # r) => after[r] = sent[r]
<1> DEFINE mine(r) == {b \in batch : b.receipt = r /\ b.conn \in to}
<1>1. DOMAIN sent = 1..n
  BY DEF Over
<1>2. /\ Over(n, after)
      /\ \A r \in 1..n : after[r] = IF mine(r) = {} THEN sent[r]
                                    ELSE Append(sent[r], (CHOOSE b \in mine(r) : TRUE).reply)
  BY <1>1 DEF answer_each, Over
<1>3. ASSUME NEW r \in 1..n PROVE Once(after[r])
  <2>1. CASE mine(r) = {}
    BY <1>2, <2>1
  <2>2. CASE mine(r) # {}
    <3>1. sent[r] = <<>>
      BY <2>2
    <3>2. PICK x : after[r] = Append(sent[r], x)
      BY <1>2, <2>2, Zenon
    <3>3. QED
      BY <3>1, <3>2, FirstAnswer, Zenon
  <2>3. QED
    BY <2>1, <2>2
<1>4. ASSUME NEW r \in 1..n, \A b \in batch : b.receipt # r PROVE after[r] = sent[r]
  <2>1. mine(r) = {}
    BY <1>4
  <2>2. QED
    BY <1>2, <2>1
<1>5. QED
  BY <1>2, <1>3, <1>4

(* The same, for the answers written so far. *)
LEMMA AnsweringOwed ==
    ASSUME Histories, NEW batch, NEW to,
           \A b \in batch : b.receipt \in 1..Len(requests) => answers[b.receipt] = <<>>,
           answers' = answer_each(batch, to, answers)
    PROVE  /\ Over(Len(requests), answers')
           /\ \A r \in 1..Len(requests) : Once(answers'[r])
           /\ \A r \in 1..Len(requests) :
                 (\A b \in batch : b.receipt # r) => answers'[r] = answers[r]
<1> DEFINE n == Len(requests)
<1>1. n \in Nat /\ Over(n, answers) /\ \A r \in 1..n : Once(answers[r])
  BY DEF Histories
<1>2. \A b \in batch : b.receipt \in 1..n => answers[b.receipt] = <<>>
  OBVIOUS
<1> HIDE DEF n
<1>3. /\ Over(n, answers')
      /\ \A r \in 1..n : Once(answers'[r])
      /\ \A r \in 1..n : (\A b \in batch : b.receipt # r) => answers'[r] = answers[r]
  BY <1>1, <1>2, Answering
<1>4. QED
  BY <1>3 DEF n

(* write_frame changes answers by such a batch, for those it reached. *)
LEMMA Written ==
    ASSUME NEW n, NEW batch, NEW leaving, NEW sent, write_frames(n, batch, leaving, sent)
    PROVE  \E to : answers' = answer_each(batch, to, sent)
  BY DEF write_frames

-----------------------------------------------------------------------------
(* A step that asks nothing and adds no entry keeps the invariant, if the  *)
(* entries it leaves stay owed.                                            *)
LEMMA Shrinking ==
    ASSUME PairInv, UNCHANGED requests, Shapes',
           \A n \in Pair : \A c \in DOMAIN pending'[n] :
               /\ c \in DOMAIN pending[n] /\ pending'[n][c] = pending[n][c]
               /\ link'[pending[n][c].conn] \in {"up", "gone"}
               /\ answers'[pending[n][c].receipt] = answers[pending[n][c].receipt],
           Over(Len(requests), answers'),
           \A r \in 1..Len(requests) : Once(answers'[r])
    PROVE  PairInv'
<1>1. Histories'
  BY DEF PairInv, Histories
<1>2. AllOwed'
  BY DEF PairInv, AllOwed, Owed
<1>3. Distinct'
  BY DEF PairInv, Distinct
<1>4. QED
  BY <1>1, <1>2, <1>3 DEF PairInv

(* A step that leaves requests, answers and pending as they are. *)
LEMMA LinksOnly ==
    ASSUME PairInv, UNCHANGED <<requests, answers, pending>>,
           link' = [c \in Conn |-> link'[c]],
           \A c \in Conn : link[c] \in {"up", "gone"} => link'[c] \in {"up", "gone"}
    PROVE  PairInv'
<1>1. Shapes'
  BY DEF PairInv, Shapes
<1>2. \A n \in Pair : \A c \in DOMAIN pending'[n] :
               /\ c \in DOMAIN pending[n] /\ pending'[n][c] = pending[n][c]
               /\ link'[pending[n][c].conn] \in {"up", "gone"}
               /\ answers'[pending[n][c].receipt] = answers[pending[n][c].receipt]
  BY DEF PairInv, AllOwed, Owed
<1>3. Over(Len(requests), answers')
  BY DEF PairInv, Histories
<1>4. \A r \in 1..Len(requests) : Once(answers'[r])
  BY DEF PairInv, Histories
<1>5. QED
  BY <1>1, <1>2, <1>3, <1>4, Shrinking

(* A step that changes none of the four. *)
LEMMA Untouched ==
    ASSUME PairInv, UNCHANGED <<requests, answers, pending, link>>
    PROVE  PairInv'
  BY LinksOnly DEF PairInv, Shapes

(* A step that settles the entries corrs of a node, and answers at most    *)
(* their requests: the Response branch of handle_datagram, and Tick.       *)
LEMMA Settling ==
    ASSUME PairInv, NEW n \in Pair, NEW corrs, corrs \subseteq DOMAIN pending[n],
           pending' = [pending EXCEPT ![n] = settled(@, corrs)],
           NEW batch,
           \A b \in batch : \E c \in corrs : b.receipt = pending[n][c].receipt,
           NEW leaving, write_frames(n, batch, leaving, answers),
           UNCHANGED <<requests, link>>
    PROVE  PairInv'
<1>1. \A b \in batch : b.receipt \in 1..Len(requests) => answers[b.receipt] = <<>>
  BY DEF PairInv, AllOwed, Owed
<1>2. PICK to : answers' = answer_each(batch, to, answers)
  BY Written
<1>3. /\ Over(Len(requests), answers')
      /\ \A r \in 1..Len(requests) : Once(answers'[r])
      /\ \A r \in 1..Len(requests) : (\A b \in batch : b.receipt # r) => answers'[r] = answers[r]
  BY <1>1, <1>2, AnsweringOwed DEF PairInv
<1>4. DOMAIN pending = Pair
  BY DEF PairInv, Shapes
<1>5. Shapes'
  BY <1>4 DEF PairInv, Shapes
<1>6. ASSUME NEW m \in Pair, NEW c \in DOMAIN pending'[m]
      PROVE  /\ c \in DOMAIN pending[m] /\ pending'[m][c] = pending[m][c]
             /\ ~(m = n /\ c \in corrs)
  BY <1>4 DEF settled
<1>7. ASSUME NEW m \in Pair, NEW c \in DOMAIN pending'[m]
      PROVE  /\ link'[pending[m][c].conn] \in {"up", "gone"}
             /\ answers'[pending[m][c].receipt] = answers[pending[m][c].receipt]
  <2>1. c \in DOMAIN pending[m] /\ ~(m = n /\ c \in corrs)
    BY <1>6
  <2>2. Owed(m, pending[m][c])
    BY <2>1 DEF PairInv, AllOwed
  <2>3. \A b \in batch : b.receipt # pending[m][c].receipt
    BY <2>1 DEF PairInv, Distinct
  <2>4. QED
    BY <1>3, <2>2, <2>3 DEF Owed
<1>8. QED
  BY <1>3, <1>5, <1>6, <1>7, Shrinking

(* A frame that is no numbered request is answered with receipt 0, which   *)
(* no history records.                                                     *)
LEMMA Unnumbered ==
    ASSUME PairInv, NEW n \in Pair, NEW batch, \A b \in batch : b.receipt = 0,
           NEW leaving, write_frames(n, batch, leaving, answers),
           UNCHANGED <<requests, link, pending>>
    PROVE  PairInv'
<1>0. /\ Len(requests) \in Nat
      /\ Over(Len(requests), answers)
      /\ \A r \in 1..Len(requests) : Once(answers[r])
  BY DEF PairInv, Histories
<1>1. \A b \in batch : b.receipt \notin 1..Len(requests)
  BY <1>0
<1>2. PICK to : answers' = answer_each(batch, to, answers)
  BY Written
<1>3. /\ Over(Len(requests), answers')
      /\ \A r \in 1..Len(requests) : (\A b \in batch : b.receipt # r) => answers'[r] = answers[r]
  BY <1>1, <1>2, AnsweringOwed DEF PairInv
<1>4. answers' = answers
  BY <1>0, <1>1, <1>3 DEF Over
<1>5. QED
  BY <1>4, LinksOnly DEF PairInv, Shapes

-----------------------------------------------------------------------------
(* A new request: the histories grow by one, and only the new request may  *)
(* get an answer or an entry.                                              *)
LEMMA Asking ==
    ASSUME PairInv, NEW c \in Conn, NEW body, asks(c, body)
    PROVE  /\ Len(requests) + 1 \in Nat /\ Len(requests') = Len(requests) + 1
           /\ Over(Len(requests) + 1, requests')
           /\ \A i \in 1..Len(requests) : requests'[i] = requests[i]
           /\ requests'[Len(requests) + 1].conn = c
           /\ Over(Len(requests) + 1, Append(answers, <<>>))
           /\ \A i \in 1..(Len(requests) + 1) : Once(Append(answers, <<>>)[i])
           /\ \A i \in 1..Len(requests) : Append(answers, <<>>)[i] = answers[i]
           /\ Append(answers, <<>>)[Len(requests) + 1] = <<>>
<1>1. PICK rec : requests' = Append(requests, rec) /\ rec.conn = c
  BY DEF asks
<1>2. /\ Len(requests) \in Nat
      /\ Over(Len(requests), requests)
      /\ Over(Len(requests), answers)
      /\ \A i \in 1..Len(requests) : Once(answers[i])
  BY DEF PairInv, Histories
<1>3. /\ Len(requests') = Len(requests) + 1
      /\ Over(Len(requests) + 1, requests')
      /\ \A i \in 1..Len(requests) : requests'[i] = requests[i]
      /\ requests'[Len(requests) + 1] = rec
  BY <1>1, <1>2, AppendTo
<1>4. /\ Over(Len(requests) + 1, Append(answers, <<>>))
      /\ \A i \in 1..Len(requests) : Append(answers, <<>>)[i] = answers[i]
      /\ Append(answers, <<>>)[Len(requests) + 1] = <<>>
  BY <1>2, AppendTo
<1>5. \A i \in 1..(Len(requests) + 1) : Once(Append(answers, <<>>)[i])
  <2>1. ASSUME NEW i \in 1..(Len(requests) + 1) PROVE Once(Append(answers, <<>>)[i])
    <3>1. i \in 1..Len(requests) \/ i = Len(requests) + 1
      BY <1>2
    <3>2. CASE i \in 1..Len(requests)
      <4>1. Once(answers[i]) /\ Append(answers, <<>>)[i] = answers[i]
        BY <1>2, <1>4, <3>2, Zenon
      <4>2. QED
        BY <4>1, Zenon
    <3>3. CASE i = Len(requests) + 1
      BY <1>4, <3>3, Zenon DEF Once
    <3>4. QED
      BY <3>1, <3>2, <3>3, Zenon
  <2>2. QED
    BY <2>1, Zenon
<1>6. Len(requests) + 1 \in Nat /\ requests'[Len(requests) + 1].conn = c
  BY <1>1, <1>2, <1>3
<1>7. QED
  BY <1>3, <1>4, <1>5, <1>6, Zenon

(* Every entry that was owed stays owed when a request is made and nobody  *)
(* else is answered.                                                       *)
LEMMA Growing ==
    ASSUME PairInv, NEW c \in Conn, NEW body, asks(c, body), UNCHANGED link,
           Over(Len(requests) + 1, answers'),
           \A i \in 1..(Len(requests) + 1) : Once(answers'[i]),
           \A i \in 1..Len(requests) : answers'[i] = answers[i]
    PROVE  /\ Histories'
           /\ \A n \in Pair : \A k \in DOMAIN pending[n] : \A p :
                 p = pending[n][k] =>
                    /\ p.conn \in Conn /\ Home[p.conn] = n
                    /\ link'[p.conn] \in {"up", "gone"}
                    /\ p.receipt \in 1..Len(requests) /\ p.receipt \in 1..Len(requests')
                    /\ requests'[p.receipt].conn = p.conn
                    /\ answers'[p.receipt] = <<>>
<1>1. Histories'
  BY Asking DEF Histories
<1>2. ASSUME NEW n \in Pair, NEW k \in DOMAIN pending[n], NEW p, p = pending[n][k]
      PROVE  /\ p.conn \in Conn /\ Home[p.conn] = n
             /\ link'[p.conn] \in {"up", "gone"}
             /\ p.receipt \in 1..Len(requests) /\ p.receipt \in 1..Len(requests')
             /\ requests'[p.receipt].conn = p.conn
             /\ answers'[p.receipt] = <<>>
  <2>1. Owed(n, p)
    BY <1>2 DEF PairInv, AllOwed
  <2>2. p.receipt \in 1..Len(requests)
    BY <2>1 DEF Owed
  <2>3. /\ p.receipt \in 1..Len(requests')
        /\ requests'[p.receipt] = requests[p.receipt]
        /\ answers'[p.receipt] = answers[p.receipt]
    <3>1. /\ Len(requests) \in Nat /\ Len(requests') = Len(requests) + 1
          /\ \A i \in 1..Len(requests) : requests'[i] = requests[i]
      BY Asking DEF PairInv, Histories
    <3>2. QED
      BY <2>2, <3>1
  <2>4. QED
    BY <2>1, <2>2, <2>3 DEF Owed
<1>3. QED
  BY <1>1, <1>2

(* A request that is answered in the step that makes it. *)
LEMMA AnsweredAtOnce ==
    ASSUME PairInv, NEW c \in Conn, NEW body, asks(c, body), UNCHANGED <<link, pending>>,
           NEW n \in Pair, NEW batch, \A b \in batch : b.receipt = Len(requests'),
           NEW leaving, write_frames(n, batch, leaving, Append(answers, <<>>))
    PROVE  PairInv'
<1> DEFINE sent == Append(answers, <<>>)
           r == Len(requests) + 1
<1>1. /\ r \in Nat /\ Len(requests') = r
      /\ Over(r, sent)
      /\ \A i \in 1..r : Once(sent[i])
      /\ \A i \in 1..Len(requests) : sent[i] = answers[i]
      /\ sent[r] = <<>>
  BY Asking, Zenon
<1>2. PICK to : answers' = answer_each(batch, to, sent)
  BY Written
<1> HIDE DEF sent
<1>3. /\ Over(r, answers')
      /\ \A i \in 1..r : Once(answers'[i])
      /\ \A i \in 1..r : (\A b \in batch : b.receipt # i) => answers'[i] = sent[i]
  BY <1>1, <1>2, Answering
<1>4. \A i \in 1..Len(requests) : answers'[i] = answers[i]
  <2>1. Len(requests) \in Nat
    BY DEF PairInv, Histories
  <2>2. ASSUME NEW i \in 1..Len(requests) PROVE answers'[i] = answers[i]
    <3>1. i \in 1..r /\ i # r
      BY <2>1
    <3>2. \A b \in batch : b.receipt # i
      BY <1>1, <3>1
    <3>3. QED
      BY <1>1, <1>3, <3>1, <3>2
  <2>3. QED
    BY <2>2
<1>5. /\ Histories'
      /\ \A m \in Pair : \A k \in DOMAIN pending[m] : \A p :
            p = pending[m][k] =>
               /\ p.conn \in Conn /\ Home[p.conn] = m
               /\ link'[p.conn] \in {"up", "gone"}
               /\ p.receipt \in 1..Len(requests')
               /\ requests'[p.receipt].conn = p.conn
               /\ answers'[p.receipt] = <<>>
  BY <1>3, <1>4, Growing
<1>6. AllOwed'
  BY <1>5 DEF AllOwed, Owed
<1>7. QED
  BY <1>5, <1>6 DEF PairInv, Shapes, Distinct

(* send_forward. *)
LEMMA SendForwardStep ==
    ASSUME PairInv, NEW c \in Conn, NEW body, send_forward(c, body)
    PROVE  PairInv'
<1> DEFINE n == Home[c]
           r == Len(requests) + 1
           entry == [conn |-> c, receipt |-> r]
           corr == mint(n)
<1>1. n \in Pair /\ asks(c, body) /\ UNCHANGED link
  BY PairAssumption DEF send_forward
<1>2. r \in Nat /\ Len(requests') = r
  BY <1>1, Asking
<1>3. CASE /\ pending' = [pending EXCEPT ![n] = insert(@, corr, entry)]
           /\ answers' = Append(answers, <<>>)
  <2>1. /\ Over(r, answers')
        /\ \A i \in 1..r : Once(answers'[i])
        /\ \A i \in 1..Len(requests) : answers'[i] = answers[i]
        /\ answers'[r] = <<>>
        /\ requests'[r].conn = c
    BY <1>1, <1>3, Asking, Zenon
  <2>2. /\ Histories'
        /\ \A m \in Pair : \A k \in DOMAIN pending[m] : \A p :
              p = pending[m][k] =>
                 /\ p.conn \in Conn /\ Home[p.conn] = m
                 /\ link'[p.conn] \in {"up", "gone"}
                 /\ p.receipt \in 1..Len(requests) /\ p.receipt \in 1..Len(requests')
                 /\ requests'[p.receipt].conn = p.conn
                 /\ answers'[p.receipt] = <<>>
    BY <1>1, <2>1, Growing
  <2>3. DOMAIN pending = Pair
    BY DEF PairInv, Shapes
  <2>4. ASSUME NEW m \in Pair, NEW k \in DOMAIN pending'[m]
        PROVE  \/ m = n /\ k = corr /\ pending'[m][k] = entry
               \/ /\ ~(m = n /\ k = corr)
                  /\ k \in DOMAIN pending[m] /\ pending'[m][k] = pending[m][k]
    BY <1>3, <2>3 DEF insert
  <2>5. Shapes'
    BY <1>1, <1>3, <2>3 DEF PairInv, Shapes
  <2>6. link[c] \in {"up", "gone"}
    BY <1>1 DEF asks
  <2>7. ASSUME NEW m \in Pair, NEW k \in DOMAIN pending'[m] PROVE Owed(m, pending[m][k])'
    <3>1. CASE m = n /\ k = corr /\ pending'[m][k] = entry
      BY <1>1, <1>2, <2>1, <2>6, <3>1 DEF Owed
    <3>2. CASE k \in DOMAIN pending[m] /\ pending'[m][k] = pending[m][k]
      BY <2>2, <3>2 DEF Owed
    <3>3. QED
      BY <2>4, <3>1, <3>2
  <2>8. ASSUME NEW m \in Pair, NEW k \in DOMAIN pending'[m]
        PROVE  \/ m = n /\ k = corr /\ pending'[m][k].receipt = r
               \/ /\ ~(m = n /\ k = corr)
                  /\ k \in DOMAIN pending[m]
                  /\ pending'[m][k].receipt = pending[m][k].receipt
                  /\ pending'[m][k].receipt \in 1..Len(requests)
    BY <2>2, <2>4
  <2>9. r \notin 1..Len(requests)
    BY DEF PairInv, Histories
  <2>10. Distinct'
    BY <2>8, <2>9 DEF PairInv, Distinct
  <2>11. QED
    BY <2>2, <2>5, <2>7, <2>10 DEF PairInv, AllOwed
<1>4. CASE /\ write_frames(n, {[conn |-> c, receipt |-> r, reply |-> Err(<<"sending">>)]},
                           {}, Append(answers, <<>>))
           /\ UNCHANGED pending
  BY <1>1, <1>2, <1>4, AnsweredAtOnce
<1>5. QED
  BY <1>2, <1>3, <1>4 DEF send_forward

(* ClientDown: the entries of the connection go with it. *)
LEMMA ClientDownStep ==
    ASSUME PairInv, NEW c \in Conn, client_down(c)
    PROVE  PairInv'
<1> DEFINE n == Home[c]
<1>1. n \in Pair /\ DOMAIN pending = Pair /\ DOMAIN link = Conn
  BY PairAssumption DEF PairInv, Shapes
<1>2. /\ pending' = [pending EXCEPT ![n] = retained(@, c)]
      /\ link' = [link EXCEPT ![c] = "down"] /\ UNCHANGED <<requests, answers>>
  BY DEF client_down
<1>3. Shapes'
  BY <1>1, <1>2 DEF PairInv, Shapes
<1>4. ASSUME NEW m \in Pair, NEW k \in DOMAIN pending'[m]
      PROVE  /\ k \in DOMAIN pending[m] /\ pending'[m][k] = pending[m][k]
             /\ m = n => pending[m][k].conn # c
  BY <1>1, <1>2 DEF retained
<1>5. ASSUME NEW m \in Pair, NEW k \in DOMAIN pending'[m]
      PROVE  link'[pending[m][k].conn] \in {"up", "gone"}
  <2>1. k \in DOMAIN pending[m] /\ (m = n => pending[m][k].conn # c)
    BY <1>4
  <2>2. Owed(m, pending[m][k])
    BY <2>1 DEF PairInv, AllOwed
  <2>3. QED
    BY <1>1, <1>2, <2>1, <2>2 DEF Owed
<1>6. /\ Over(Len(requests), answers')
      /\ \A r \in 1..Len(requests) : Once(answers'[r])
  BY <1>2 DEF PairInv, Histories
<1>7. QED
  BY <1>2, <1>3, <1>4, <1>5, <1>6, Shrinking

(* A restart forgets the entries of the node, and only its connections. *)
LEMMA RestartStep ==
    ASSUME PairInv, NEW n \in Pair, restart(n)
    PROVE  PairInv'
<1>1. DOMAIN pending = Pair /\ DOMAIN link = Conn
  BY DEF PairInv, Shapes
<1>2. /\ pending' = [pending EXCEPT ![n] = [c \in {} |-> 0]]
      /\ link' = [c \in Conn |-> IF Home[c] = n THEN "none" ELSE link[c]]
      /\ UNCHANGED <<requests, answers>>
  BY DEF restart
<1>3. Shapes'
  BY <1>1, <1>2 DEF PairInv, Shapes
<1>4. ASSUME NEW m \in Pair, NEW k \in DOMAIN pending'[m]
      PROVE  m # n /\ k \in DOMAIN pending[m] /\ pending'[m][k] = pending[m][k]
  BY <1>1, <1>2
<1>5. ASSUME NEW m \in Pair, NEW k \in DOMAIN pending'[m]
      PROVE  link'[pending[m][k].conn] \in {"up", "gone"}
  <2>1. m # n /\ Owed(m, pending[m][k])
    BY <1>4 DEF PairInv, AllOwed
  <2>2. QED
    BY <1>2, <2>1 DEF Owed
<1>6. /\ Over(Len(requests), answers')
      /\ \A r \in 1..Len(requests) : Once(answers'[r])
  BY <1>2 DEF PairInv, Histories
<1>7. QED
  BY <1>2, <1>3, <1>4, <1>5, <1>6, Shrinking

(* Every frame and event of a client. *)
LEMMA ClientStep ==
    ASSUME PairInv, NEW c \in Conn,
           \/ client_up(c) \/ hang_up(c) \/ client_down(c)
           \/ \E command \in Command : other_frame(c, command)
           \/ \E body \in Body[c] :
                 send_unkeyed(c, body) \/ send_local(c, body) \/ send_forward(c, body)
    PROVE  PairInv'
<1>1. Home[c] \in Pair /\ DOMAIN link = Conn
  BY PairAssumption DEF PairInv, Shapes
<1>2. CASE client_up(c)
  <2>1. link' = [link EXCEPT ![c] = "up"] /\ UNCHANGED <<requests, answers, pending>>
    BY <1>2 DEF client_up
  <2>2. QED
    BY <1>1, <2>1, LinksOnly, Zenon
<1>3. CASE hang_up(c)
  <2>1. link' = [link EXCEPT ![c] = "gone"] /\ UNCHANGED <<requests, answers, pending>>
    BY <1>3 DEF hang_up, nodeVars, histVars
  <2>2. QED
    BY <1>1, <2>1, LinksOnly, Zenon
<1>4. CASE client_down(c)
  BY <1>4, ClientDownStep
<1>5. ASSUME NEW command \in Command, other_frame(c, command) PROVE PairInv'
  <2>1. PICK batch \in {{}, {[conn |-> c, receipt |-> 0, reply |-> Nil]}}, leaving \in {{}, {c}} :
           write_frames(Home[c], batch, leaving, answers)
    BY <1>5 DEF other_frame
  <2>2. UNCHANGED <<requests, link, pending>>
    BY <1>5 DEF other_frame
  <2>3. \A b \in batch : b.receipt = 0
    OBVIOUS
  <2>4. QED
    BY <1>1, <2>1, <2>2, <2>3, Unnumbered
<1>6. ASSUME NEW body \in Body[c], send_unkeyed(c, body) PROVE PairInv'
  <2> DEFINE batch == {[conn |-> c, receipt |-> 0, reply |-> Nil]}
  <2>1. write_frames(Home[c], batch, {}, answers) /\ UNCHANGED <<requests, link, pending>>
    BY <1>6 DEF send_unkeyed
  <2>2. \A b \in batch : b.receipt = 0
    OBVIOUS
  <2> HIDE DEF batch
  <2>3. QED
    BY <1>1, <2>1, <2>2, Unnumbered
<1>7. ASSUME NEW body \in Body[c], send_local(c, body) PROVE PairInv'
  <2> DEFINE batch == {[conn |-> c, receipt |-> Len(requests'),
                        reply |-> reply_of(kv[Home[c]], parsed[body].op)]}
  <2>1. /\ asks(c, body) /\ write_frames(Home[c], batch, {}, Append(answers, <<>>))
        /\ UNCHANGED <<link, pending>>
    BY <1>7, Zenon DEF send_local
  <2>2. \A b \in batch : b.receipt = Len(requests')
    OBVIOUS
  <2> HIDE DEF batch
  <2>3. QED
    BY <1>1, <2>1, <2>2, AnsweredAtOnce
<1>8. ASSUME NEW body \in Body[c], send_forward(c, body) PROVE PairInv'
  BY <1>8, SendForwardStep
<1>9. QED
  BY <1>2, <1>3, <1>4, <1>5, <1>6, <1>7, <1>8

(* Every datagram, tick and restart of a node. *)
LEMMA NodeStep ==
    ASSUME PairInv, NEW n \in Pair,
           \/ \E d \in net : \E t \in {taken[n][d]} :
                 handle_request(n, d, t) \/ handle_response(n, t) \/ ignore_datagram(n, t)
           \/ unblock(n) \/ tick(n) \/ restart(n)
    PROVE  PairInv'
<1>2. ASSUME NEW d, NEW t, handle_request(n, d, t) PROVE PairInv'
  <2>1. UNCHANGED <<requests, answers, pending, link>>
    BY <1>2, Zenon DEF handle_request
  <2>2. QED
    BY <2>1, Untouched
<1>3. ASSUME NEW t, handle_response(n, t) PROVE PairInv'
  <2> DEFINE corr == t.message.corr
             p == pending[n][corr]
             reply == [conn |-> p.conn, receipt |-> p.receipt, reply |-> t.message.reply]
  <2>1. /\ {corr} \subseteq DOMAIN pending[n]
        /\ pending' = [pending EXCEPT ![n] = settled(@, {corr})]
        /\ write_frames(n, {reply}, {}, answers)
        /\ UNCHANGED <<requests, link>>
    BY <1>3, Zenon DEF handle_response
  <2>2. \A b \in {reply} : \E c \in {corr} : b.receipt = pending[n][c].receipt
    <3>1. reply.receipt = p.receipt
      OBVIOUS
    <3> HIDE DEF reply
    <3>2. QED
      BY <3>1
  <2> HIDE DEF reply, corr
  <2>3. QED
    BY <2>1, <2>2, Settling, Zenon
<1>4. ASSUME NEW t, ignore_datagram(n, t) PROVE PairInv'
  BY <1>4, Untouched DEF ignore_datagram, sixVars
<1>5. CASE unblock(n)
  BY <1>5, Untouched DEF unblock
<1>6. CASE tick(n)
  <2> DEFINE late(c) == [conn |-> pending[n][c].conn, receipt |-> pending[n][c].receipt,
                         reply |-> Err(<<"peer did not answer">>)]
  <2>1. PICK last \in DOMAIN pending[n] :
          /\ pending' = [pending EXCEPT ![n] = settled(@, expired(n, last))]
          /\ write_frames(n, {late(c) : c \in expired(n, last)}, {}, answers)
          /\ UNCHANGED <<requests, link>>
    BY <1>6, Zenon DEF tick
  <2>2. expired(n, last) \subseteq DOMAIN pending[n]
    BY DEF expired
  <2>3. \A b \in {late(c) : c \in expired(n, last)} :
           \E c \in expired(n, last) : b.receipt = pending[n][c].receipt
    <3>1. \A c : late(c).receipt = pending[n][c].receipt
      OBVIOUS
    <3> HIDE DEF late
    <3>2. QED
      BY <3>1
  <2>4. QED
    BY <2>1, <2>2, <2>3, Settling, Zenon
<1>7. CASE restart(n)
  BY <1>7, RestartStep
<1>8. QED
  BY <1>2, <1>3, <1>4, <1>5, <1>6, <1>7

(* The invariant holds at the start and is kept by every step. *)
LEMMA PairInvHolds == SixSpec => []PairInv
<1>1. SixInit => PairInv
  <2> SUFFICES ASSUME SixInit PROVE PairInv
    OBVIOUS
  <2>1. requests = <<>> /\ answers = <<>> /\ Len(requests) = 0 /\ 1..Len(requests) = {}
    BY DEF SixInit
  <2>2. Histories
    BY <2>1 DEF Histories, Over
  <2>3. Shapes /\ \A n \in Pair : DOMAIN pending[n] = {}
    BY DEF SixInit, Shapes
  <2>4. QED
    BY <2>2, <2>3 DEF PairInv, AllOwed, Distinct
<1>2. PairInv /\ [SixNext]_sixVars => PairInv'
  <2> SUFFICES ASSUME PairInv, [SixNext]_sixVars PROVE PairInv'
    OBVIOUS
  <2>1. CASE SixNext
    BY <2>1, ClientStep, NodeStep DEF SixNext
  <2>2. CASE UNCHANGED sixVars
    BY <2>2, Untouched DEF sixVars
  <2>3. QED
    BY <2>1, <2>2
<1>3. QED
  BY <1>1, <1>2, PTL DEF SixSpec

-----------------------------------------------------------------------------
(* Every request is answered at most once, and not while it is pending     *)
(* (pending.remove before reply_to_client): whatever the network repeats   *)
(* or delays, whenever the ticks fall, however often nodes are restarted.  *)
THEOREM RequestsAnsweredOnce == SixSpec => []AnsweredOnce
<1>1. PairInv => AnsweredOnce
  <2> SUFFICES ASSUME PairInv PROVE AnsweredOnce
    OBVIOUS
  <2>1. DOMAIN requests = 1..Len(requests)
    BY DEF PairInv, Histories, Over
  <2>2. ASSUME NEW r \in DOMAIN requests PROVE Len(answers[r]) <= 1
    <3>1. Len(<<>>) = 0 /\ \A x : Len(<<x>>) = 1
      OBVIOUS
    <3>2. answers[r] = <<>> \/ answers[r] = <<answers[r][1]>>
      BY <2>1 DEF PairInv, Histories, Once
    <3>3. \A n \in {0, 1} : n <= 1
      OBVIOUS
    <3>4. Len(answers[r]) \in {0, 1}
      BY <3>1, <3>2, Zenon
    <3>5. QED
      BY <3>3, <3>4, Zenon
  <2>3. ASSUME NEW r \in DOMAIN requests, waiting(r) PROVE answers[r] = <<>>
    BY <2>3 DEF waiting, PairInv, AllOwed, Owed
  <2>4. QED
    BY <2>2, <2>3 DEF AnsweredOnce, PairInv, Distinct
<1>2. QED
  BY <1>1, PairInvHolds, PTL

(* An entry of the pending table is about a request of a client that has   *)
(* not gone (pending.retain at ClientDown), for any number of clients.     *)
THEOREM EntriesHaveClients == SixSpec => []PendingHasClient
<1>1. PairInv => PendingHasClient
  BY DEF PairInv, AllOwed, Owed, PendingHasClient
<1>2. QED
  BY <1>1, PairInvHolds, PTL

-----------------------------------------------------------------------------
(* What one step may do to each part of the state. *)

ClientsMove ==
    \/ UNCHANGED <<clients, stuck>>
    \/ \E c \in Conn :
          clients' = [clients EXCEPT ![Home[c]] = @ \cup {c}] /\ UNCHANGED stuck
    \/ \E n \in Pair : \E gone :
          /\ clients' = [clients EXCEPT ![n] = @ \ gone]
          /\ \E slow \in {NoConn} \cup clients[n] :
                stuck' = [stuck EXCEPT ![n] = slow] \/ UNCHANGED stuck
    \/ \E n \in Pair :
          clients' = [clients EXCEPT ![n] = {}] /\ stuck' = [stuck EXCEPT ![n] = NoConn]

Kept(some, entries) ==
    /\ DOMAIN some \subseteq DOMAIN entries
    /\ \A k \in DOMAIN some : some[k] = entries[k]

PendingMove ==
    \/ UNCHANGED <<pending, next_corr, life>>
    \/ \E n \in Pair :
          /\ next_corr' = [next_corr EXCEPT ![n] = mint(n)] /\ UNCHANGED life
          /\ \/ UNCHANGED pending
             \/ \E entry : pending' = [pending EXCEPT ![n] = insert(@, mint(n), entry)]
    \/ /\ UNCHANGED <<next_corr, life>>
       /\ \E n \in Pair : \E kept :
             Kept(kept, pending[n]) /\ pending' = [pending EXCEPT ![n] = kept]
    \/ \E n \in Pair : /\ next_corr' = [next_corr EXCEPT ![n] = 0]
                       /\ pending' = [pending EXCEPT ![n] = [c \in {} |-> 0]]
                       /\ life' = [life EXCEPT ![n] = @ + 1]

LinkMove ==
    \/ UNCHANGED link
    \/ \E c \in Conn : \E s \in {"up", "gone", "down"} : link' = [link EXCEPT ![c] = s]
    \/ \E n \in Pair : link' = [c \in Conn |-> IF Home[c] = n THEN "none" ELSE link[c]]

HistoryMove ==
    \/ UNCHANGED <<requests, outcomes>>
    \/ /\ \E c \in Conn : \E body : asks(c, body)
       /\ \E replies : outcomes' = Append(outcomes, replies)
    \/ /\ UNCHANGED requests
       /\ \E r, replies : outcomes' = [outcomes EXCEPT ![r] = @ \cup replies]

Moves == ClientsMove /\ PendingMove /\ LinkMove /\ HistoryMove

(* write_frame takes connections out, and waits for one of those it had. *)
LEMMA WritingMoves ==
    ASSUME NEW n \in Pair, NEW batch, NEW leaving, NEW sent,
           write_frames(n, batch, leaving, sent)
    PROVE  ClientsMove
<1> DEFINE addressed == {b.conn : b \in batch} \cap clients[n]
<1>1. PICK failed \in SUBSET {c \in addressed : link[c] = "gone"},
           slow \in {NoConn} \cup {c \in addressed : link[c] = "up"} :
         /\ clients' = [clients EXCEPT ![n] = @ \ (failed \cup leaving)]
         /\ stuck' = [stuck EXCEPT ![n] = slow]
  BY Zenon DEF write_frames
<1>2. slow \in {NoConn} \cup clients[n]
  OBVIOUS
<1> HIDE DEF addressed
<1>3. QED
  BY <1>1, <1>2, Zenon DEF ClientsMove

(* A client's events and its frames other than SEND. *)
LEMMA ClientEventsMove ==
    ASSUME NEW c \in Conn,
           \/ client_up(c) \/ hang_up(c) \/ client_down(c)
           \/ \E command \in Command : other_frame(c, command)
           \/ \E body \in Body[c] : send_unkeyed(c, body)
    PROVE  Moves /\ UNCHANGED <<kv, life, net>>
<1>1. Home[c] \in Pair
  BY PairAssumption
<1>2. CASE client_up(c)
  <2>1. /\ link' = [link EXCEPT ![c] = "up"]
        /\ clients' = [clients EXCEPT ![Home[c]] = @ \cup {c}]
        /\ UNCHANGED <<kv, pending, next_corr, stuck, life, net, requests, outcomes>>
    BY <1>2, Zenon DEF client_up
  <2>2. QED
    BY <1>1, <2>1, Zenon DEF Moves, ClientsMove, PendingMove, LinkMove, HistoryMove
<1>3. CASE hang_up(c)
  <2>1. /\ link' = [link EXCEPT ![c] = "gone"]
        /\ UNCHANGED <<kv, clients, pending, next_corr, stuck, life, net, requests, outcomes>>
    BY <1>3, Zenon DEF hang_up, nodeVars, histVars
  <2>2. QED
    BY <2>1, Zenon DEF Moves, ClientsMove, PendingMove, LinkMove, HistoryMove
<1>4. CASE client_down(c)
  <2> DEFINE n == Home[c]
  <2>1. /\ link' = [link EXCEPT ![c] = "down"]
        /\ clients' = [clients EXCEPT ![n] = @ \ {c}]
        /\ pending' = [pending EXCEPT ![n] = retained(@, c)]
        /\ UNCHANGED <<kv, next_corr, stuck, life, net, requests, outcomes>>
    BY <1>4, Zenon DEF client_down
  <2>2. Kept(retained(pending[n], c), pending[n])
    BY DEF retained, Kept
  <2>3. ClientsMove
    BY <1>1, <2>1, Zenon DEF ClientsMove
  <2>4. PendingMove
    BY <1>1, <2>1, <2>2, Zenon DEF PendingMove
  <2>5. QED
    BY <2>1, <2>3, <2>4, Zenon DEF Moves, LinkMove, HistoryMove
<1>5. ASSUME NEW command \in Command, other_frame(c, command)
      PROVE  Moves /\ UNCHANGED <<kv, life, net>>
  <2>1. /\ \E batch, leaving : write_frames(Home[c], batch, leaving, answers)
        /\ UNCHANGED <<kv, pending, next_corr, life, link, net, requests, outcomes>>
    BY <1>5, Zenon DEF other_frame
  <2>2. QED
    BY <1>1, <2>1, WritingMoves DEF Moves, PendingMove, LinkMove, HistoryMove
<1>6. ASSUME NEW body \in Body[c], send_unkeyed(c, body)
      PROVE  Moves /\ UNCHANGED <<kv, life, net>>
  <2>1. /\ \E batch, leaving : write_frames(Home[c], batch, leaving, answers)
        /\ UNCHANGED <<kv, pending, next_corr, life, link, net, requests, outcomes>>
    BY <1>6, Zenon DEF send_unkeyed
  <2>2. QED
    BY <1>1, <2>1, WritingMoves DEF Moves, PendingMove, LinkMove, HistoryMove
<1>7. QED
  BY <1>2, <1>3, <1>4, <1>5, <1>6

(* SEND of an operation. *)
LEMMA SendMoves ==
    ASSUME NEW c \in Conn, NEW body, send_local(c, body) \/ send_forward(c, body)
    PROVE  Moves /\ UNCHANGED life
<1>1. Home[c] \in Pair
  BY PairAssumption
<1>2. CASE send_local(c, body)
  <2>1. /\ asks(c, body) /\ \E replies : outcomes' = Append(outcomes, replies)
        /\ \E batch, leaving, sent : write_frames(Home[c], batch, leaving, sent)
        /\ UNCHANGED <<pending, next_corr, life, link>>
    BY <1>2, Zenon DEF send_local
  <2>2. HistoryMove
    BY <2>1 DEF HistoryMove
  <2>3. QED
    BY <1>1, <2>1, <2>2, WritingMoves DEF Moves, PendingMove, LinkMove
<1>3. CASE send_forward(c, body)
  <2> DEFINE n == Home[c]
  <2>1. /\ asks(c, body) /\ outcomes' = Append(outcomes, {})
        /\ next_corr' = [next_corr EXCEPT ![n] = mint(n)]
        /\ UNCHANGED <<life, link>>
        /\ \/ /\ \E entry : pending' = [pending EXCEPT ![n] = insert(@, mint(n), entry)]
              /\ UNCHANGED <<clients, stuck>>
           \/ /\ \E batch, leaving, sent : write_frames(n, batch, leaving, sent)
              /\ UNCHANGED pending
    BY <1>3, Zenon DEF send_forward
  <2>2. HistoryMove
    BY <2>1, Zenon DEF HistoryMove
  <2>3. PendingMove
    BY <1>1, <2>1, Zenon DEF PendingMove
  <2>4. ClientsMove
    BY <1>1, <2>1, WritingMoves, Zenon DEF ClientsMove
  <2>5. QED
    BY <2>1, <2>2, <2>3, <2>4 DEF Moves, LinkMove
<1>4. QED
  BY <1>2, <1>3

(* A node's datagrams, and the write it waited for. *)
LEMMA DatagramMoves ==
    ASSUME NEW n \in Pair,
           \/ unblock(n)
           \/ \E d, t : handle_request(n, d, t) \/ handle_response(n, t) \/ ignore_datagram(n, t)
    PROVE  Moves /\ UNCHANGED life
<1>1. CASE unblock(n)
  <2>1. /\ stuck' = [stuck EXCEPT ![n] = NoConn]
        /\ clients' = [clients EXCEPT ![n] =
                          IF link[stuck[n]] = "up" THEN @ ELSE @ \ {stuck[n]}]
        /\ UNCHANGED <<pending, next_corr, life, link, requests, outcomes>>
    BY <1>1, Zenon DEF unblock
  <2>2. \E gone : clients' = [clients EXCEPT ![n] = @ \ gone]
    <3>1. CASE link[stuck[n]] = "up"
      BY <2>1, <3>1, clients[n] \ {} = clients[n], Zenon
    <3>2. CASE link[stuck[n]] # "up"
      BY <2>1, <3>2, Zenon
    <3>3. QED
      BY <3>1, <3>2
  <2>3. ClientsMove
    BY <2>1, <2>2, Zenon DEF ClientsMove
  <2>4. QED
    BY <2>1, <2>3 DEF Moves, PendingMove, LinkMove, HistoryMove
<1>2. ASSUME NEW d, NEW t, handle_request(n, d, t) PROVE Moves /\ UNCHANGED life
  <2>1. /\ \E replies : outcomes' = [outcomes EXCEPT ![d.about] = @ \cup replies]
        /\ UNCHANGED <<clients, pending, next_corr, stuck, life, link, requests>>
    BY <1>2, Zenon DEF handle_request
  <2>2. HistoryMove
    BY <2>1, Zenon DEF HistoryMove
  <2>3. QED
    BY <2>1, <2>2 DEF Moves, ClientsMove, PendingMove, LinkMove
<1>3. ASSUME NEW t, handle_response(n, t) PROVE Moves /\ UNCHANGED life
  <2>1. /\ pending' = [pending EXCEPT ![n] = settled(@, {t.message.corr})]
        /\ \E batch, leaving : write_frames(n, batch, leaving, answers)
        /\ UNCHANGED <<next_corr, life, link, requests, outcomes>>
    BY <1>3, Zenon DEF handle_response
  <2>2. Kept(settled(pending[n], {t.message.corr}), pending[n])
    BY DEF settled, Kept
  <2>3. PendingMove
    BY <2>1, <2>2, Zenon DEF PendingMove
  <2>4. QED
    BY <2>1, <2>3, WritingMoves DEF Moves, LinkMove, HistoryMove
<1>4. ASSUME NEW t, ignore_datagram(n, t) PROVE Moves /\ UNCHANGED life
  BY <1>4 DEF ignore_datagram, sixVars, Moves, ClientsMove, PendingMove, LinkMove, HistoryMove
<1>5. QED
  BY <1>1, <1>2, <1>3, <1>4

(* A tick, and a restart. *)
LEMMA TickMoves ==
    ASSUME NEW n \in Pair, tick(n)
    PROVE  Moves /\ UNCHANGED <<kv, life, net>>
<1>1. PICK last \in DOMAIN pending[n] :
        /\ pending' = [pending EXCEPT ![n] = settled(@, expired(n, last))]
        /\ \E batch, leaving : write_frames(n, batch, leaving, answers)
        /\ UNCHANGED <<kv, next_corr, life, link, net, requests, outcomes>>
  BY Zenon DEF tick
<1>2. Kept(settled(pending[n], expired(n, last)), pending[n])
  BY DEF settled, Kept
<1>3. PendingMove
  BY <1>1, <1>2, Zenon DEF PendingMove
<1>4. QED
  BY <1>1, <1>3, WritingMoves DEF Moves, LinkMove, HistoryMove

(* A restart empties the tables of one node and moves no history. *)
LEMMA RestartMoves ==
    ASSUME NEW n \in Pair, restart(n)
    PROVE  Moves /\ UNCHANGED net
<1>1. /\ clients' = [clients EXCEPT ![n] = {}]
      /\ pending' = [pending EXCEPT ![n] = [c \in {} |-> 0]]
      /\ next_corr' = [next_corr EXCEPT ![n] = 0]
      /\ stuck' = [stuck EXCEPT ![n] = NoConn]
      /\ link' = [c \in Conn |-> IF Home[c] = n THEN "none" ELSE link[c]]
      /\ life' = [life EXCEPT ![n] = @ + 1]
      /\ UNCHANGED <<net, requests, outcomes>>
  BY Zenon DEF restart
<1>2. ClientsMove
  BY <1>1, Zenon DEF ClientsMove
<1>3. PendingMove
  BY <1>1, Zenon DEF PendingMove
<1>4. LinkMove
  BY <1>1 DEF LinkMove
<1>5. QED
  BY <1>1, <1>2, <1>3, <1>4 DEF Moves, HistoryMove

(* Every step moves the tables and the histories in one of these ways. *)
LEMMA StepsMove ==
    ASSUME SixNext
    PROVE  Moves /\ (UNCHANGED life \/ \E n \in Pair : restart(n))
  BY ClientEventsMove, SendMoves, DatagramMoves, TickMoves, RestartMoves DEF SixNext

-----------------------------------------------------------------------------
(* The type invariant, with the domains it leaves out. *)
TypesInv ==
    /\ SixTypeOK
    /\ clients = [n \in Pair |-> clients[n]]
    /\ Over(Len(requests), outcomes)

(* config.peer_id is the other node. *)
LEMMA PeerIsOther ==
    ASSUME NEW n \in Pair
    PROVE  peer(n) \in Pair /\ peer(n) # n
<1>1. Cardinality(Pair) = 2 /\ Cardinality({n}) = 1
  <2>1. Cardinality(Pair) = 2
    BY PairAssumption, Zenon
  <2>2. Cardinality({n}) = 1
    BY FS_Singleton, Zenon
  <2>3. QED
    BY <2>1, <2>2
<1>2. Pair # {n}
  BY <1>1
<1>3. \E m \in Pair : m # n
  BY <1>2
<1>4. QED
  BY <1>3 DEF peer

(* The clients of a node stay connections of that node. *)
LEMMA ClientsTyped ==
    ASSUME TypesInv, ClientsMove
    PROVE  /\ clients' = [n \in Pair |-> clients'[n]]
           /\ \A n \in Pair : clients'[n] \subseteq {c \in Conn : Home[c] = n}
           /\ stuck' \in [Pair -> Conn \cup {NoConn}]
<1> USE DEF TypesInv, SixTypeOK
<1>1. DOMAIN clients = Pair
  OBVIOUS
<1>2. CASE UNCHANGED <<clients, stuck>>
  BY <1>2
<1>3. ASSUME NEW c \in Conn, clients' = [clients EXCEPT ![Home[c]] = @ \cup {c}], UNCHANGED stuck
      PROVE  /\ clients' = [n \in Pair |-> clients'[n]]
             /\ \A n \in Pair : clients'[n] \subseteq {d \in Conn : Home[d] = n}
             /\ stuck' \in [Pair -> Conn \cup {NoConn}]
  BY <1>1, <1>3, Zenon
<1>4. ASSUME NEW n \in Pair, NEW gone, clients' = [clients EXCEPT ![n] = @ \ gone],
             NEW slow \in {NoConn} \cup clients[n],
             stuck' = [stuck EXCEPT ![n] = slow] \/ UNCHANGED stuck
      PROVE  /\ clients' = [m \in Pair |-> clients'[m]]
             /\ \A m \in Pair : clients'[m] \subseteq {c \in Conn : Home[c] = m}
             /\ stuck' \in [Pair -> Conn \cup {NoConn}]
  BY <1>1, <1>4, Zenon
<1>5. ASSUME NEW n \in Pair, clients' = [clients EXCEPT ![n] = {}],
             stuck' = [stuck EXCEPT ![n] = NoConn]
      PROVE  /\ clients' = [m \in Pair |-> clients'[m]]
             /\ \A m \in Pair : clients'[m] \subseteq {c \in Conn : Home[c] = m}
             /\ stuck' \in [Pair -> Conn \cup {NoConn}]
  BY <1>1, <1>5, Zenon
<1> HIDE DEF TypesInv, SixTypeOK
<1>6. QED
  BY <1>2, <1>3, <1>4, <1>5 DEF ClientsMove

(* Correlation ids stay below the counter they are minted from. *)
LEMMA PendingTyped ==
    ASSUME PairInv, TypesInv, PendingMove
    PROVE  /\ next_corr' \in [Pair -> Nat]
           /\ \A n \in Pair : DOMAIN pending'[n] \subseteq 1..next_corr'[n]
<1>1. /\ DOMAIN pending = Pair /\ next_corr \in [Pair -> Nat]
      /\ \A n \in Pair : DOMAIN pending[n] \subseteq 1..next_corr[n]
  BY DEF PairInv, Shapes, TypesInv, SixTypeOK
<1>2. CASE UNCHANGED <<pending, next_corr>>
  BY <1>1, <1>2
<1>3. ASSUME NEW n \in Pair, next_corr' = [next_corr EXCEPT ![n] = mint(n)],
             \/ UNCHANGED pending
             \/ \E entry : pending' = [pending EXCEPT ![n] = insert(@, mint(n), entry)]
      PROVE  /\ next_corr' \in [Pair -> Nat]
             /\ \A m \in Pair : DOMAIN pending'[m] \subseteq 1..next_corr'[m]
  <2>1. mint(n) = next_corr[n] + 1 /\ mint(n) \in Nat /\ next_corr' \in [Pair -> Nat]
    BY <1>1, <1>3 DEF mint
  <2>2. ASSUME NEW m \in Pair, NEW k \in DOMAIN pending'[m]
        PROVE  k \in DOMAIN pending[m] \/ (m = n /\ k = mint(n))
    BY <1>1, <1>3, <2>2 DEF insert
  <2>3. QED
    BY <1>1, <1>3, <2>1, <2>2
<1>4. ASSUME UNCHANGED next_corr, NEW n \in Pair, NEW kept, Kept(kept, pending[n]),
             pending' = [pending EXCEPT ![n] = kept]
      PROVE  /\ next_corr' \in [Pair -> Nat]
             /\ \A m \in Pair : DOMAIN pending'[m] \subseteq 1..next_corr'[m]
  BY <1>1, <1>4 DEF Kept
<1>5. ASSUME NEW n \in Pair, next_corr' = [next_corr EXCEPT ![n] = 0],
             pending' = [pending EXCEPT ![n] = [c \in {} |-> 0]]
      PROVE  /\ next_corr' \in [Pair -> Nat]
             /\ \A m \in Pair : DOMAIN pending'[m] \subseteq 1..next_corr'[m]
  BY <1>1, <1>5
<1>6. QED
  BY <1>2, <1>3, <1>4, <1>5, Zenon DEF PendingMove

(* Requests and outcomes are appended together. *)
LEMMA HistoryTyped ==
    ASSUME PairInv, TypesInv, HistoryMove
    PROVE  /\ Len(requests') <= MaxRequests
           /\ Over(Len(requests'), requests')
           /\ Over(Len(requests'), outcomes')
<1>1. /\ Len(requests) \in Nat /\ Len(requests) <= MaxRequests /\ MaxRequests \in Nat
      /\ Over(Len(requests), requests) /\ Over(Len(requests), outcomes)
  BY PairAssumption DEF PairInv, Histories, TypesInv, SixTypeOK
<1>2. CASE UNCHANGED <<requests, outcomes>>
  BY <1>1, <1>2
<1>3. ASSUME NEW c \in Conn, NEW body, asks(c, body),
             NEW replies, outcomes' = Append(outcomes, replies)
      PROVE  /\ Len(requests') <= MaxRequests
             /\ Over(Len(requests'), requests')
             /\ Over(Len(requests'), outcomes')
  <2>1. /\ Len(requests') = Len(requests) + 1
        /\ Over(Len(requests) + 1, requests')
    BY <1>3, Asking
  <2>2. Over(Len(requests) + 1, outcomes')
    BY <1>1, <1>3, AppendTo
  <2>3. Len(requests) < MaxRequests
    BY <1>3 DEF asks
  <2>4. QED
    BY <1>1, <2>1, <2>2, <2>3
<1>4. ASSUME UNCHANGED requests, NEW r, NEW replies,
             outcomes' = [outcomes EXCEPT ![r] = @ \cup replies]
      PROVE  Over(Len(requests), outcomes')
  BY <1>1, <1>4, Zenon DEF Over
<1>5. QED
  BY <1>1, <1>2, <1>3, <1>4, Zenon DEF HistoryMove

(* Every step keeps the types. *)
LEMMA SixTypesStep ==
    ASSUME PairInv, TypesInv, [SixNext]_sixVars
    PROVE  TypesInv'
<1>1. CASE UNCHANGED sixVars
  BY <1>1 DEF sixVars, TypesInv, SixTypeOK, Over
<1>2. CASE SixNext
  <2>1. ClientsMove /\ PendingMove /\ LinkMove /\ HistoryMove
    BY <1>2, StepsMove DEF Moves
  <2>2. link' \in [Conn -> {"none", "up", "gone", "down"}]
    BY <2>1 DEF LinkMove, TypesInv, SixTypeOK
  <2>3. life' \in [Pair -> 0..MaxRestarts]
    <3>1. life \in [Pair -> 0..MaxRestarts] /\ MaxRestarts \in Nat
      BY PairAssumption DEF TypesInv, SixTypeOK
    <3>2. ASSUME NEW n \in Pair, restart(n) PROVE life' \in [Pair -> 0..MaxRestarts]
      <4>1. peer(n) \in Pair
        BY PeerIsOther
      <4>2. life[n] + 1 \in 0..MaxRestarts
        BY <3>1, <3>2, <4>1 DEF restart
      <4>3. QED
        BY <3>1, <3>2, <4>2 DEF restart
    <3>3. QED
      BY <1>2, <3>1, <3>2, StepsMove
  <2>4. /\ clients' = [n \in Pair |-> clients'[n]]
        /\ \A n \in Pair : clients'[n] \subseteq {c \in Conn : Home[c] = n}
        /\ stuck' \in [Pair -> Conn \cup {NoConn}]
    BY <2>1, ClientsTyped
  <2>5. /\ next_corr' \in [Pair -> Nat]
        /\ \A n \in Pair : DOMAIN pending'[n] \subseteq 1..next_corr'[n]
    BY <2>1, PendingTyped
  <2>6. /\ Len(requests') <= MaxRequests
        /\ Over(Len(requests'), requests')
        /\ Over(Len(requests'), outcomes')
    BY <2>1, HistoryTyped
  <2>7. Over(Len(requests'), answers')
    <3>1. PairInv'
      BY <1>2, ClientStep, NodeStep DEF SixNext
    <3>2. QED
      BY <3>1 DEF PairInv, Histories
  <2>8. DOMAIN outcomes' = DOMAIN requests' /\ DOMAIN answers' = DOMAIN requests'
    BY <2>6, <2>7 DEF Over
  <2>9. QED
    BY <2>2, <2>3, <2>4, <2>5, <2>6, <2>8 DEF TypesInv, SixTypeOK
<1>3. QED
  BY <1>1, <1>2

(* The tables of the two nodes and the histories stay in their types: no   *)
(* id in a pending table was never minted, no connection is kept by a node *)
(* it was not made to, and each request has its outcomes and its answers.  *)
LEMMA TypesInvHolds == SixSpec => []TypesInv
<1>1. SixInit => TypesInv
  <2> SUFFICES ASSUME SixInit PROVE TypesInv
    OBVIOUS
  <2>1. requests = <<>> /\ outcomes = <<>> /\ answers = <<>> /\ Len(requests) = 0
        /\ 1..Len(requests) = {}
    BY DEF SixInit
  <2>2. /\ Len(requests) <= MaxRequests /\ Over(Len(requests), outcomes)
        /\ DOMAIN outcomes = DOMAIN requests /\ DOMAIN answers = DOMAIN requests
    BY <2>1, PairAssumption DEF Over
  <2>3. /\ \A n \in Pair : clients[n] \subseteq {c \in Conn : Home[c] = n}
        /\ clients = [n \in Pair |-> clients[n]]
        /\ next_corr \in [Pair -> Nat]
        /\ \A n \in Pair : DOMAIN pending[n] \subseteq 1..next_corr[n]
        /\ stuck \in [Pair -> Conn \cup {NoConn}]
        /\ life \in [Pair -> 0..MaxRestarts]
        /\ link \in [Conn -> {"none", "up", "gone", "down"}]
    BY PairAssumption DEF SixInit
  <2>4. QED
    BY <2>2, <2>3 DEF TypesInv, SixTypeOK
<1>2. QED
  BY <1>1, SixTypesStep, PairInvHolds, PTL DEF SixSpec

(* The type invariant of the pair: the clients of a node are its own       *)
(* connections, its ids are below its counter, and the histories are as    *)
(* long as one another, for any clients, requests, datagrams and restarts. *)
THEOREM PairTypes == SixSpec => []SixTypeOK
<1>1. TypesInv => SixTypeOK
  BY DEF TypesInv
<1>2. QED
  BY <1>1, TypesInvHolds, PTL

(* The messages are the requests and the responses. *)
LEMMA MessagesAre ==
    ASSUME NEW i \in 1..MaxRequests
    PROVE  /\ \A op \in Ops : Request(i, op) \in Messages
           /\ \A reply \in KvReplies : Response(i, reply) \in Messages
<1> DEFINE of(j) == {Request(j, op) : op \in Ops} \cup {Response(j, reply) : reply \in KvReplies}
<1>1. /\ \A op \in Ops : Request(i, op) \in of(i)
      /\ \A reply \in KvReplies : Response(i, reply) \in of(i)
  OBVIOUS
<1>2. Messages = UNION {of(j) : j \in 1..MaxRequests}
  BY Zenon DEF Messages
<1> HIDE DEF of
<1>3. of(i) \subseteq Messages
  BY <1>2
<1>4. QED
  BY <1>1, <1>3, Zenon

(* A response that is taken is the one that was sent, and so is a request. *)
LEMMA ResponseArrives ==
    ASSUME LinkIsFaithful, NEW n \in Pair, NEW from \in Pair,
           NEW i \in 1..MaxRequests, NEW r \in 1..MaxRequests, NEW reply \in KvReplies,
           NEW d, d = datagram(from, Response(i, reply), r), taken[n][d].ok
    PROVE  /\ taken[n][d].message = Response(i, reply) /\ from = peer(n)
           /\ taken[n][d].message.kind = "Response"
<1>1. PICK m \in Messages : m = Response(i, reply)
  BY MessagesAre
<1>2. d = datagram(from, m, r)
  BY <1>1, Zenon
<1>3. taken[n][d].message = m /\ from = peer(n)
  BY <1>2, Zenon DEF LinkIsFaithful, TakenAsSent
<1>4. m.kind = "Response"
  BY <1>1 DEF Response
<1>5. QED
  BY <1>1, <1>3, <1>4, Zenon

(* A request that is taken is the one the peer sent, with its id and its   *)
(* operation.                                                              *)
LEMMA RequestArrives ==
    ASSUME LinkIsFaithful, NEW n \in Pair, NEW from \in Pair,
           NEW i \in 1..MaxRequests, NEW r \in 1..MaxRequests, NEW op \in Ops,
           NEW d, d = datagram(from, Request(i, op), r), taken[n][d].ok
    PROVE  /\ taken[n][d].message = Request(i, op) /\ from = peer(n)
           /\ taken[n][d].message.kind = "Request" /\ d.about = r
           /\ taken[n][d].message.corr = i /\ taken[n][d].message.op = op
<1>1. PICK m \in Messages : m = Request(i, op)
  BY MessagesAre
<1>2. d = datagram(from, m, r)
  BY <1>1, Zenon
<1>3. taken[n][d].message = m /\ from = peer(n)
  BY <1>2, Zenon DEF LinkIsFaithful, TakenAsSent
<1>4. m.kind = "Request" /\ m.corr = i /\ m.op = op
  BY <1>1 DEF Request
<1>5. d.about = r
  BY DEF datagram
<1>6. QED
  BY <1>1, <1>3, <1>4, <1>5, Zenon

(* What nodes send each other: requests that clients made, and replies. *)
OpsMade == {requests[q].op : q \in DOMAIN requests}

Sent(d, ops) ==
    \/ d \in Stray
    \/ \E n \in Pair : \E i, r \in 1..MaxRequests :
          \/ \E op \in ops : d = datagram(n, Request(i, op), r)
          \/ \E reply \in KvReplies : d = datagram(n, Response(i, reply), r)


(* Taken for a request, a datagram is one that a client made: programs     *)
(* that share the link, and replies, are never taken for one.              *)
LEMMA TakenRequest ==
    ASSUME LinkIsFaithful, NEW ops, ops \subseteq Ops, NEW n \in Pair, NEW d, Sent(d, ops),
           taken[n][d].ok, taken[n][d].message.kind = "Request"
    PROVE  LET m == taken[n][d].message
           IN  /\ m.corr \in 1..MaxRequests /\ d.about \in 1..MaxRequests
               /\ m.op \in ops
<1>1. PICK from \in Pair, i \in 1..MaxRequests, r \in 1..MaxRequests :
         \/ \E op \in ops : d = datagram(from, Request(i, op), r)
         \/ \E reply \in KvReplies : d = datagram(from, Response(i, reply), r)
  BY Zenon DEF Sent, LinkIsFaithful, StrayIgnored
<1>2. ASSUME NEW reply \in KvReplies, d = datagram(from, Response(i, reply), r)
      PROVE  FALSE
  <2>1. taken[n][d].message.kind = "Response"
    BY <1>2, ResponseArrives
  <2>2. QED
    BY <2>1
<1>3. PICK op \in ops : d = datagram(from, Request(i, op), r)
  BY <1>1, <1>2, Zenon
<1>4. taken[n][d].message.corr = i /\ taken[n][d].message.op = op /\ d.about = r
  BY <1>3, RequestArrives
<1>5. QED
  BY <1>4, Zenon

-----------------------------------------------------------------------------
(* What a node may store: as many keys as the ceiling allows, keys that    *)
(* the placement rule gives it, and values that were asked to be put there. *)
Housed(n, entries, ops) ==
    /\ entries = [k \in DOMAIN entries |-> entries[k]]
    /\ IsFiniteSet(DOMAIN entries) /\ Cardinality(DOMAIN entries) <= MAX_KEYS
    /\ \A k \in DOMAIN entries :
          (k % 2 = 1 <=> n <= peer(n)) /\ Put(k, entries[k]) \in ops

(* The placement rule, as the node that owns the key sees it. *)
LEMMA OwnsByParity ==
    ASSUME NEW n \in Pair, NEW op, op.key \in Nat, owns(n, op)
    PROVE  op.key % 2 = 1 <=> n <= peer(n)
<1> DEFINE p == peer(n)
<1>1. p \in Nat /\ n \in Nat /\ p # n
  <2>1. p \in Pair /\ p # n
    BY PeerIsOther
  <2>2. Pair \subseteq Nat
    <3>1. Pair \subseteq U16
      BY PairAssumption
    <3>2. U16 \subseteq Nat
      BY DEF U16
    <3>3. QED
      BY <3>1, <3>2
  <2>3. QED
    BY <2>1, <2>2, Zenon
<1> HIDE DEF p
<1>2. owner(op.key, n, p) = n
  BY DEF owns, p
<1>3. op.key % 2 = 1 <=> n <= p
  BY <1>1, <1>2 DEF owner
<1>4. QED
  BY <1>3 DEF p

(* Store::execute keeps the ceiling, and stores what it was asked to. *)
LEMMA ExecutedHoused ==
    ASSUME LinkIsFaithful, NEW n \in Pair, NEW entries, NEW ops, Housed(n, entries, ops),
           ops \subseteq Ops, NEW op \in ops, owns(n, op)
    PROVE  Housed(n, executed(entries, op), ops)
<1>1. op.key \in Nat
  BY DEF LinkIsFaithful, OpsWellFormed
<1>2. op.verb = "Put" => op = Put(op.key, op.value)
  BY DEF LinkIsFaithful, OpsWellFormed
<1>3. op.key % 2 = 1 <=> n <= peer(n)
  BY <1>1, OwnsByParity
<1> DEFINE keys == DOMAIN entries
           k0 == op.key
           v0 == op.value
<1>4. CASE op.verb = "Put" /\ ~at_ceiling(entries, op.key)
  <2>1. executed(entries, op) = [k \in keys \cup {k0} |-> IF k = k0 THEN v0 ELSE entries[k]]
    BY <1>4, Zenon DEF executed
  <2> DEFINE after == executed(entries, op)
  <2>2. /\ after = [k \in DOMAIN after |-> after[k]]
        /\ DOMAIN after = keys \cup {k0} /\ after[k0] = v0
        /\ \A k \in keys : k # k0 => after[k] = entries[k]
    <3> HIDE DEF keys, k0, v0
    <3>1. QED
      BY <2>1
  <2>3. Put(k0, after[k0]) \in ops
    BY <1>2, <1>4, <2>2
  <2>4. IsFiniteSet(keys \cup {k0}) /\ Cardinality(keys \cup {k0}) <= MAX_KEYS
    <3>0. IsFiniteSet(keys) /\ Cardinality(keys) <= MAX_KEYS /\ Cardinality(keys) \in Nat
      BY FS_CardinalityType DEF Housed
    <3>1. CASE k0 \in keys
      <4>1. keys \cup {k0} = keys
        BY <3>1
      <4>2. QED
        BY <3>0, <4>1
    <3>2. CASE k0 \notin keys
      <4>1. ~(Cardinality(keys) >= MAX_KEYS)
        BY <1>4, <3>2 DEF at_ceiling
      <4> HIDE DEF keys, k0
      <4>2. IsFiniteSet(keys \cup {k0}) /\ Cardinality(keys \cup {k0}) = Cardinality(keys) + 1
        BY <3>0, <3>2, FS_AddElement
      <4>3. QED
        BY <3>0, <4>1, <4>2, CapsAssumption
    <3>3. QED
      BY <3>1, <3>2
  <2> HIDE DEF after
  <2>5. ASSUME NEW k \in DOMAIN after
        PROVE  (k % 2 = 1 <=> n <= peer(n)) /\ Put(k, after[k]) \in ops
    <3>1. CASE k = k0
      BY <1>3, <2>3, <3>1
    <3>2. CASE k # k0
      BY <2>2, <3>2 DEF Housed
    <3>3. QED
      BY <3>1, <3>2
  <2>6. QED
    BY <2>2, <2>4, <2>5, Zenon DEF Housed, after
<1>5. CASE op.verb = "Rm"
  <2>1. executed(entries, op) = [k \in keys \ {k0} |-> entries[k]]
    BY <1>5 DEF executed
  <2>2. IsFiniteSet(keys \ {k0}) /\ Cardinality(keys \ {k0}) <= MAX_KEYS
    <3>0. IsFiniteSet(keys) /\ Cardinality(keys) <= MAX_KEYS /\ Cardinality(keys) \in Nat
      BY FS_CardinalityType DEF Housed
    <3> DEFINE rest == keys \ {k0}
    <3>1. rest \subseteq keys
      OBVIOUS
    <3> HIDE DEF keys, rest
    <3>2. IsFiniteSet(rest) /\ Cardinality(rest) <= Cardinality(keys) /\ Cardinality(rest) \in Nat
      BY <3>0, <3>1, FS_Subset, FS_CardinalityType
    <3>3. QED
      BY <3>0, <3>2, CapsAssumption DEF rest
  <2>3. QED
    BY <2>1, <2>2 DEF Housed
<1>6. CASE ~(op.verb = "Put" /\ ~at_ceiling(entries, op.key)) /\ op.verb # "Rm"
  <2>1. executed(entries, op) = entries
    BY <1>6, Zenon DEF executed
  <2>2. QED
    BY <2>1, Zenon
<1>7. QED
  BY <1>4, <1>5, <1>6

(* Store::execute answers with one of the replies of the protocol. *)
LEMMA RepliesOfStore ==
    ASSUME LinkIsFaithful, NEW n \in Pair, NEW entries, NEW ops, Housed(n, entries, ops),
           ops \subseteq Ops, NEW op \in ops
    PROVE  reply_of(entries, op) \in KvReplies
<1>1. op.verb \in {"Get", "Put", "Rm"}
  BY DEF LinkIsFaithful, OpsWellFormed
<1> DEFINE k == op.key
<1>2. ASSUME k \in DOMAIN entries
      PROVE  Value(entries[k]) \in KvReplies
  <2>1. Put(k, entries[k]) \in Ops
    BY <1>2 DEF Housed
  <2>2. Put(k, entries[k]).value = entries[k]
    BY DEF Put
  <2>3. QED
    BY <2>1, <2>2, Zenon DEF KvReplies
<1>3. Ok \in KvReplies /\ Nil \in KvReplies /\ Err(<<"ceiling">>) \in KvReplies
  BY DEF KvReplies
<1>4. CASE op.verb = "Put"
  BY <1>3, <1>4, Zenon DEF reply_of
<1>5. CASE op.verb # "Put" /\ k \notin DOMAIN entries
  BY <1>3, <1>5 DEF reply_of
<1>6. CASE op.verb = "Get" /\ k \in DOMAIN entries
  BY <1>2, <1>6 DEF reply_of
<1>7. CASE op.verb = "Rm" /\ k \in DOMAIN entries
  BY <1>3, <1>7 DEF reply_of
<1>8. QED
  BY <1>1, <1>4, <1>5, <1>6, <1>7

-----------------------------------------------------------------------------
(* The inductive invariant.  What is in flight was sent by a node, or is   *)
(* not for this channel, and an id was minted for a request that was made. *)
HomeInv ==
    /\ kv = [n \in Pair |-> kv[n]]
    /\ \A n \in Pair : Housed(n, kv[n], OpsMade)
    /\ OpsMade \subseteq Ops
    /\ \A n \in Pair : next_corr[n] <= Len(requests)
    /\ \A d \in net : Sent(d, OpsMade)

(* Operations made stay made, so what is stored and sent stays accounted   *)
(* for.                                                                    *)
LEMMA MadeStays ==
    ASSUME NEW ops, NEW more, ops \subseteq more
    PROVE  /\ \A n, entries : Housed(n, entries, ops) => Housed(n, entries, more)
           /\ \A d : Sent(d, ops) => Sent(d, more)
<1>1. ASSUME NEW n, NEW entries, Housed(n, entries, ops)
      PROVE  Housed(n, entries, more)
  BY <1>1 DEF Housed
<1>2. ASSUME NEW d, Sent(d, ops)
      PROVE  Sent(d, more)
  BY <1>2, Zenon DEF Sent
<1>3. QED
  BY <1>1, <1>2

(* The events that leave stores, network, requests and ids as they are. *)
LEMMA QuietSteps ==
    ASSUME HomeInv, UNCHANGED <<kv, net, requests, next_corr>>
    PROVE  HomeInv'
<1>1. OpsMade' = OpsMade
  BY DEF OpsMade
<1>2. kv' = kv /\ net' = net /\ requests' = requests /\ next_corr' = next_corr
  OBVIOUS
<1>3. QED
  BY <1>1, <1>2 DEF HomeInv

(* A request is made, and its operation joins those made. *)
LEMMA AskingMakes ==
    ASSUME PairInv, TypesInv, HomeInv, NEW c \in Conn, NEW body \in Body[c], asks(c, body)
    PROVE  /\ OpsMade \subseteq OpsMade' /\ OpsMade' \subseteq Ops
           /\ parsed[body].op \in OpsMade'
           /\ Len(requests') = Len(requests) + 1 /\ Len(requests) \in Nat
           /\ Len(requests') \in 1..MaxRequests
           /\ requests'[Len(requests) + 1].op = parsed[body].op
<1> DEFINE m == Len(requests)
           op == parsed[body].op
<1>1. /\ m \in Nat /\ m < MaxRequests /\ MaxRequests \in Nat
      /\ parsed[body].ok
  BY PairAssumption DEF asks, PairInv, Histories
<1>2. op \in Ops
  <2>1. body \in Bodies
    BY DEF Bodies
  <2>2. QED
    BY <1>1, <2>1 DEF Ops
<1>3. PICK rec : requests' = Append(requests, rec) /\ rec.op = op
  BY DEF asks
<1>4. Over(m, requests)
  BY DEF PairInv, Histories
<1> HIDE DEF m, op
<1>5. /\ Len(requests') = m + 1
      /\ Over(m + 1, requests')
      /\ \A i \in 1..m : requests'[i] = requests[i]
      /\ requests'[m + 1] = rec
  BY <1>1, <1>3, <1>4, AppendTo
<1>6. DOMAIN requests = 1..m /\ DOMAIN requests' = 1..(m + 1)
  BY <1>4, <1>5 DEF Over
<1>7. \A i \in 1..(m + 1) : i \in 1..m \/ i = m + 1
  BY <1>1
<1>8. 1..m \subseteq 1..(m + 1) /\ m + 1 \in 1..(m + 1)
  BY <1>1
<1>9. OpsMade' = OpsMade \cup {op}
  <2>1. \A x \in OpsMade : x \in OpsMade'
    BY <1>5, <1>6, <1>8 DEF OpsMade
  <2>2. op \in OpsMade'
    BY <1>3, <1>5, <1>6, <1>8 DEF OpsMade
  <2>3. \A x \in OpsMade' : x \in OpsMade \cup {op}
    BY <1>3, <1>5, <1>6, <1>7 DEF OpsMade
  <2>4. QED
    BY <2>1, <2>2, <2>3
<1>10. OpsMade \subseteq Ops
  BY DEF HomeInv
<1>11. Len(requests') \in 1..MaxRequests
  BY <1>1, <1>5
<1>12. requests'[m + 1].op = op
  BY <1>3, <1>5, Zenon
<1>13. QED
  BY <1>1, <1>2, <1>5, <1>9, <1>10, <1>11, <1>12 DEF m, op

-----------------------------------------------------------------------------
(* An operation executed where it was asked for. *)
LEMMA SendLocalHomes ==
    ASSUME LinkIsFaithful, PairInv, TypesInv, HomeInv, NEW c \in Conn, NEW body \in Body[c], send_local(c, body)
    PROVE  HomeInv'
<1> DEFINE n == Home[c]
           op == parsed[body].op
<1>1. /\ asks(c, body) /\ owns(n, op)
      /\ kv' = [kv EXCEPT ![n] = executed(@, op)]
      /\ UNCHANGED <<next_corr, net>>
  BY Zenon DEF send_local
<1>2. n \in Pair
  BY PairAssumption
<1>3. /\ OpsMade \subseteq OpsMade' /\ OpsMade' \subseteq Ops /\ op \in OpsMade'
      /\ Len(requests') = Len(requests) + 1 /\ Len(requests) \in Nat
  BY <1>1, AskingMakes
<1>4. /\ kv = [m \in Pair |-> kv[m]]
      /\ \A m \in Pair : Housed(m, kv[m], OpsMade)
      /\ \A m \in Pair : next_corr[m] <= Len(requests)
      /\ \A d \in net : Sent(d, OpsMade)
  BY DEF HomeInv
<1>5. next_corr \in [Pair -> Nat]
  BY DEF TypesInv, SixTypeOK
<1> HIDE DEF n, op
<1> DEFINE made == OpsMade'
           before == OpsMade
<1>6. before \subseteq made /\ made \subseteq Ops /\ op \in made
  BY <1>3
<1>7. /\ \A m \in Pair : Housed(m, kv[m], before)
      /\ \A d \in net : Sent(d, before)
  BY <1>4
<1> HIDE DEF made, before
<1>8. /\ \A m \in Pair : Housed(m, kv[m], made)
      /\ \A d \in net : Sent(d, made)
  BY <1>6, <1>7, MadeStays, Zenon
<1>9. Housed(n, executed(kv[n], op), made)
  BY <1>1, <1>2, <1>6, <1>8, ExecutedHoused
<1>10. /\ kv' = [m \in Pair |-> kv'[m]]
       /\ \A m \in Pair : kv'[m] = IF m = n THEN executed(kv[n], op) ELSE kv[m]
  BY <1>1, <1>2, <1>4
<1>11. \A m \in Pair : Housed(m, kv'[m], made)
  BY <1>8, <1>9, <1>10
<1>12. \A m \in Pair : next_corr'[m] <= Len(requests')
  BY <1>1, <1>3, <1>4, <1>5
<1>13. net' = net
  BY <1>1
<1>14. QED
  BY <1>6, <1>8, <1>10, <1>11, <1>12, <1>13 DEF HomeInv, made

(* An operation forwarded: the next id is at most the number of requests   *)
(* made.                                                                   *)
LEMMA SendForwardHomes ==
    ASSUME LinkIsFaithful, PairInv, TypesInv, HomeInv, NEW c \in Conn, NEW body \in Body[c], send_forward(c, body)
    PROVE  HomeInv'
<1> DEFINE n == Home[c]
           op == parsed[body].op
           corr == mint(n)
           r == Len(requests')
           d0 == datagram(n, Request(corr, op), r)
<1>1. /\ asks(c, body)
      /\ next_corr' = [next_corr EXCEPT ![n] = corr]
      /\ net' = net \cup {d0} \/ UNCHANGED net
      /\ UNCHANGED kv
  BY Zenon DEF send_forward
<1>2. n \in Pair
  BY PairAssumption
<1>3. /\ OpsMade \subseteq OpsMade' /\ OpsMade' \subseteq Ops /\ op \in OpsMade'
      /\ Len(requests') = Len(requests) + 1 /\ Len(requests) \in Nat
      /\ Len(requests') \in 1..MaxRequests
  BY <1>1, AskingMakes
<1>4. /\ kv = [m \in Pair |-> kv[m]]
      /\ \A m \in Pair : Housed(m, kv[m], OpsMade)
      /\ \A m \in Pair : next_corr[m] <= Len(requests)
      /\ \A d \in net : Sent(d, OpsMade)
  BY DEF HomeInv
<1>5. next_corr \in [Pair -> Nat] /\ MaxRequests \in Nat
  BY PairAssumption DEF TypesInv, SixTypeOK
<1>6. corr = next_corr[n] + 1
  BY DEF mint
<1> HIDE DEF n, op, corr
<1>7. corr \in 1..MaxRequests /\ r \in 1..MaxRequests /\ corr <= r
  BY <1>2, <1>3, <1>4, <1>5, <1>6
<1>8. \A m \in Pair : next_corr'[m] <= Len(requests')
  BY <1>1, <1>2, <1>3, <1>4, <1>5, <1>7
<1> DEFINE made == OpsMade'
           before == OpsMade
<1>9. before \subseteq made /\ made \subseteq Ops /\ op \in made
  BY <1>3
<1>10. /\ \A m \in Pair : Housed(m, kv[m], before)
       /\ \A d \in net : Sent(d, before)
  BY <1>4
<1> HIDE DEF made, before, r
<1>11. /\ \A m \in Pair : Housed(m, kv[m], made)
       /\ \A d \in net : Sent(d, made)
  BY <1>9, <1>10, MadeStays, Zenon
<1>12. Sent(d0, made)
  BY <1>2, <1>7, <1>9, Zenon DEF Sent
<1> HIDE DEF d0
<1>13. \A d \in net' : Sent(d, made)
  BY <1>1, <1>11, <1>12
<1>14. kv' = kv
  BY <1>1
<1>15. QED
  BY <1>4, <1>8, <1>9, <1>11, <1>13, <1>14 DEF HomeInv, made

(* A forwarded operation, each time it arrives. *)
LEMMA HandleRequestHomes ==
    ASSUME LinkIsFaithful, HomeInv, NEW n \in Pair, NEW d \in net, handle_request(n, d, taken[n][d])
    PROVE  HomeInv'
<1> DEFINE t == taken[n][d]
           m == t.message
           op == m.op
           i == m.corr
           r == d.about
           reply == IF owns(n, op) THEN reply_of(kv[n], op) ELSE NotOwner
           d0 == datagram(n, Response(i, reply), r)
           made == OpsMade
<1>1. /\ t.ok /\ m.kind = "Request"
      /\ kv' = [kv EXCEPT ![n] = IF owns(n, op) THEN executed(@, op) ELSE @]
      /\ net' = net \cup {d0} \/ net' = net
      /\ UNCHANGED <<next_corr, requests>>
  BY Zenon DEF handle_request
<1>2. /\ kv = [k \in Pair |-> kv[k]]
      /\ \A k \in Pair : Housed(k, kv[k], made)
      /\ made \subseteq Ops
      /\ \A k \in Pair : next_corr[k] <= Len(requests)
      /\ \A e \in net : Sent(e, made)
  BY DEF HomeInv
<1>3. made' = made
  BY <1>1 DEF OpsMade
<1> HIDE DEF made
<1>4. Sent(d, made)
  BY <1>2
<1>5. i \in 1..MaxRequests /\ r \in 1..MaxRequests /\ op \in made
  BY <1>1, <1>2, <1>4, TakenRequest, Zenon
<1> HIDE DEF t, m, op, i, r
<1>6. Housed(n, kv[n], made)
  BY <1>2
<1>7. reply \in KvReplies
  <2>1. reply_of(kv[n], op) \in KvReplies
    BY <1>2, <1>5, <1>6, RepliesOfStore
  <2>2. NotOwner \in KvReplies
    BY DEF KvReplies
  <2>3. QED
    BY <2>1, <2>2
<1> HIDE DEF reply
<1>8. Sent(d0, made)
  BY <1>5, <1>7, Zenon DEF Sent
<1>9. owns(n, op) => Housed(n, executed(kv[n], op), made)
  BY <1>2, <1>5, <1>6, ExecutedHoused
<1>10. /\ kv' = [k \in Pair |-> kv'[k]]
       /\ \A k \in Pair : kv'[k] = IF k = n /\ owns(n, op) THEN executed(kv[n], op) ELSE kv[k]
  BY <1>1, <1>2
<1>11. \A k \in Pair : Housed(k, kv'[k], made)
  BY <1>2, <1>9, <1>10
<1> HIDE DEF d0
<1>12. \A e \in net' : Sent(e, made)
  BY <1>1, <1>2, <1>8
<1>13. /\ kv' = [k \in Pair |-> kv'[k]]
       /\ \A k \in Pair : Housed(k, kv'[k], made')
       /\ made' \subseteq Ops
       /\ \A k \in Pair : next_corr'[k] <= Len(requests')
       /\ \A e \in net' : Sent(e, made')
  BY <1>1, <1>2, <1>3, <1>10, <1>11, <1>12
<1>14. QED
  BY <1>13 DEF HomeInv, made

(* A restart forgets what was stored and starts the ids again. *)
LEMMA RestartHomes ==
    ASSUME PairInv, TypesInv, HomeInv, NEW n \in Pair, restart(n)
    PROVE  HomeInv'
<1>1. /\ kv' = [kv EXCEPT ![n] = [k \in {} |-> 0]]
      /\ next_corr' = [next_corr EXCEPT ![n] = 0]
      /\ UNCHANGED <<net, requests>>
  BY Zenon DEF restart
<1> DEFINE made == OpsMade
           none == [k \in {} |-> 0]
<1>2. /\ kv = [k \in Pair |-> kv[k]]
      /\ \A k \in Pair : Housed(k, kv[k], made)
      /\ made \subseteq Ops
      /\ \A k \in Pair : next_corr[k] <= Len(requests)
      /\ \A e \in net : Sent(e, made)
  BY DEF HomeInv
<1>3. made' = made
  BY <1>1 DEF OpsMade
<1> HIDE DEF made
<1>4. Housed(n, none, made)
  <2>1. DOMAIN none = {} /\ none = [k \in DOMAIN none |-> none[k]]
    OBVIOUS
  <2>2. IsFiniteSet({}) /\ Cardinality({}) = 0
    BY FS_EmptySet
  <2> HIDE DEF none
  <2>3. QED
    BY <2>1, <2>2, CapsAssumption DEF Housed
<1>5. /\ kv' = [k \in Pair |-> kv'[k]]
      /\ \A k \in Pair : kv'[k] = IF k = n THEN none ELSE kv[k]
  BY <1>1, <1>2
<1>6. Len(requests) \in Nat /\ next_corr \in [Pair -> Nat]
  BY DEF PairInv, Histories, TypesInv, SixTypeOK
<1> HIDE DEF none
<1>7. /\ kv' = [k \in Pair |-> kv'[k]]
      /\ \A k \in Pair : Housed(k, kv'[k], made')
      /\ made' \subseteq Ops
      /\ \A k \in Pair : next_corr'[k] <= Len(requests')
      /\ \A e \in net' : Sent(e, made')
  BY <1>1, <1>2, <1>3, <1>4, <1>5, <1>6
<1>8. QED
  BY <1>7 DEF HomeInv, made

(* Every step keeps the invariant. *)
LEMMA HomeStep ==
    ASSUME LinkIsFaithful, PairInv, TypesInv, HomeInv, [SixNext]_sixVars
    PROVE  HomeInv'
<1> DEFINE Quiet == UNCHANGED <<kv, net, requests, next_corr>>
<1>1. CASE UNCHANGED sixVars
  <2>1. Quiet
    BY <1>1 DEF sixVars
  <2>2. QED
    BY <2>1, QuietSteps
<1>2. ASSUME NEW c \in Conn,
             \/ client_up(c) \/ hang_up(c) \/ client_down(c)
             \/ \E command \in Command : other_frame(c, command)
             \/ \E body \in Body[c] : send_unkeyed(c, body)
      PROVE  HomeInv'
  <2>1. client_up(c) => Quiet
    BY Zenon DEF client_up
  <2>2. hang_up(c) => Quiet
    BY DEF hang_up, nodeVars, histVars
  <2>3. client_down(c) => Quiet
    BY Zenon DEF client_down
  <2>4. \A command \in Command : other_frame(c, command) => Quiet
    BY Zenon DEF other_frame
  <2>5. \A body \in Body[c] : send_unkeyed(c, body) => Quiet
    BY Zenon DEF send_unkeyed
  <2> HIDE DEF Quiet
  <2>6. Quiet
    BY <1>2, <2>1, <2>2, <2>3, <2>4, <2>5, Zenon
  <2>7. QED
    BY <2>6, QuietSteps DEF Quiet
<1>3. ASSUME NEW c \in Conn, NEW body \in Body[c], send_local(c, body) \/ send_forward(c, body)
      PROVE  HomeInv'
  BY <1>3, SendLocalHomes, SendForwardHomes, Zenon
<1>4. ASSUME NEW n \in Pair, NEW d \in net, NEW t, t = taken[n][d],
             handle_request(n, d, t) \/ handle_response(n, t) \/ ignore_datagram(n, t)
      PROVE  HomeInv'
  <2>1. handle_request(n, d, t) => HomeInv'
    BY <1>4, HandleRequestHomes, Zenon
  <2>2. handle_response(n, t) => Quiet
    BY Zenon DEF handle_response
  <2>3. ignore_datagram(n, t) => Quiet
    BY DEF ignore_datagram, sixVars
  <2>4. Quiet => HomeInv'
    BY QuietSteps
  <2> HIDE DEF Quiet
  <2>5. QED
    BY <1>4, <2>1, <2>2, <2>3, <2>4, Zenon
<1>5. ASSUME NEW n \in Pair, unblock(n) \/ tick(n) \/ restart(n)
      PROVE  HomeInv'
  <2>1. unblock(n) => Quiet
    BY Zenon DEF unblock
  <2>2. tick(n) => Quiet
    BY Zenon DEF tick
  <2>3. restart(n) => HomeInv'
    BY RestartHomes, Zenon
  <2>4. Quiet => HomeInv'
    BY QuietSteps
  <2> HIDE DEF Quiet
  <2>5. QED
    BY <1>5, <2>1, <2>2, <2>3, <2>4, Zenon
<1>6. CASE SixNext
  BY <1>2, <1>3, <1>4, <1>5, <1>6, Zenon DEF SixNext
<1>7. QED
  BY <1>1, <1>6

(* The placement of keys, and the path of every PUT, are kept for ever. *)
LEMMA HomeInvHolds ==
    ASSUME LinkIsFaithful
    PROVE  SixSpec => []HomeInv
<1>1. SixInit => HomeInv
  <2> SUFFICES ASSUME SixInit PROVE HomeInv
    OBVIOUS
  <2>1. /\ requests = <<>> /\ Len(requests) = 0 /\ DOMAIN requests = {}
        /\ kv = [n \in Pair |-> [k \in {} |-> 0]]
        /\ next_corr = [n \in Pair |-> 0] /\ net = Stray
    BY DEF SixInit
  <2>2. OpsMade = {}
    BY <2>1 DEF OpsMade
  <2>3. IsFiniteSet({}) /\ Cardinality({}) = 0
    BY FS_EmptySet
  <2>4. \A n \in Pair : DOMAIN kv[n] = {} /\ kv[n] = [k \in DOMAIN kv[n] |-> kv[n][k]]
    BY <2>1
  <2>5. \A n \in Pair : Housed(n, kv[n], OpsMade)
    BY <2>3, <2>4, CapsAssumption DEF Housed
  <2>6. \A d \in net : Sent(d, OpsMade)
    BY <2>1, Zenon DEF Sent
  <2>7. kv = [n \in Pair |-> kv[n]] /\ \A n \in Pair : next_corr[n] <= Len(requests)
    BY <2>1
  <2>8. QED
    BY <2>2, <2>5, <2>6, <2>7 DEF HomeInv
<1>2. QED
  BY <1>1, HomeStep, PairInvHolds, TypesInvHolds, PTL DEF SixSpec

(* Every key has one home, if the link hands over what was sent. *)
LEMMA HomesHold ==
    ASSUME LinkIsFaithful
    PROVE  SixSpec => []OneHome
<1>1. HomeInv => OneHome
  <2> SUFFICES ASSUME HomeInv, NEW n \in Pair
               PROVE  /\ Cardinality(DOMAIN kv[n]) <= MAX_KEYS
                      /\ \A k \in DOMAIN kv[n] :
                            /\ k % 2 = 1 <=> n <= peer(n)
                            /\ \E r \in DOMAIN requests : requests[r].op = Put(k, kv[n][k])
    BY DEF OneHome
  <2> DEFINE entries == kv[n]
  <2>1. Housed(n, entries, OpsMade)
    BY DEF HomeInv
  <2> HIDE DEF entries
  <2>2. ASSUME NEW k \in DOMAIN entries
        PROVE  \E r \in DOMAIN requests : requests[r].op = Put(k, entries[k])
    <3>1. Put(k, entries[k]) \in OpsMade
      BY <2>1 DEF Housed
    <3>2. QED
      BY <3>1, Zenon DEF OpsMade
  <2>3. QED
    BY <2>1, <2>2 DEF Housed, entries
<1>2. QED
  BY <1>1, HomeInvHolds, PTL

=============================================================================
