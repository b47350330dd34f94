----------------------------- MODULE LinkProofs -----------------------------
(***************************************************************************)
(* Two results about the link, for any nodes, keys, payloads, recipient    *)
(* lists and any number of datagrams: what is delivered was sent, and      *)
(* rotating keys receiver first loses nothing.                             *)
(***************************************************************************)
EXTENDS Link, FramesProofs

(* The provers get time enough on a slow machine. *)
USE SMTT(30), ZenonT(30)

(* The tables are those of the nodes, and their slots name nodes. *)
Typed ==
    /\ tables = [n \in Node |-> tables[n]]
    /\ \A n \in Node : DOMAIN tables[n] \subseteq Node \X Epoch

(* A slot of a table is a node and an epoch. *)
LEMMA TypedSlot ==
    ASSUME Typed, NEW n \in Node, NEW s \in DOMAIN tables[n]
    PROVE  s[1] \in Node /\ s[2] \in Epoch /\ s = <<s[1], s[2]>>
  BY DEF Typed

(* Installing and retiring keep the tables well formed, and change one     *)
(* slot of one node.                                                       *)
LEMMA InstallTables ==
    ASSUME Typed, NEW n \in Node, NEW slot \in Node \X Epoch, NEW m, install(n, slot, m)
    PROVE  /\ Typed'
           /\ \A q \in Node : \A s :
                 /\ s \in DOMAIN tables'[q] <=> s \in DOMAIN tables[q] \/ (q = n /\ s = slot)
                 /\ ~(q = n /\ s = slot) => tables'[q][s] = tables[q][s] \/ s \notin DOMAIN tables[q]
           /\ tables'[n][slot] = m
<1>1. tables' = [tables EXCEPT ![n] = insert(@, slot, m)] /\ DOMAIN tables = Node
  BY DEF install, Typed
<1>2. /\ tables' = [q \in Node |-> tables'[q]]
      /\ \A q \in Node : tables'[q] = IF q = n THEN insert(tables[n], slot, m) ELSE tables[q]
  BY <1>1, Zenon
<1>3. QED
  BY <1>2 DEF insert, Typed

(* Retiring frees the slot and leaves the others. *)
LEMMA RetireTables ==
    ASSUME Typed, NEW n \in Node, NEW slot, retire(n, slot)
    PROVE  /\ Typed'
           /\ \A q \in Node : \A s :
                 /\ s \in DOMAIN tables'[q] <=> s \in DOMAIN tables[q] /\ ~(q = n /\ s = slot)
                 /\ s \in DOMAIN tables'[q] => tables'[q][s] = tables[q][s]
<1>1. tables' = [tables EXCEPT ![n] = remove(@, slot)] /\ DOMAIN tables = Node
  BY DEF retire, Typed
<1>2. /\ tables' = [q \in Node |-> tables'[q]]
      /\ \A q \in Node : tables'[q] = IF q = n THEN remove(tables[n], slot) ELSE tables[q]
  BY <1>1, Zenon
<1>3. QED
  BY <1>2 DEF remove, Typed

-----------------------------------------------------------------------------
(* key_for_send_current finds a key of the peer whenever there is one. *)
LEMMA CurrentEpoch ==
    ASSUME Typed, NEW n \in Node, NEW p, peer_known(tables[n], p)
    PROVE  /\ p \in Node
           /\ key_for_send_current(tables[n], p) \in Epoch
           /\ <<p, key_for_send_current(tables[n], p)>> \in DOMAIN tables[n]
<1>1. DOMAIN tables[n] \subseteq Node \X Epoch
  BY DEF Typed
<1>2. <<p, key_for_send_current(tables[n], p)>> \in DOMAIN tables[n]
  BY <1>1, HighestIsCurrent
<1>3. QED
  BY <1>1, <1>2

-----------------------------------------------------------------------------
(* Frames as the sealers make them. *)

(* A datagram: its length, the nine bytes of its prefix, its ciphertexts. *)
Shaped(f) ==
    /\ f = [len |-> f.len, prefix |-> f.prefix, box |-> f.box, body |-> f.body]
    /\ f.len \in Nat
    /\ f.prefix \in [1..PREFIX_LEN -> Byte]

(* What every frame is that n seals for p on channel c. *)
Sealed(f, n, p, c, mode, e, payload) ==
    /\ Shaped(f)
    /\ parse_verdict(f.prefix) = "Ok"
    /\ parsed_header(f.prefix) = [from_id |-> n, to_id |-> p, channel |-> c]
    /\ parsed_flags(f.prefix) = [mode |-> mode, epoch |-> e]
    /\ "box" \in DOMAIN f
    /\ f.box.key = tables[n][<<p, e>>]
    /\ \/ /\ mode = "Standard"
          /\ f.len = payload.len + OVERHEAD
          /\ f.box.aad = frame_aad(f.prefix) /\ f.box.plain = payload
       \/ /\ mode = "Dek"
          /\ f.len = payload.len + DEK_OVERHEAD
          /\ f.box.aad = envelope_aad(f.prefix, f.body)
          /\ f.body.plain = payload /\ f.body.key = f.box.plain
          /\ f.body.aad = body_aad(n, c)

(* The clear part of a sealed frame names its sender and its recipient. *)
LEMMA SealedNames ==
    ASSUME NEW f, NEW n, NEW p, NEW c, NEW mode, NEW e, NEW payload,
           Sealed(f, n, p, c, mode, e, payload)
    PROVE  /\ Shaped(f) /\ parsed_header(f.prefix).from_id = n
           /\ parsed_header(f.prefix).to_id = p
<1>1. Shaped(f) /\ parsed_header(f.prefix) = [from_id |-> n, to_id |-> p, channel |-> c]
  BY Zenon DEF Sealed
<1> DEFINE header == [from_id |-> n, to_id |-> p, channel |-> c]
<1>2. header.from_id = n /\ header.to_id = p
  OBVIOUS
<1> HIDE DEF header
<1>3. parsed_header(f.prefix) = header
  BY <1>1 DEF header
<1>4. QED
  BY <1>1, <1>2, <1>3, Zenon

(* seal makes such a frame for a slot of the sender, or nothing. *)
LEMMA SealMakes ==
    ASSUME Typed, NEW n \in Node, NEW p \in Node, NEW c \in Channel, NEW payload \in PayloadArg,
           seal(n, p, c, payload)
    PROVE  \/ /\ UNCHANGED <<net, sent, draws>>
              /\ call'.verdict # "Ok" /\ call'.frames = <<>>
           \/ \E e \in Epoch : \E f :
                 /\ <<p, e>> \in DOMAIN tables[n]
                 /\ Sealed(f, n, p, c, "Standard", e, payload)
                 /\ net' = net \cup {f}
                 /\ sent' = sent \cup {message(n, p, c, payload)}
                 /\ call' = [from |-> n, recipients |-> <<p>>, verdict |-> "Ok", frames |-> <<f>>]
<1> DEFINE e == key_for_send_current(tables[n], p)
           f == standard_frame(n, tables[n], p, c, e, payload, <<draws, 0>>)
           prefix == prefix_of(n, p, c, "Standard", e)
           refused == /\ UNCHANGED <<net, sent, draws>>
                      /\ \E v : /\ v # "Ok"
                               /\ call' = [from |-> n, recipients |-> <<p>>,
                                           verdict |-> v, frames |-> <<>>]
           made == /\ peer_known(tables[n], p)
                   /\ net' = net \cup {f} /\ sent' = sent \cup {message(n, p, c, payload)}
                   /\ call' = [from |-> n, recipients |-> <<p>>, verdict |-> "Ok", frames |-> <<f>>]
<1>1. refused \/ made
  <2>1. CASE peer_known(tables[n], p)
    BY <2>1, Zenon DEF seal
  <2>2. CASE ~peer_known(tables[n], p)
    BY <2>2, Zenon DEF seal
  <2>3. QED
    BY <2>1, <2>2
<1>2. CASE made
  <2>1. e \in Epoch /\ <<p, e>> \in DOMAIN tables[n]
    BY <1>2, CurrentEpoch
  <2>2. f = [len |-> payload.len + OVERHEAD, prefix |-> prefix,
             box |-> aead_encrypt(tables[n][<<p, e>>], <<draws, 0>>, frame_aad(prefix), payload),
             body |-> NoBox]
    BY DEF standard_frame
  <2>3. /\ net' = net \cup {f} /\ sent' = sent \cup {message(n, p, c, payload)}
        /\ call' = [from |-> n, recipients |-> <<p>>, verdict |-> "Ok", frames |-> <<f>>]
    BY <1>2
  <2> HIDE DEF e, f
  <2>4. n \in U16 /\ p \in U16 /\ c \in U32 /\ payload.len \in Nat
    BY LinkAssumption, ProvisioningAssumption
  <2>5. /\ parse_verdict(prefix) = "Ok"
        /\ parsed_header(prefix) = [from_id |-> n, to_id |-> p, channel |-> c]
        /\ parsed_flags(prefix) = [mode |-> "Standard", epoch |-> e]
        /\ prefix \in [1..PREFIX_LEN -> Byte]
    BY <2>1, <2>4, PrefixReads, PrefixTyped DEF Mode
  <2> HIDE DEF prefix
  <2>6. /\ f.prefix = prefix /\ f.len = payload.len + OVERHEAD /\ "box" \in DOMAIN f
        /\ f.box = aead_encrypt(tables[n][<<p, e>>], <<draws, 0>>, frame_aad(prefix), payload)
        /\ f = [len |-> f.len, prefix |-> f.prefix, box |-> f.box, body |-> f.body]
    BY <2>2
  <2>7. /\ f.box.key = tables[n][<<p, e>>] /\ f.box.aad = frame_aad(prefix)
        /\ f.box.plain = payload
    BY <2>6 DEF aead_encrypt
  <2>8. Shaped(f)
    BY <2>4, <2>5, <2>6 DEF Shaped, OVERHEAD
  <2>9. Sealed(f, n, p, c, "Standard", e, payload)
    BY <2>5, <2>6, <2>7, <2>8 DEF Sealed
  <2>10. QED
    BY <2>1, <2>3, <2>9
<1>3. CASE refused
  BY <1>3
<1>4. QED
  BY <1>1, <1>2, <1>3

(* seal_fanout makes one for each recipient, in the caller's order and     *)
(* none twice, or nothing.                                                 *)
LEMMA FanoutCall ==
    ASSUME Typed, NEW n \in Node, NEW recipients \in RecipientList, NEW c \in Channel,
           NEW payload \in PayloadArg, seal_fanout(n, recipients, c, payload)
    PROVE  \/ /\ UNCHANGED <<net, sent, draws>>
              /\ call'.verdict # "Ok" /\ call'.frames = <<>>
           \/ \E frames :
                 /\ sent' = sent \cup {message(n, recipients[i], c, payload) :
                                          i \in DOMAIN recipients}
                 /\ net' = net \cup {frames[i] : i \in DOMAIN frames}
                 /\ call' = [from |-> n, recipients |-> recipients,
                             verdict |-> "Ok", frames |-> frames]
                 /\ frames = [i \in DOMAIN recipients |-> frames[i]]
                 /\ \A i, j \in DOMAIN recipients : recipients[i] = recipients[j] => i = j
                 /\ \A i \in DOMAIN recipients : \E e \in Epoch :
                       /\ recipients[i] \in Node
                       /\ <<recipients[i], e>> \in DOMAIN tables[n]
                       /\ Sealed(frames[i], n, recipients[i], c, "Dek", e, payload)
<1> DEFINE dek == fresh_dek(draws)
           nonces == [i \in DOMAIN recipients |-> <<draws, i>>]
           frames == fanout_frames(n, tables[n], recipients, c, payload, dek, <<draws, 0>>, nonces)
           body == aead_encrypt(dek, <<draws, 0>>, body_aad(n, c), payload)
           refused == /\ UNCHANGED <<net, sent, draws>>
                      /\ \E v : /\ v # "Ok"
                               /\ call' = [from |-> n, recipients |-> recipients,
                                           verdict |-> v, frames |-> <<>>]
           made == /\ fanout_verdict(tables[n], recipients, payload) = "Ok"
                   /\ net' = net \cup {frames[i] : i \in DOMAIN frames}
                   /\ sent' = sent \cup {message(n, recipients[i], c, payload) :
                                            i \in DOMAIN recipients}
                   /\ call' = [from |-> n, recipients |-> recipients,
                               verdict |-> "Ok", frames |-> frames]
<1>1. refused \/ made
  BY Zenon DEF seal_fanout
<1>2. frames = [i \in DOMAIN recipients |-> frames[i]]
  BY DEF fanout_frames
<1>3. ASSUME NEW i \in DOMAIN recipients, fanout_verdict(tables[n], recipients, payload) = "Ok"
      PROVE  \E e \in Epoch :
                /\ recipients[i] \in Node
                /\ <<recipients[i], e>> \in DOMAIN tables[n]
                /\ Sealed(frames[i], n, recipients[i], c, "Dek", e, payload)
  <2> DEFINE p == recipients[i]
             e == key_for_send_current(tables[n], p)
             prefix == prefix_of(n, p, c, "Dek", e)
             f == frames[i]
  <2>1. peer_known(tables[n], p)
    BY <1>3 DEF fanout_verdict
  <2>2. p \in Node /\ e \in Epoch /\ <<p, e>> \in DOMAIN tables[n]
    BY <2>1, CurrentEpoch
  <2>3. f = [len |-> payload.len + DEK_OVERHEAD, prefix |-> prefix,
             box |-> aead_encrypt(tables[n][<<p, e>>], nonces[i], envelope_aad(prefix, body), dek),
             body |-> body]
    BY <1>3 DEF fanout_frames
  <2>4. /\ parse_verdict(prefix) = "Ok"
        /\ parsed_header(prefix) = [from_id |-> n, to_id |-> p, channel |-> c]
        /\ parsed_flags(prefix) = [mode |-> "Dek", epoch |-> e]
        /\ prefix \in [1..PREFIX_LEN -> Byte]
    <3> HIDE DEF p, e
    <3>1. n \in U16 /\ p \in U16 /\ c \in U32
      BY <2>2, LinkAssumption, ProvisioningAssumption
    <3>2. QED
      BY <2>2, <3>1, PrefixReads, PrefixTyped DEF Mode
  <2>5. body.key = dek /\ body.aad = body_aad(n, c) /\ body.plain = payload
    BY DEF aead_encrypt
  <2> HIDE DEF p, e, f, prefix, body, dek, frames, nonces
  <2>6. /\ f.prefix = prefix /\ f.len = payload.len + DEK_OVERHEAD /\ "box" \in DOMAIN f
        /\ f.body = body
        /\ f.box = aead_encrypt(tables[n][<<p, e>>], nonces[i], envelope_aad(prefix, body), dek)
        /\ f = [len |-> f.len, prefix |-> f.prefix, box |-> f.box, body |-> f.body]
    BY <2>3
  <2>7. /\ f.box.key = tables[n][<<p, e>>] /\ f.box.aad = envelope_aad(prefix, body)
        /\ f.box.plain = dek
    BY <2>6 DEF aead_encrypt
  <2>8. Shaped(f)
    BY <2>4, <2>6, ProvisioningAssumption DEF Shaped, DEK_OVERHEAD
  <2>9. Sealed(f, n, p, c, "Dek", e, payload)
    BY <2>4, <2>5, <2>6, <2>7, <2>8 DEF Sealed
  <2>10. QED
    BY <2>2, <2>9 DEF p, f
<1>4. ASSUME fanout_verdict(tables[n], recipients, payload) = "Ok"
      PROVE  \A i, j \in DOMAIN recipients : recipients[i] = recipients[j] => i = j
  <2>1. DOMAIN recipients = 1..Len(recipients) /\ Len(recipients) \in Nat
    BY LinkAssumption
  <2>2. \A i \in DOMAIN recipients : ~ \E j \in 1..(i - 1) : recipients[j] = recipients[i]
    BY <1>4 DEF fanout_verdict
  <2>3. QED
    BY <2>1, <2>2
<1> HIDE DEF frames
<1>5. CASE refused
  BY <1>5
<1>6. CASE made
  <2>1. \A i \in DOMAIN recipients : \E e \in Epoch :
           /\ recipients[i] \in Node
           /\ <<recipients[i], e>> \in DOMAIN tables[n]
           /\ Sealed(frames[i], n, recipients[i], c, "Dek", e, payload)
    BY <1>3, <1>6
  <2>2. \A i, j \in DOMAIN recipients : recipients[i] = recipients[j] => i = j
    BY <1>4, <1>6
  <2>3. QED
    BY <1>2, <1>6, <2>1, <2>2, Zenon
<1>7. QED
  BY <1>1, <1>5, <1>6, Zenon

(* Only those frames go out. *)
LEMMA FanoutMakes ==
    ASSUME Typed, NEW n \in Node, NEW recipients \in RecipientList, NEW c \in Channel,
           NEW payload \in PayloadArg, seal_fanout(n, recipients, c, payload)
    PROVE  \/ UNCHANGED <<net, sent>>
           \/ /\ sent' = sent \cup {message(n, recipients[i], c, payload) :
                                        i \in DOMAIN recipients}
              /\ net \subseteq net'
              /\ \A f \in net' \ net : \E i \in DOMAIN recipients, e \in Epoch :
                    /\ recipients[i] \in Node
                    /\ <<recipients[i], e>> \in DOMAIN tables[n]
                    /\ Sealed(f, n, recipients[i], c, "Dek", e, payload)
<1>1. CASE UNCHANGED <<net, sent, draws>>
  BY <1>1
<1>2. CASE ~ UNCHANGED <<net, sent, draws>>
  <2>1. PICK frames :
          /\ sent' = sent \cup {message(n, recipients[i], c, payload) :
                                   i \in DOMAIN recipients}
          /\ net' = net \cup {frames[i] : i \in DOMAIN frames}
          /\ frames = [i \in DOMAIN recipients |-> frames[i]]
          /\ \A i \in DOMAIN recipients : \E e \in Epoch :
                /\ recipients[i] \in Node
                /\ <<recipients[i], e>> \in DOMAIN tables[n]
                /\ Sealed(frames[i], n, recipients[i], c, "Dek", e, payload)
    BY <1>2, FanoutCall
  <2>2. DOMAIN frames = DOMAIN recipients /\ net \subseteq net'
    BY <2>1
  <2>3. ASSUME NEW f \in net' \ net
        PROVE  \E i \in DOMAIN recipients, e \in Epoch :
                  /\ recipients[i] \in Node
                  /\ <<recipients[i], e>> \in DOMAIN tables[n]
                  /\ Sealed(f, n, recipients[i], c, "Dek", e, payload)
    <3>1. PICK i \in DOMAIN recipients : f = frames[i]
      BY <2>1, <2>2
    <3>2. QED
      BY <2>1, <3>1
  <2>4. QED
    BY <2>1, <2>2, <2>3
<1>3. QED
  BY <1>1, <1>2

-----------------------------------------------------------------------------
(* What is delivered was sent.  The invariant is about the ciphertexts in  *)
(* the network, which damage cannot change: each is bound by its           *)
(* associated data to a message that was sent.                             *)

claim(box, payload) ==
    LET h == parsed_header(box.aad.prefix)
    IN  message(h.from_id, h.to_id, h.channel, payload)

Genuine(box) ==
    IF parsed_flags(box.aad.prefix).mode = "Standard" THEN claim(box, box.plain) \in sent
    ELSE claim(box, box.aad.body.plain) \in sent

SentInv ==
    /\ Typed
    /\ \A m \in sent : m.payload # Noise
    /\ \A f \in net : "box" \in DOMAIN f /\ Genuine(f.box)
    /\ DeliveredWasSent

(* A sealed frame is bound to its message. *)
LEMMA SealedIsGenuine ==
    ASSUME NEW f, NEW n, NEW p, NEW c, NEW mode \in Mode, NEW e, NEW payload,
           Sealed(f, n, p, c, mode, e, payload), message(n, p, c, payload) \in sent'
    PROVE  "box" \in DOMAIN f /\ Genuine(f.box)'
<1>1. /\ parsed_header(f.prefix) = [from_id |-> n, to_id |-> p, channel |-> c]
      /\ parsed_flags(f.prefix).mode = mode /\ "box" \in DOMAIN f
  BY DEF Sealed
<1>2. f.box.aad.prefix = f.prefix
  BY DEF Sealed, frame_aad, envelope_aad
<1>3. \A x : claim(f.box, x) = message(n, p, c, x)
  BY <1>1, <1>2 DEF claim
<1>4. CASE mode = "Standard"
  <2>1. f.box.plain = payload
    BY <1>4 DEF Sealed
  <2>2. QED
    BY <1>1, <1>2, <1>3, <1>4, <2>1 DEF Genuine
<1>5. CASE mode = "Dek"
  <2>1. f.box.aad.body.plain = payload
    BY <1>5 DEF Sealed, envelope_aad
  <2>2. QED
    BY <1>1, <1>2, <1>3, <1>5, <2>1 DEF Genuine
<1>6. QED
  BY <1>4, <1>5 DEF Mode

(* What was sent stays sent, so a binding once made stays good. *)
LEMMA StaysGenuine ==
    ASSUME NEW box, Genuine(box), sent \subseteq sent'
    PROVE  Genuine(box)'
<1>1. CASE parsed_flags(box.aad.prefix).mode = "Standard"
  BY <1>1 DEF Genuine
<1>2. CASE parsed_flags(box.aad.prefix).mode # "Standard"
  BY <1>2 DEF Genuine
<1>3. QED
  BY <1>1, <1>2

(* standard::open and open_dek accept only what their associated data      *)
(* binds to the frame they are looking at.                                 *)
LEMMA OpenedWasSent ==
    ASSUME SentInv, NEW f \in net, NEW n, NEW table, open_verdict(n, table, f) = "Ok"
    PROVE  message(opened(f).from_id, n, opened(f).channel, opened(f).payload) \in sent
<1> DEFINE h == parsed_header(f.prefix)
           mode == parsed_flags(f.prefix).mode
<1>1. Genuine(f.box)
  BY DEF SentInv
<1>2. h.to_id = n /\ opened(f).from_id = h.from_id /\ opened(f).channel = h.channel
  BY DEF open_verdict, standard_verdict, dek_verdict, opened, from_codec, key_miss
<1>3. CASE mode = "Standard"
  <2>1. f.box.aad = frame_aad(f.prefix) /\ opened(f).payload = f.box.plain
    BY <1>3 DEF open_verdict, standard_verdict, opened, opens, from_codec, key_miss
  <2>2. f.box.aad.prefix = f.prefix
    BY <2>1 DEF frame_aad
  <2>3. claim(f.box, f.box.plain) \in sent
    BY <1>1, <1>3, <2>2 DEF Genuine
  <2>4. QED
    BY <1>2, <2>1, <2>2, <2>3 DEF claim
<1>4. CASE mode # "Standard"
  <2>1. /\ opened(f).payload = f.body.plain
        /\ \E body \in {f.body, NoBox} : f.box.aad = envelope_aad(f.prefix, body)
    BY <1>4 DEF open_verdict, dek_verdict, opened, opens, from_codec, key_miss
  <2>2. PICK body \in {f.body, NoBox} : f.box.aad = envelope_aad(f.prefix, body)
    BY <2>1
  <2>3. f.box.aad.prefix = f.prefix /\ f.box.aad.body = body
    BY <2>2 DEF envelope_aad
  <2>4. claim(f.box, body.plain) \in sent
    BY <1>1, <1>4, <2>3 DEF Genuine
  <2>5. claim(f.box, body.plain).payload = body.plain
    BY DEF claim, message
  <2>6. body.plain # Noise
    BY <2>4, <2>5 DEF SentInv
  <2>7. body = f.body
    BY <2>6 DEF NoBox, aead_encrypt
  <2>8. QED
    BY <1>2, <2>1, <2>3, <2>4, <2>7 DEF claim
<1>5. QED
  BY <1>3, <1>4

(* Damage changes prefix, length or body, never the ciphertext under the   *)
(* pre-shared key.                                                         *)
LEMMA DamageKeepsBox ==
    ASSUME NEW f, "box" \in DOMAIN f, NEW g \in damaged(f)
    PROVE  "box" \in DOMAIN g /\ g.box = f.box
<1> DEFINE T == IF "to_id" \in Damage
                THEN {[f EXCEPT !.prefix[4] = n % 256] : n \in Node} ELSE {}
           C == IF "channel" \in Damage
                THEN {[f EXCEPT !.prefix[8] = (@ + 1) % 256]} ELSE {}
           M == IF "mode" \in Damage
                THEN {[f EXCEPT !.prefix[9] = IF @ % 2 = 0 THEN @ + 1 ELSE @ - 1]} ELSE {}
           E == IF "epoch" \in Damage
                THEN {[f EXCEPT !.prefix[9] = (@ + 8) % 256]} ELSE {}
           L == IF "length" \in Damage /\ f.len > PREFIX_LEN
                THEN {[f EXCEPT !.len = @ - 1]} ELSE {}
           B == IF "body" \in Damage
                THEN {[f EXCEPT !.body = h.body, !.len = h.len] :
                         h \in {k \in net : k.body # NoBox}} ELSE {}
           kept == "box" \in DOMAIN g /\ g.box = f.box
<1>1. damaged(f) = UNION {T, C, M, E, L, B}
  BY Zenon DEF damaged
<1> HIDE DEF T, C, M, E, L, B
<1>2. g \in T \/ g \in C \/ g \in M \/ g \in E \/ g \in L \/ g \in B
  BY <1>1
<1>3. CASE g \in T
  BY <1>3 DEF T
<1>4. CASE g \in C
  BY <1>4 DEF C
<1>5. CASE g \in M
  BY <1>5 DEF M
<1>6. CASE g \in E
  BY <1>6 DEF E
<1>7. CASE g \in L
  BY <1>7, Zenon DEF L
<1>8. CASE g \in B
  BY <1>8, Zenon DEF B
<1>9. QED
  BY <1>2, <1>3, <1>4, <1>5, <1>6, <1>7, <1>8, Zenon

(* Every step keeps the invariant. *)
LEMMA SentStep ==
    ASSUME SentInv, [LinkNext]_linkVars
    PROVE  SentInv'
<1>1. CASE Sealing
  <2>1. PICK n \in Sealer, c \in Channel, payload \in PayloadArg :
           \/ \E to \in Node \ {n} : seal(n, to, c, payload)
           \/ \E recipients \in RecipientList : seal_fanout(n, recipients, c, payload)
    BY <1>1 DEF Sealing
  <2>2. n \in Node /\ payload # Noise
    BY LinkAssumption, ProvisioningAssumption
  <2>3. ASSUME NEW to \in Node, seal(n, to, c, payload) PROVE SentInv'
    <3>1. UNCHANGED <<tables, delivered>>
      BY <2>3, Zenon DEF seal
    <3>2. CASE UNCHANGED <<net, sent>>
      BY <3>1, <3>2 DEF SentInv, Typed, Genuine, DeliveredWasSent
    <3>3. ASSUME NEW e \in Epoch, NEW f, Sealed(f, n, to, c, "Standard", e, payload),
                 net' = net \cup {f}, sent' = sent \cup {message(n, to, c, payload)}
          PROVE  SentInv'
      <4>1. "box" \in DOMAIN f /\ Genuine(f.box)'
        BY <3>3, SealedIsGenuine DEF Mode
      <4>2. \A g \in net : "box" \in DOMAIN g /\ Genuine(g.box)'
        BY <3>3, StaysGenuine DEF SentInv
      <4>3. message(n, to, c, payload).payload = payload
        BY DEF message
      <4>4. Typed' /\ DeliveredWasSent'
        BY <3>1, <3>3 DEF SentInv, Typed, DeliveredWasSent
      <4>5. \A g \in net' : "box" \in DOMAIN g /\ Genuine(g.box)'
        BY <3>3, <4>1, <4>2
      <4>6. QED
        BY <2>2, <3>3, <4>3, <4>4, <4>5 DEF SentInv
    <3>4. QED
      BY <2>2, <2>3, <3>2, <3>3, SealMakes, Zenon DEF SentInv
  <2>4. ASSUME NEW recipients \in RecipientList, seal_fanout(n, recipients, c, payload) PROVE SentInv'
    <3>1. UNCHANGED <<tables, delivered>>
      BY <2>4, Zenon DEF seal_fanout
    <3>2. CASE UNCHANGED <<net, sent>>
      BY <3>1, <3>2 DEF SentInv, Typed, Genuine, DeliveredWasSent
    <3>3. CASE /\ sent' = sent \cup {message(n, recipients[i], c, payload) :
                                       i \in DOMAIN recipients}
               /\ \A f \in net' \ net : \E i \in DOMAIN recipients, e \in Epoch :
                     /\ recipients[i] \in Node
                     /\ <<recipients[i], e>> \in DOMAIN tables[n]
                     /\ Sealed(f, n, recipients[i], c, "Dek", e, payload)
      <4>1. \A f \in net' \ net : "box" \in DOMAIN f /\ Genuine(f.box)'
        <5>1. TAKE f \in net' \ net
        <5>2. PICK i \in DOMAIN recipients, e \in Epoch :
                 Sealed(f, n, recipients[i], c, "Dek", e, payload)
          BY <3>3, Zenon
        <5>3. message(n, recipients[i], c, payload) \in sent'
          BY <3>3
        <5>4. QED
          BY <5>2, <5>3, SealedIsGenuine DEF Mode
      <4>2. \A g \in net : "box" \in DOMAIN g /\ Genuine(g.box)'
        BY <3>3, StaysGenuine DEF SentInv
      <4>3. \A i : message(n, recipients[i], c, payload).payload = payload
        BY DEF message
      <4>4. Typed' /\ DeliveredWasSent'
        BY <3>1, <3>3 DEF SentInv, Typed, DeliveredWasSent
      <4>5. \A m \in sent' : m.payload # Noise
        BY <2>2, <3>3, <4>3 DEF SentInv
      <4>6. QED
        BY <4>1, <4>2, <4>4, <4>5 DEF SentInv
    <3>4. \/ UNCHANGED <<net, sent>>
          \/ /\ sent' = sent \cup {message(n, recipients[i], c, payload) :
                                       i \in DOMAIN recipients}
             /\ net \subseteq net'
             /\ \A f \in net' \ net : \E i \in DOMAIN recipients, e \in Epoch :
                   /\ recipients[i] \in Node
                   /\ <<recipients[i], e>> \in DOMAIN tables[n]
                   /\ Sealed(f, n, recipients[i], c, "Dek", e, payload)
      <4>1. Typed
        BY DEF SentInv
      <4>2. QED
        BY <2>2, <2>4, <4>1, FanoutMakes
    <3>5. QED
      BY <3>2, <3>3, <3>4
  <2>5. QED
    BY <2>1, <2>3, <2>4
<1>2. ASSUME NEW p \in Provisioning, install(p[1], p[2], p[3]) PROVE SentInv'
  <2>1. Typed'
    BY <1>2, InstallTables, ProvisioningAssumption DEF SentInv
  <2>2. UNCHANGED <<net, sent, delivered>>
    BY <1>2 DEF install
  <2>3. QED
    BY <2>1, <2>2 DEF SentInv, Genuine, DeliveredWasSent
<1>3. ASSUME NEW p \in Provisioning, retire(p[1], p[2]) PROVE SentInv'
  <2>1. Typed'
    BY <1>3, RetireTables, ProvisioningAssumption DEF SentInv
  <2>2. UNCHANGED <<net, sent, delivered>>
    BY <1>3 DEF retire
  <2>3. QED
    BY <2>1, <2>2 DEF SentInv, Genuine, DeliveredWasSent
<1>4. ASSUME NEW f \in net, lose(f) PROVE SentInv'
  BY <1>4 DEF lose, SentInv, Typed, Genuine, DeliveredWasSent
<1>5. ASSUME NEW f \in net, damage(f) PROVE SentInv'
  <2>1. PICK g \in damaged(f) : net' = (net \ {f}) \cup {g}
    BY <1>5 DEF damage
  <2>2. UNCHANGED <<tables, sent, delivered>>
    BY <1>5 DEF damage
  <2>3. "box" \in DOMAIN f /\ Genuine(f.box)
    BY DEF SentInv
  <2>4. "box" \in DOMAIN g /\ g.box = f.box
    BY <2>3, DamageKeepsBox
  <2>5. \A k \in net' : "box" \in DOMAIN k /\ Genuine(k.box)
    BY <2>1, <2>3, <2>4 DEF SentInv
  <2>6. QED
    BY <2>2, <2>5 DEF SentInv, Typed, Genuine, DeliveredWasSent
<1>6. ASSUME NEW f \in net, NEW n \in Node, receive(n, f) PROVE SentInv'
  <2> DEFINE o == opened(f)
             d == [message |-> message(o.from_id, n, o.channel, o.payload), at |-> n]
  <2>1. UNCHANGED <<tables, net, sent>>
    BY <1>6 DEF receive
  <2>2. \/ delivered' = delivered
        \/ open_verdict(n, tables[n], f) = "Ok" /\ delivered' = delivered \cup {d}
    BY <1>6, Zenon DEF receive
  <2>3. open_verdict(n, tables[n], f) = "Ok" => d.message \in sent
    BY OpenedWasSent
  <2> HIDE DEF d
  <2>4. DeliveredWasSent'
    BY <2>1, <2>2, <2>3 DEF SentInv, DeliveredWasSent
  <2>5. QED
    BY <2>1, <2>4 DEF SentInv, Typed, Genuine
<1>7. CASE UNCHANGED linkVars
  BY <1>7 DEF linkVars, SentInv, Typed, Genuine, DeliveredWasSent
<1>8. QED
  BY <1>1, <1>2, <1>3, <1>4, <1>5, <1>6, <1>7 DEF LinkNext

(* Whatever the network does to datagrams, and whoever shares keys with    *)
(* whom, what open hands to a node was sealed by its sender for that node. *)
THEOREM WhatIsDeliveredWasSent == LinkSpec => []DeliveredWasSent
<1>1. LinkInit => SentInv
  BY LinkAssumption, ProvisioningAssumption DEF LinkInit, SentInv, Typed, DeliveredWasSent
<1>2. SentInv /\ [LinkNext]_linkVars => SentInv'
  BY SentStep
<1>3. SentInv => DeliveredWasSent
  BY DEF SentInv
<1>4. QED
  BY <1>1, <1>2, <1>3, PTL DEF LinkSpec

-----------------------------------------------------------------------------
(* Rotation.  As long as operators went receiver first and nothing was     *)
(* damaged, every key of a sender is also at the other end, and every      *)
(* datagram in flight is as it was sealed, under a key its recipient has.  *)

Mirrored ==
    \A n \in Sealer : \A s \in DOMAIN tables[n] : holds(s[1], <<n, s[2]>>, tables[n][s])

Keyed(f) ==
    LET h == parsed_header(f.prefix)
        e == parsed_flags(f.prefix).epoch
    IN  h.from_id \in Sealer /\ h.to_id \in Node /\ holds(h.to_id, <<h.from_id, e>>, f.box.key)

RotationInv ==
    /\ Typed /\ hits \in Nat
    /\ careful /\ hits = 0 => Mirrored /\ \A f \in net : Whole(f) /\ Keyed(f)

(* Such a datagram opens. *)
LEMMA WholeAndKeyedOpens ==
    ASSUME NEW f, Whole(f), Keyed(f), NEW to, to = parsed_header(f.prefix).to_id
    PROVE  open_verdict(to, tables[to], f) = "Ok"
<1> DEFINE h == parsed_header(f.prefix)
           slot == <<h.from_id, parsed_flags(f.prefix).epoch>>
<1>1. contains_key(tables[to], slot) /\ tables[to][slot] = f.box.key
  BY DEF Keyed, holds
<1>2. QED
  BY <1>1, WholeVerdict

(* A frame that was just sealed is whole. *)
LEMMA SealedIsWhole ==
    ASSUME NEW f, NEW n, NEW p, NEW c, NEW mode \in Mode, NEW e, NEW payload \in PayloadArg,
           Sealed(f, n, p, c, mode, e, payload)
    PROVE  Whole(f)
<1>1. payload # Noise /\ payload.len \in Nat
  BY ProvisioningAssumption
<1>2. /\ parse_verdict(f.prefix) = "Ok"
      /\ parsed_header(f.prefix).from_id = n /\ parsed_header(f.prefix).channel = c
      /\ parsed_flags(f.prefix).mode = mode
  BY DEF Sealed
<1>3. CASE mode = "Standard"
  <2>1. /\ f.len = payload.len + OVERHEAD
        /\ f.box.aad = frame_aad(f.prefix) /\ f.box.plain = payload
    BY <1>3 DEF Sealed
  <2>2. ~(f.len < OVERHEAD) /\ f.len - OVERHEAD = payload.len
    BY <1>1, <2>1 DEF OVERHEAD
  <2>3. intact(f.box, f.len - OVERHEAD)
    BY <1>1, <2>1, <2>2 DEF intact
  <2>4. QED
    BY <1>2, <1>3, <2>1, <2>2, <2>3 DEF Whole
<1>4. CASE mode = "Dek"
  <2>1. /\ f.len = payload.len + DEK_OVERHEAD
        /\ f.box.aad = envelope_aad(f.prefix, f.body)
        /\ f.body.plain = payload /\ f.body.key = f.box.plain
        /\ f.body.aad = body_aad(n, c)
    BY <1>4 DEF Sealed
  <2>2. ~(f.len < DEK_OVERHEAD) /\ f.len - DEK_OVERHEAD = payload.len
    BY <1>1, <2>1 DEF DEK_OVERHEAD
  <2>3. intact(f.body, f.len - DEK_OVERHEAD)
    BY <1>1, <2>1, <2>2 DEF intact
  <2>4. QED
    BY <1>2, <1>4, <2>1, <2>2, <2>3 DEF Whole, opens
<1>5. QED
  BY <1>3, <1>4 DEF Mode

(* And keyed at its recipient, whose keys mirror the sender's. *)
LEMMA SealedIsKeyed ==
    ASSUME Mirrored, NEW n \in Sealer, NEW p \in Node, NEW c, NEW mode \in Mode, NEW e,
           <<p, e>> \in DOMAIN tables[n], NEW payload \in PayloadArg,
           NEW f, Sealed(f, n, p, c, mode, e, payload)
    PROVE  Whole(f) /\ Keyed(f)
<1>1. /\ parsed_header(f.prefix).from_id = n /\ parsed_header(f.prefix).to_id = p
      /\ parsed_flags(f.prefix).epoch = e /\ f.box.key = tables[n][<<p, e>>]
  BY DEF Sealed
<1>2. Keyed(f)
  BY <1>1 DEF Keyed, Mirrored
<1>3. QED
  BY <1>2, SealedIsWhole

(* A receiver-first install: the other end has a sender's new key already, *)
(* and a receiver's slot in use is not overwritten.                        *)
LEMMA InstallRotates ==
    ASSUME RotationInv, NEW n \in Node, NEW slot \in Node \X Epoch, NEW m, install(n, slot, m)
    PROVE  RotationInv'
<1> DEFINE p == slot[1]
           mirrored == <<n, slot[2]>>
<1>1. /\ Typed'
      /\ \A q \in Node : \A s :
            /\ s \in DOMAIN tables'[q] <=> s \in DOMAIN tables[q] \/ (q = n /\ s = slot)
            /\ ~(q = n /\ s = slot) => tables'[q][s] = tables[q][s] \/ s \notin DOMAIN tables[q]
      /\ tables'[n][slot] = m
  BY InstallTables DEF RotationInv
<1>2. /\ UNCHANGED <<net, hits>>
      /\ careful' => /\ careful
                     /\ n \in Sealer => holds(p, mirrored, m)
                     /\ p \in Sealer => ~contains_key(tables[n], slot)
  BY DEF install
<1>3. SUFFICES ASSUME careful', hits = 0
               PROVE  Mirrored' /\ \A f \in net : Whole(f)' /\ Keyed(f)'
  BY <1>1, <1>2 DEF RotationInv
<1>4. Mirrored /\ \A f \in net : Whole(f) /\ Keyed(f)
  BY <1>2, <1>3 DEF RotationInv
<1>5. p \in Node /\ slot = <<p, slot[2]>>
  OBVIOUS
<1>6. ASSUME NEW q \in Node, NEW o \in Sealer, NEW e, NEW k, holds(q, <<o, e>>, k)
      PROVE  holds(q, <<o, e>>, k)'
  <2>1. <<o, e>> \in DOMAIN tables[q] /\ tables[q][<<o, e>>] = k
    BY <1>6 DEF holds, contains_key
  <2>2. ~(q = n /\ <<o, e>> = slot)
    <3>1. SUFFICES ASSUME q = n, <<o, e>> = slot PROVE FALSE
      OBVIOUS
    <3>2. p = o
      BY <3>1
    <3>3. QED
      BY <1>2, <1>3, <2>1, <3>1, <3>2 DEF contains_key
  <2>3. QED
    BY <1>1, <2>1, <2>2 DEF holds, contains_key
<1>7. Mirrored'
  <2>1. SUFFICES ASSUME NEW o \in Sealer, NEW s \in DOMAIN tables'[o]
                 PROVE  holds(s[1], <<o, s[2]>>, tables[o][s])'
    BY Zenon DEF Mirrored
  <2>2. o \in Node
    BY LinkAssumption
  <2>3. CASE s \in DOMAIN tables[o] /\ ~(o = n /\ s = slot)
    <3>1. holds(s[1], <<o, s[2]>>, tables[o][s])
      BY <1>4, <2>3 DEF Mirrored
    <3>2. s[1] \in Node
      BY <2>2, <2>3, TypedSlot DEF RotationInv
    <3>3. holds(s[1], <<o, s[2]>>, tables'[o][s])
      BY <1>1, <2>2, <2>3, <3>1
    <3>4. QED
      BY <1>6, <3>2, <3>3 DEF holds
  <2>4. CASE o = n /\ s = slot
    <3>1. holds(p, mirrored, m)
      BY <1>2, <1>3, <2>4
    <3>2. tables'[o][s] = m
      BY <1>1, <2>4
    <3>3. CASE p = n
      BY <1>1, <1>5, <2>2, <2>4, <3>2, <3>3 DEF holds, contains_key
    <3>4. CASE p # n
      BY <1>1, <1>5, <2>4, <3>1, <3>2, <3>4 DEF holds, contains_key
    <3>5. QED
      BY <3>3, <3>4
  <2>5. QED
    BY <1>1, <2>2, <2>3, <2>4
<1>8. ASSUME NEW f \in net PROVE Whole(f)' /\ Keyed(f)'
  <2>1. Whole(f)'
    BY <1>4 DEF Whole
  <2>2. Keyed(f)'
    BY <1>4, <1>6 DEF Keyed
  <2>3. QED
    BY <2>1, <2>2
<1>9. QED
  BY <1>7, <1>8

(* A receiver-first retirement: the sender no longer has the key, and no   *)
(* datagram under it is in flight.                                         *)
LEMMA RetireRotates ==
    ASSUME RotationInv, NEW n \in Node, NEW slot \in Node \X Epoch, retire(n, slot)
    PROVE  RotationInv'
<1> DEFINE p == slot[1]
           mirrored == <<n, slot[2]>>
<1>1. /\ Typed'
      /\ \A q \in Node : \A s :
            /\ s \in DOMAIN tables'[q] <=> s \in DOMAIN tables[q] /\ ~(q = n /\ s = slot)
            /\ s \in DOMAIN tables'[q] => tables'[q][s] = tables[q][s]
  BY RetireTables DEF RotationInv
<1>2. /\ UNCHANGED <<net, hits>>
      /\ careful' => /\ careful
                     /\ p \in Sealer => /\ ~contains_key(tables[p], mirrored)
                                        /\ ~in_flight(n, slot)
  BY DEF retire
<1>3. SUFFICES ASSUME careful', hits = 0
               PROVE  Mirrored' /\ \A f \in net : Whole(f)' /\ Keyed(f)'
  BY <1>1, <1>2 DEF RotationInv
<1>4. Mirrored /\ \A f \in net : Whole(f) /\ Keyed(f)
  BY <1>2, <1>3 DEF RotationInv
<1>5. ASSUME NEW q \in Node, NEW s, NEW k, holds(q, s, k), ~(q = n /\ s = slot)
      PROVE  holds(q, s, k)'
  BY <1>1, <1>5 DEF holds, contains_key
<1>6. Mirrored'
  <2>1. SUFFICES ASSUME NEW o \in Sealer, NEW s \in DOMAIN tables'[o]
                 PROVE  holds(s[1], <<o, s[2]>>, tables[o][s])'
    BY Zenon DEF Mirrored
  <2>2. o \in Node
    BY LinkAssumption
  <2>3. s \in DOMAIN tables[o] /\ tables'[o][s] = tables[o][s]
    BY <1>1, <2>2
  <2>4. s[1] \in Node /\ s = <<s[1], s[2]>>
    BY <2>2, <2>3, TypedSlot DEF RotationInv
  <2>5. holds(s[1], <<o, s[2]>>, tables'[o][s])
    BY <1>4, <2>3 DEF Mirrored
  <2>6. ~(s[1] = n /\ <<o, s[2]>> = slot)
    <3>1. SUFFICES ASSUME s[1] = n, <<o, s[2]>> = slot PROVE FALSE
      OBVIOUS
    <3>2. p = o /\ s = mirrored
      BY <2>4, <3>1
    <3>3. QED
      BY <1>2, <1>3, <2>3, <3>2 DEF contains_key
  <2>7. QED
    BY <1>5, <2>4, <2>5, <2>6 DEF holds
<1>7. ASSUME NEW f \in net PROVE Whole(f)' /\ Keyed(f)'
  <2> DEFINE h == parsed_header(f.prefix)
             e == parsed_flags(f.prefix).epoch
  <2>1. Whole(f)'
    BY <1>4 DEF Whole
  <2>2. h.from_id \in Sealer /\ h.to_id \in Node /\ holds(h.to_id, <<h.from_id, e>>, f.box.key)
    BY <1>4 DEF Keyed
  <2>3. ~(h.to_id = n /\ <<h.from_id, e>> = slot)
    <3>1. SUFFICES ASSUME h.to_id = n, <<h.from_id, e>> = slot PROVE FALSE
      OBVIOUS
    <3>2. slot[1] = h.from_id /\ slot[2] = e
      BY <3>1
    <3>3. in_flight(n, slot)
      BY <3>1, <3>2 DEF in_flight
    <3>4. QED
      BY <1>2, <1>3, <2>2, <3>2, <3>3
  <2>4. holds(h.to_id, <<h.from_id, e>>, f.box.key)'
    BY <1>5, <2>2, <2>3
  <2>5. QED
    BY <2>1, <2>2, <2>4, Zenon DEF Keyed
<1>8. QED
  BY <1>6, <1>7

(* A step that changes no table and no history of damage: new datagrams    *)
(* have to be whole and keyed.                                             *)
LEMMA SendRotates ==
    ASSUME RotationInv, UNCHANGED <<tables, hits, careful>>,
           Mirrored => \A f \in net' \ net : Whole(f) /\ Keyed(f)
    PROVE  RotationInv'
<1>1. Typed' /\ Mirrored' = Mirrored
  BY ZenonT(30) DEF RotationInv, Typed, Mirrored, holds
<1>2. \A f : Whole(f)' = Whole(f) /\ Keyed(f)' = Keyed(f)
  BY Zenon DEF Whole, Keyed, holds
<1>3. QED
  BY <1>1, <1>2 DEF RotationInv

(* Every step keeps the invariant. *)
LEMMA RotationStep ==
    ASSUME RotationInv, [LinkNext]_linkVars
    PROVE  RotationInv'
<1>0. Typed
  BY DEF RotationInv
<1>1. CASE Sealing
  <2>1. PICK n \in Sealer, c \in Channel, payload \in PayloadArg :
           \/ \E to \in Node \ {n} : seal(n, to, c, payload)
           \/ \E recipients \in RecipientList : seal_fanout(n, recipients, c, payload)
    BY <1>1 DEF Sealing
  <2>2. n \in Node
    BY LinkAssumption
  <2>3. ASSUME NEW to \in Node, seal(n, to, c, payload) PROVE RotationInv'
    <3>1. UNCHANGED <<tables, hits, careful>>
      BY <2>3, Zenon DEF seal
    <3>2. ASSUME NEW f \in net' \ net
          PROVE  \E e \in Epoch : /\ <<to, e>> \in DOMAIN tables[n]
                                  /\ Sealed(f, n, to, c, "Standard", e, payload)
      <4>1. \/ /\ UNCHANGED <<net, sent, draws>>
               /\ call'.verdict # "Ok" /\ call'.frames = <<>>
            \/ \E e \in Epoch : \E g :
                  /\ <<to, e>> \in DOMAIN tables[n]
                  /\ Sealed(g, n, to, c, "Standard", e, payload)
                  /\ net' = net \cup {g}
                  /\ sent' = sent \cup {message(n, to, c, payload)}
                  /\ call' = [from |-> n, recipients |-> <<to>>, verdict |-> "Ok",
                              frames |-> <<g>>]
        BY <1>0, <2>2, <2>3, SealMakes, Zenon
      <4>2. ASSUME NEW e \in Epoch, NEW g, <<to, e>> \in DOMAIN tables[n],
                   Sealed(g, n, to, c, "Standard", e, payload), net' = net \cup {g}
            PROVE  \E x \in Epoch : /\ <<to, x>> \in DOMAIN tables[n]
                                    /\ Sealed(f, n, to, c, "Standard", x, payload)
        <5>1. f = g
          BY <3>2, <4>2
        <5>2. QED
          BY <4>2, <5>1
      <4>3. net' # net
        BY <3>2
      <4>4. QED
        BY <4>1, <4>2, <4>3, Zenon
    <3>3. Mirrored => \A f \in net' \ net : Whole(f) /\ Keyed(f)
      BY <3>2, SealedIsKeyed, Zenon DEF Mode
    <3>4. QED
      BY <3>1, <3>3, SendRotates
  <2>4. ASSUME NEW recipients \in RecipientList, seal_fanout(n, recipients, c, payload) PROVE RotationInv'
    <3>1. UNCHANGED <<tables, hits, careful>>
      BY <2>4, Zenon DEF seal_fanout
    <3>2. ASSUME NEW f \in net' \ net
          PROVE  \E i \in DOMAIN recipients, e \in Epoch :
                    /\ recipients[i] \in Node
                    /\ <<recipients[i], e>> \in DOMAIN tables[n]
                    /\ Sealed(f, n, recipients[i], c, "Dek", e, payload)
      BY <1>0, <2>2, <2>4, FanoutMakes
    <3>3. Mirrored => \A f \in net' \ net : Whole(f) /\ Keyed(f)
      BY <3>2, SealedIsKeyed, Zenon DEF Mode
    <3>4. QED
      BY <3>1, <3>3, SendRotates
  <2>5. QED
    BY <2>1, <2>3, <2>4
<1>2. ASSUME NEW p \in Provisioning, install(p[1], p[2], p[3]) PROVE RotationInv'
  BY <1>2, InstallRotates, ProvisioningAssumption
<1>3. ASSUME NEW p \in Provisioning, retire(p[1], p[2]) PROVE RotationInv'
  BY <1>3, RetireRotates, ProvisioningAssumption
<1>4. ASSUME NEW f \in net, lose(f) PROVE RotationInv'
  BY <1>4, SendRotates DEF lose
<1>5. ASSUME NEW f \in net, damage(f) PROVE RotationInv'
  BY <1>5 DEF damage, RotationInv, Typed
<1>6. ASSUME NEW f \in net, NEW n \in Node, receive(n, f) PROVE RotationInv'
  BY <1>6, SendRotates DEF receive
<1>7. CASE UNCHANGED linkVars
  BY <1>7, SendRotates DEF linkVars
<1>8. QED
  BY <1>1, <1>2, <1>3, <1>4, <1>5, <1>6, <1>7 DEF LinkNext

(* Rotating receiver first loses nothing, for any nodes, keys, epochs and  *)
(* any datagrams in flight.                                                *)
THEOREM RotationIsHitless == LinkSpec => []HitlessRotation
<1>1. LinkInit => RotationInv
  <2> SUFFICES ASSUME LinkInit PROVE RotationInv
    OBVIOUS
  <2>1. tables = Tables /\ net = {} /\ hits = 0
    BY DEF LinkInit
  <2>2. Typed
    BY <2>1, ProvisioningAssumption DEF Typed
  <2>3. Mirrored
    BY <2>1, ProvisioningAssumption, Zenon DEF Mirrored, holds, contains_key
  <2>4. QED
    BY <2>1, <2>2, <2>3 DEF RotationInv
<1>2. RotationInv /\ [LinkNext]_linkVars => RotationInv'
  BY RotationStep
<1>3. RotationInv => HitlessRotation
  BY WholeAndKeyedOpens DEF RotationInv, HitlessRotation
<1>4. QED
  BY <1>1, <1>2, <1>3, PTL DEF LinkSpec

-----------------------------------------------------------------------------
(* Types.  Damage is bounded by the datagram it is done to. *)

TypesInv ==
    /\ Typed
    /\ draws \in 0..MaxDraws
    /\ \A f \in net : Shaped(f)

(* A changed byte of the prefix leaves nine bytes. *)
LEMMA ByteKeepsShape ==
    ASSUME NEW f, Shaped(f), NEW i \in 1..PREFIX_LEN, NEW b \in Byte,
           NEW g, g = [f EXCEPT !.prefix[i] = b]
    PROVE  Shaped(g)
<1>1. /\ g.len = f.len /\ g.prefix = [f.prefix EXCEPT ![i] = b]
      /\ g = [len |-> g.len, prefix |-> g.prefix, box |-> g.box, body |-> g.body]
  BY DEF Shaped
<1>2. [f.prefix EXCEPT ![i] = b] \in [1..PREFIX_LEN -> Byte]
  BY DEF Shaped
<1>3. QED
  BY <1>1, <1>2 DEF Shaped

(* A datagram stays one under every kind of damage. *)
LEMMA DamageKeepsShape ==
    ASSUME NEW f, Shaped(f), \A h \in net : Shaped(h), NEW g \in damaged(f)
    PROVE  Shaped(g)
<1> DEFINE T == IF "to_id" \in Damage
                THEN {[f EXCEPT !.prefix[4] = n % 256] : n \in Node} ELSE {}
           C == IF "channel" \in Damage
                THEN {[f EXCEPT !.prefix[8] = (@ + 1) % 256]} ELSE {}
           M == IF "mode" \in Damage
                THEN {[f EXCEPT !.prefix[9] = IF @ % 2 = 0 THEN @ + 1 ELSE @ - 1]} ELSE {}
           E == IF "epoch" \in Damage
                THEN {[f EXCEPT !.prefix[9] = (@ + 8) % 256]} ELSE {}
           L == IF "length" \in Damage /\ f.len > PREFIX_LEN
                THEN {[f EXCEPT !.len = @ - 1]} ELSE {}
           B == IF "body" \in Damage
                THEN {[f EXCEPT !.body = h.body, !.len = h.len] :
                         h \in {k \in net : k.body # NoBox}} ELSE {}
           b8 == f.prefix[8]
           b9 == f.prefix[9]
<1>1. damaged(f) = UNION {T, C, M, E, L, B}
  BY Zenon DEF damaged
<1>2. /\ f = [len |-> f.len, prefix |-> f.prefix, box |-> f.box, body |-> f.body]
      /\ f.len \in Nat /\ b8 \in 0..255 /\ b9 \in 0..255
      /\ 4 \in 1..PREFIX_LEN /\ 8 \in 1..PREFIX_LEN /\ 9 \in 1..PREFIX_LEN
  <2>1. 4 \in 1..PREFIX_LEN /\ 8 \in 1..PREFIX_LEN /\ 9 \in 1..PREFIX_LEN
    BY DEF PREFIX_LEN
  <2>2. f.prefix \in [1..PREFIX_LEN -> Byte] /\ f.len \in Nat
    BY DEF Shaped
  <2>3. b8 \in 0..255 /\ b9 \in 0..255
    BY <2>1, <2>2, ZenonT(30) DEF Byte
  <2>4. f = [len |-> f.len, prefix |-> f.prefix, box |-> f.box, body |-> f.body]
    BY Zenon DEF Shaped
  <2>5. QED
    BY <2>1, <2>2, <2>3, <2>4, Zenon
<1> HIDE DEF T, C, M, E, L, B, b8, b9
<1>3. g \in T \/ g \in C \/ g \in M \/ g \in E \/ g \in L \/ g \in B
  BY <1>1
<1>4. CASE g \in T
  <2>1. PICK n \in Node : g = [f EXCEPT !.prefix[4] = n % 256]
    BY <1>4 DEF T
  <2>2. n % 256 \in Byte
    BY LinkAssumption, U16Number
  <2>3. QED
    BY <1>2, <2>1, <2>2, ByteKeepsShape
<1>5. CASE g \in C
  <2>1. g = [f EXCEPT !.prefix[8] = (b8 + 1) % 256]
    BY <1>5 DEF C, b8
  <2>2. (b8 + 1) % 256 \in Byte
    BY <1>2 DEF Byte
  <2>3. QED
    BY <1>2, <2>1, <2>2, ByteKeepsShape
<1>6. CASE g \in M
  <2>1. g = [f EXCEPT !.prefix[9] = IF b9 % 2 = 0 THEN b9 + 1 ELSE b9 - 1]
    BY <1>6 DEF M, b9
  <2>2. (IF b9 % 2 = 0 THEN b9 + 1 ELSE b9 - 1) \in Byte
    BY <1>2 DEF Byte
  <2>3. QED
    BY <1>2, <2>1, <2>2, ByteKeepsShape
<1>7. CASE g \in E
  <2>1. g = [f EXCEPT !.prefix[9] = (b9 + 8) % 256]
    BY <1>7 DEF E, b9
  <2>2. (b9 + 8) % 256 \in Byte
    BY <1>2 DEF Byte
  <2>3. QED
    BY <1>2, <2>1, <2>2, ByteKeepsShape
<1>8. CASE g \in L
  <2>1. f.len > PREFIX_LEN /\ g = [f EXCEPT !.len = f.len - 1]
    BY <1>8 DEF L
  <2>2. f.len - 1 \in Nat
    BY <1>2, <2>1 DEF PREFIX_LEN
  <2>3. QED
    BY <1>2, <2>1, <2>2 DEF Shaped
<1>9. CASE g \in B
  <2>1. PICK h \in net : g = [f EXCEPT !.body = h.body, !.len = h.len]
    BY <1>9, Zenon DEF B
  <2>2. h.len \in Nat
    BY DEF Shaped
  <2>3. QED
    BY <1>2, <2>1, <2>2, Zenon DEF Shaped
<1>10. QED
  BY <1>3, <1>4, <1>5, <1>6, <1>7, <1>8, <1>9, Zenon

-----------------------------------------------------------------------------
(* What one call of seal or seal_fanout makes: one whole frame for each of *)
(* its recipients, from n, and none for the same recipient twice.          *)
Made(frames, n, recipients) ==
    /\ frames = [i \in DOMAIN recipients |-> frames[i]]
    /\ recipients = [i \in DOMAIN recipients |-> recipients[i]]
    /\ \A i, j \in DOMAIN recipients : recipients[i] = recipients[j] => i = j
    /\ \A i \in DOMAIN recipients :
          /\ Shaped(frames[i]) /\ Whole(frames[i])
          /\ recipients[i] \in Node
          /\ parsed_header(frames[i].prefix).from_id = n
          /\ parsed_header(frames[i].prefix).to_id = recipients[i]

Refused == net' = net /\ call'.verdict # "Ok" /\ call'.frames = <<>>

Succeeded ==
    /\ call'.verdict = "Ok"
    /\ net' = net \cup {call'.frames[i] : i \in DOMAIN call'.frames}
    /\ Made(call'.frames, call'.from, call'.recipients)

(* A call makes all of its frames, or none. *)
LEMMA SealingCall ==
    ASSUME Typed, Sealing
    PROVE  UNCHANGED tables /\ (Refused \/ Succeeded)
<1>1. PICK n \in Sealer, c \in Channel, payload \in PayloadArg :
         \/ \E to \in Node \ {n} : seal(n, to, c, payload)
         \/ \E recipients \in RecipientList : seal_fanout(n, recipients, c, payload)
  BY DEF Sealing
<1>2. n \in Node
  BY LinkAssumption
<1>3. ASSUME NEW p \in Node, seal(n, p, c, payload)
      PROVE  UNCHANGED tables /\ (Refused \/ Succeeded)
  <2>1. UNCHANGED tables
    BY <1>3, Zenon DEF seal
  <2>2. \/ /\ UNCHANGED <<net, sent, draws>>
           /\ call'.verdict # "Ok" /\ call'.frames = <<>>
        \/ \E e \in Epoch : \E f :
              /\ <<p, e>> \in DOMAIN tables[n]
              /\ Sealed(f, n, p, c, "Standard", e, payload)
              /\ net' = net \cup {f}
              /\ sent' = sent \cup {message(n, p, c, payload)}
              /\ call' = [from |-> n, recipients |-> <<p>>, verdict |-> "Ok", frames |-> <<f>>]
    BY <1>2, <1>3, SealMakes, Zenon
  <2>3. ASSUME NEW e \in Epoch, NEW f, Sealed(f, n, p, c, "Standard", e, payload),
               net' = net \cup {f},
               call' = [from |-> n, recipients |-> <<p>>, verdict |-> "Ok", frames |-> <<f>>]
        PROVE  Succeeded
    <3>1. /\ Shaped(f) /\ parsed_header(f.prefix).from_id = n
          /\ parsed_header(f.prefix).to_id = p
      BY <2>3, SealedNames, Zenon
    <3>2. Whole(f)
      BY <2>3, SealedIsWhole DEF Mode
    <3>3. Made(<<f>>, n, <<p>>)
      BY <3>1, <3>2 DEF Made
    <3>4. net' = net \cup {<<f>>[i] : i \in DOMAIN <<f>>}
      BY <2>3
    <3>5. /\ call'.verdict = "Ok" /\ call'.frames = <<f>>
          /\ call'.from = n /\ call'.recipients = <<p>>
      BY <2>3
    <3>6. QED
      BY <3>3, <3>4, <3>5 DEF Succeeded
  <2>4. QED
    BY <2>1, <2>2, <2>3, Zenon DEF Refused
<1>4. ASSUME NEW recipients \in RecipientList, seal_fanout(n, recipients, c, payload)
      PROVE  UNCHANGED tables /\ (Refused \/ Succeeded)
  <2>1. UNCHANGED tables
    BY <1>4, Zenon DEF seal_fanout
  <2>2. CASE Refused
    BY <2>1, <2>2
  <2>3. CASE ~Refused
    <3>1. PICK frames :
            /\ sent' = sent \cup {message(n, recipients[i], c, payload) :
                                     i \in DOMAIN recipients}
            /\ net' = net \cup {frames[i] : i \in DOMAIN frames}
            /\ call' = [from |-> n, recipients |-> recipients,
                        verdict |-> "Ok", frames |-> frames]
            /\ frames = [i \in DOMAIN recipients |-> frames[i]]
            /\ \A i, j \in DOMAIN recipients : recipients[i] = recipients[j] => i = j
            /\ \A i \in DOMAIN recipients : \E e \in Epoch :
                  /\ recipients[i] \in Node
                  /\ <<recipients[i], e>> \in DOMAIN tables[n]
                  /\ Sealed(frames[i], n, recipients[i], c, "Dek", e, payload)
      <4>1. ~(/\ UNCHANGED <<net, sent, draws>>
              /\ call'.verdict # "Ok" /\ call'.frames = <<>>)
        BY <2>3 DEF Refused
      <4>2. QED
        BY <1>2, <1>4, <4>1, FanoutCall
    <3>2. ASSUME NEW i \in DOMAIN recipients
          PROVE  /\ Shaped(frames[i]) /\ Whole(frames[i])
                 /\ recipients[i] \in Node
                 /\ parsed_header(frames[i].prefix).from_id = n
                 /\ parsed_header(frames[i].prefix).to_id = recipients[i]
      <4>1. recipients[i] \in Node
        BY <3>1, Zenon
      <4>2. PICK e \in Epoch : Sealed(frames[i], n, recipients[i], c, "Dek", e, payload)
        BY <3>1, Zenon
      <4>3. Whole(frames[i])
        BY <4>2, SealedIsWhole DEF Mode
      <4>4. QED
        <5>1. /\ Shaped(frames[i]) /\ parsed_header(frames[i].prefix).from_id = n
              /\ parsed_header(frames[i].prefix).to_id = recipients[i]
          BY <4>2, SealedNames, Zenon
        <5>2. QED
          BY <4>1, <4>3, <5>1, Zenon
    <3>3. recipients = [i \in DOMAIN recipients |-> recipients[i]]
      BY LinkAssumption
    <3>4. Made(frames, n, recipients)
      BY <3>1, <3>2, <3>3 DEF Made
    <3>5. /\ call'.verdict = "Ok" /\ call'.frames = frames
          /\ call'.from = n /\ call'.recipients = recipients
      BY <3>1
    <3>6. QED
      BY <2>1, <3>1, <3>4, <3>5 DEF Succeeded
  <2>4. QED
    BY <2>2, <2>3
<1>5. QED
  BY <1>1, <1>3, <1>4

(* Any other step makes no call and no frame; the tables stay well formed. *)
LEMMA OtherSteps ==
    ASSUME Typed, [LinkNext]_linkVars, ~Sealing
    PROVE  Typed' /\ UNCHANGED <<call, draws>>
<1>1. ASSUME NEW p \in Provisioning, install(p[1], p[2], p[3])
      PROVE  Typed' /\ UNCHANGED <<call, draws>>
  BY <1>1, InstallTables, ProvisioningAssumption, Zenon DEF install
<1>2. ASSUME NEW p \in Provisioning, retire(p[1], p[2])
      PROVE  Typed' /\ UNCHANGED <<call, draws>>
  BY <1>2, RetireTables, ProvisioningAssumption, Zenon DEF retire
<1>3. ASSUME NEW f \in net, lose(f) \/ damage(f) \/ \E n \in Node : receive(n, f)
      PROVE  Typed' /\ UNCHANGED <<call, draws>>
  BY <1>3 DEF lose, damage, receive, Typed
<1>4. CASE UNCHANGED linkVars
  BY <1>4 DEF linkVars, Typed
<1>5. QED
  BY <1>1, <1>2, <1>3, <1>4, Zenon DEF LinkNext

(* Every step keeps the types. *)
LEMMA TypesStep ==
    ASSUME TypesInv, [LinkNext]_linkVars
    PROVE  TypesInv'
<1>1. CASE Sealing
  <2>1. UNCHANGED tables /\ (Refused \/ Succeeded)
    BY <1>1, SealingCall DEF TypesInv
  <2>2. \A f \in net' : Shaped(f)
    <3>1. CASE Refused
      BY <3>1 DEF Refused, TypesInv
    <3>2. CASE Succeeded
      <4>1. DOMAIN call'.frames = DOMAIN call'.recipients
        BY <3>2 DEF Succeeded, Made
      <4>2. QED
        BY <3>2, <4>1 DEF Succeeded, Made, TypesInv
    <3>3. QED
      BY <2>1, <3>1, <3>2
  <2>3. draws < MaxDraws /\ draws' \in {draws, draws + 1}
    <3>1. ASSUME NEW n, NEW to, NEW c, NEW payload, seal(n, to, c, payload)
          PROVE  draws < MaxDraws /\ draws' \in {draws, draws + 1}
      BY <3>1, ZenonT(30) DEF seal
    <3>2. ASSUME NEW n, NEW recipients, NEW c, NEW payload, seal_fanout(n, recipients, c, payload)
          PROVE  draws < MaxDraws /\ draws' \in {draws, draws + 1}
      BY <3>2, Zenon DEF seal_fanout
    <3>3. QED
      BY <1>1, <3>1, <3>2 DEF Sealing
  <2>4. draws' \in 0..MaxDraws
    BY <2>3, LinkAssumption DEF TypesInv
  <2>5. QED
    BY <2>1, <2>2, <2>4 DEF TypesInv, Typed
<1>2. CASE ~Sealing
  <2>1. Typed' /\ UNCHANGED draws
    BY <1>2, OtherSteps DEF TypesInv
  <2>2. \A f \in net' : Shaped(f)
    <3>1. ASSUME NEW f \in net, damage(f) PROVE \A g \in net' : Shaped(g)
      <4>1. PICK g \in damaged(f) : net' = (net \ {f}) \cup {g}
        BY <3>1 DEF damage
      <4>2. Shaped(g)
        BY DamageKeepsShape DEF TypesInv
      <4>3. QED
        BY <4>1, <4>2 DEF TypesInv
    <3>2. CASE net' \subseteq net
      BY <3>2, Zenon DEF TypesInv
    <3>3. net' \subseteq net \/ \E f \in net : damage(f)
      BY <1>2, Zenon DEF LinkNext, install, retire, lose, receive, linkVars
    <3>4. QED
      BY <3>1, <3>2, <3>3
  <2>3. QED
    BY <2>1, <2>2 DEF TypesInv
<1>3. QED
  BY <1>1, <1>2

(* Slots stay within u16 and the 32 epochs, and a datagram stays one under *)
(* any amount of damage.                                                   *)
THEOREM LinkTypes == LinkSpec => []LinkTypeOK
<1>1. LinkInit => TypesInv
  BY LinkAssumption, ProvisioningAssumption DEF LinkInit, TypesInv, Typed
<1>2. TypesInv /\ [LinkNext]_linkVars => TypesInv'
  BY TypesStep
<1>3. TypesInv => LinkTypeOK
  <2> SUFFICES ASSUME TypesInv PROVE LinkTypeOK
    OBVIOUS
  <2>1. \A n \in Node : DOMAIN tables[n] \subseteq Slot
    BY LinkAssumption DEF TypesInv, Typed, Slot
  <2>2. \A f \in net : Len(f.prefix) = PREFIX_LEN /\ f.len \in Nat
    BY DEF TypesInv, Shaped, PREFIX_LEN
  <2>3. QED
    BY <2>1, <2>2 DEF TypesInv, LinkTypeOK
<1>4. QED
  BY <1>1, <1>2, <1>3, PTL DEF LinkSpec

-----------------------------------------------------------------------------
(* seal_fanout is all or nothing, and so is seal: a refused call leaves no *)
(* frame, a successful one exactly one for each recipient, in order.       *)
THEOREM FanoutIsAllOrNothing == LinkSpec => FanoutAllOrNothing
<1> DEFINE recipient(f) == parsed_header(f.prefix).to_id
           frames == call'.frames
           AllOrNothing ==
              /\ call'.verdict # "Ok" => frames = <<>> /\ net' = net
              /\ call'.verdict = "Ok" =>
                    /\ \A i, j \in DOMAIN frames :
                          recipient(frames[i]) = recipient(frames[j]) => i = j
                    /\ [i \in DOMAIN frames |-> recipient(frames[i])] = call'.recipients
                    /\ net' = net \cup {frames[i] : i \in DOMAIN frames}
<1>1. TypesInv /\ [LinkNext]_linkVars => [call' # call => AllOrNothing]_linkVars
  <2> SUFFICES ASSUME TypesInv, [LinkNext]_linkVars, call' # call PROVE AllOrNothing
    OBVIOUS
  <2>1. Sealing
    BY OtherSteps DEF TypesInv
  <2>2. Refused \/ Succeeded
    BY <2>1, SealingCall DEF TypesInv
  <2>3. CASE Refused
    BY <2>3 DEF Refused
  <2>4. CASE Succeeded
    <3>1. /\ DOMAIN frames = DOMAIN call'.recipients
          /\ \A i \in DOMAIN frames : recipient(frames[i]) = call'.recipients[i]
      BY <2>4 DEF Succeeded, Made
    <3>2. \A i, j \in DOMAIN frames : call'.recipients[i] = call'.recipients[j] => i = j
      BY <2>4, <3>1 DEF Succeeded, Made
    <3>3. call'.recipients = [i \in DOMAIN call'.recipients |-> call'.recipients[i]]
      BY <2>4 DEF Succeeded, Made
    <3>4. [i \in DOMAIN frames |-> recipient(frames[i])] = call'.recipients
      BY <3>1, <3>3
    <3>5. QED
      BY <2>4, <3>1, <3>2, <3>4, Zenon DEF Succeeded
  <2>5. QED
    BY <2>2, <2>3, <2>4
<1>2. LinkInit => TypesInv
  BY LinkAssumption, ProvisioningAssumption DEF LinkInit, TypesInv, Typed
<1>3. TypesInv /\ [LinkNext]_linkVars => TypesInv'
  BY TypesStep
<1>4. QED
  BY <1>1, <1>2, <1>3, PTL DEF LinkSpec, FanoutAllOrNothing

-----------------------------------------------------------------------------
(* Diagnosis.  The frames of the last call stay what they were sealed as,  *)
(* while the tables of their recipients go on changing.                    *)

CallInv ==
    /\ Typed
    /\ \A i \in DOMAIN call.frames :
          /\ Whole(call.frames[i])
          /\ parsed_header(call.frames[i].prefix).from_id = call.from
          /\ parsed_header(call.frames[i].prefix).to_id \in Node

(* Every step keeps the invariant. *)
LEMMA CallStep ==
    ASSUME CallInv, [LinkNext]_linkVars
    PROVE  CallInv'
<1>1. CASE ~Sealing
  <2>1. Typed' /\ UNCHANGED call
    BY <1>1, OtherSteps DEF CallInv
  <2>2. QED
    BY <2>1, Zenon DEF CallInv, Whole
<1>2. CASE Sealing
  <2>1. UNCHANGED tables /\ (Refused \/ Succeeded)
    BY <1>2, SealingCall DEF CallInv
  <2>2. Typed'
    BY <2>1, Zenon DEF CallInv, Typed
  <2>3. CASE Refused
    BY <2>2, <2>3 DEF Refused, CallInv
  <2>4. CASE Succeeded
    <3>1. DOMAIN call'.frames = DOMAIN call'.recipients
      BY <2>4 DEF Succeeded, Made
    <3>2. \A i \in DOMAIN call'.frames :
             /\ Whole(call'.frames[i])
             /\ parsed_header(call'.frames[i].prefix).from_id = call'.from
             /\ parsed_header(call'.frames[i].prefix).to_id \in Node
      BY <2>4, <3>1 DEF Succeeded, Made
    <3>3. QED
      BY <2>2, <3>2 DEF CallInv
  <2>5. QED
    BY <2>1, <2>3, <2>4
<1>3. QED
  BY <1>1, <1>2, Zenon

(* NoPeer, NoEpoch and AuthFailed tell the truth about the recipient's     *)
(* keys at the moment the datagram arrives, and otherwise it opens.        *)
THEOREM DiagnosisIsFaithful == LinkSpec => []FaithfulDiagnosis
<1>1. LinkInit => CallInv
  <2> SUFFICES ASSUME LinkInit PROVE CallInv
    OBVIOUS
  <2>1. call.frames = <<>> /\ Typed
    BY ProvisioningAssumption DEF LinkInit, NoCall, Typed
  <2>2. QED
    BY <2>1 DEF CallInv
<1>2. CallInv /\ [LinkNext]_linkVars => CallInv'
  BY CallStep, Zenon
<1>3. CallInv => FaithfulDiagnosis
  <2> SUFFICES ASSUME CallInv, NEW i \in DOMAIN call.frames
               PROVE  LET f == call.frames[i]
                          to == parsed_header(f.prefix).to_id
                          slot == <<call.from, parsed_flags(f.prefix).epoch>>
                          verdict == open_verdict(to, tables[to], f)
                      IN  /\ verdict = "NoPeer" <=>
                                \A e \in Epoch : <<call.from, e>> \notin DOMAIN tables[to]
                          /\ verdict = "Ok" <=> holds(to, slot, f.box.key)
                          /\ verdict \in {"Ok", "NoPeer", "NoEpoch", "AuthFailed"}
    BY Zenon DEF FaithfulDiagnosis
  <2> DEFINE f == call.frames[i]
             to == parsed_header(f.prefix).to_id
             slot == <<call.from, parsed_flags(f.prefix).epoch>>
             verdict == open_verdict(to, tables[to], f)
  <2>1. Whole(f) /\ parsed_header(f.prefix).from_id = call.from /\ to \in Node
    BY DEF CallInv
  <2>2. verdict = IF ~contains_key(tables[to], slot) THEN key_miss(tables[to], call.from)
                  ELSE IF tables[to][slot] = f.box.key THEN "Ok" ELSE "AuthFailed"
    <3> DEFINE table == tables[to]
               h == parsed_header(f.prefix)
               ours == <<h.from_id, parsed_flags(f.prefix).epoch>>
    <3>1. open_verdict(h.to_id, table, f) =
             IF ~contains_key(table, ours) THEN key_miss(table, h.from_id)
             ELSE IF table[ours] = f.box.key THEN "Ok" ELSE "AuthFailed"
      <4> HIDE DEF f, table
      <4>1. Whole(f)
        BY <2>1
      <4>2. QED
        BY <4>1, WholeVerdict, Zenon
    <3>2. h.from_id = call.from /\ ours = slot
      BY <2>1
    <3> HIDE DEF slot, ours
    <3>3. QED
      BY <3>1, <3>2, Zenon
  <2>3. DOMAIN tables[to] \subseteq Node \X Epoch
    BY <2>1 DEF CallInv, Typed
  <2> HIDE DEF f, to, slot, verdict
  <2>4. peer_known(tables[to], call.from)
           <=> \E e \in Epoch : <<call.from, e>> \in DOMAIN tables[to]
    <3>1. peer_known(tables[to], call.from) <=> \E s \in DOMAIN tables[to] : s[1] = call.from
      BY DEF peer_known, installed_epochs
    <3>2. ASSUME NEW s \in DOMAIN tables[to], s[1] = call.from
          PROVE  s[2] \in Epoch /\ <<call.from, s[2]>> \in DOMAIN tables[to]
      BY <2>3, <3>2
    <3>3. ASSUME NEW e \in Epoch, <<call.from, e>> \in DOMAIN tables[to]
          PROVE  \E s \in DOMAIN tables[to] : s[1] = call.from
      BY <3>3
    <3>4. QED
      BY <3>1, <3>2, <3>3, Zenon
  <2>5. contains_key(tables[to], slot) => peer_known(tables[to], call.from)
    BY <2>3, <2>4 DEF contains_key, slot
  <2>6. verdict = "Ok" <=> holds(to, slot, f.box.key)
    BY <2>2 DEF holds, key_miss
  <2>7. /\ verdict = "NoPeer" <=> ~peer_known(tables[to], call.from)
        /\ verdict \in {"Ok", "NoPeer", "NoEpoch", "AuthFailed"}
    BY <2>2, <2>5 DEF key_miss
  <2>8. QED
    BY <2>4, <2>6, <2>7, Zenon DEF f, to, slot, verdict
<1>4. QED
  BY <1>1, <1>2, <1>3, PTL DEF LinkSpec

=============================================================================
