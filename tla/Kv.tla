--------------------------------- MODULE Kv ---------------------------------
(***************************************************************************)
(* The store of six-seven-server (kv.rs): the placement rule, the          *)
(* operations and how a client writes them, and the caps.                  *)
(***************************************************************************)
EXTENDS Text, FiniteSets

CONSTANTS
    MAX_PUT_BYTES,  \* 1024: longest PUT, measured on the client's text
    MAX_KEYS        \* 1,000,000: keys held by one node

ASSUME CapsAssumption == MAX_PUT_BYTES \in Nat /\ MAX_KEYS \in Nat

(* Odd keys live on the lower-numbered node, even keys on the higher. *)
owner(key, a, b) ==
    LET lower == IF a <= b THEN a ELSE b
        higher == IF a <= b THEN b ELSE a
    IN  IF key % 2 = 1 THEN lower ELSE higher

Get(k) == [verb |-> "Get", key |-> k, value |-> <<>>]
Put(k, v) == [verb |-> "Put", key |-> k, value |-> v]
Rm(k) == [verb |-> "Rm", key |-> k, value |-> <<>>]

(* A reply; text is the value of a hit or the words of an error. *)
Value(v) == [tag |-> "Value", text |-> v]
Ok == [tag |-> "Ok", text |-> <<>>]
Nil == [tag |-> "Nil", text |-> <<>>]
Err(words) == [tag |-> "Err", text |-> words]

-----------------------------------------------------------------------------
(* Op::parse.  Only leading whitespace goes; what follows the key of a PUT *)
(* is the value as sent, nothing at all included.                          *)

to_ascii_uppercase(verb) ==
    LET pairs == {<<"get", "GET">>, <<"put", "PUT">>, <<"set", "SET">>,
                  <<"rm", "RM">>, <<"del", "DEL">>}
    IN  [i \in DOMAIN verb |-> IF \E p \in pairs : p[1] = verb[i]
                               THEN (CHOOSE p \in pairs : p[1] = verb[i])[2] ELSE verb[i]]

refused(words) == [ok |-> FALSE, op |-> Get(0), why |-> words]
accepted(op) == [ok |-> TRUE, op |-> op, why |-> <<>>]

with_key(text, verb, value) ==
    IF trim(text) = <<>> THEN refused(<<"missing key">>)
    ELSE IF ~is_u64(trim(text)) THEN refused(<<"not a u64">>)
    ELSE accepted([verb |-> verb, key |-> parse_u64(trim(text)), value |-> value])

put_too_long_unchecked(text) == FALSE

put_too_long(text) == Len(text) > MAX_PUT_BYTES

parse(body) ==
    LET text == trim_start(body, whitespace)
        request == split_once(text, whitespace)
        verb == to_ascii_uppercase(request.left)
        rest == trim_start(request.right, whitespace)
        put == split_once(rest, whitespace)
    IN  CASE verb = <<"GET">> -> with_key(rest, "Get", <<>>)
          [] verb \in {<<"RM">>, <<"DEL">>} -> with_key(rest, "Rm", <<>>)
          [] verb \in {<<"PUT">>, <<"SET">>} ->
                IF put_too_long(text) THEN refused(<<"put too long">>)
                ELSE IF ~put.found THEN refused(<<"PUT needs a key and a value">>)
                ELSE with_key(put.left, "Put", put.right)
          [] verb = <<>> -> refused(<<"empty request">>)
          [] OTHER -> refused(<<"unknown verb">>)

-----------------------------------------------------------------------------
(* Store::execute: the entries it leaves and the reply it gives.  The cap  *)
(* refuses a new key, never an overwrite.                                  *)

at_ceiling_off_by_one(entries, k) ==
    k \notin DOMAIN entries /\ Cardinality(DOMAIN entries) > MAX_KEYS

at_ceiling(entries, k) ==
    k \notin DOMAIN entries /\ Cardinality(DOMAIN entries) >= MAX_KEYS

executed(entries, op) ==
    CASE op.verb = "Put" /\ ~at_ceiling(entries, op.key) ->
            [k \in DOMAIN entries \cup {op.key} |-> IF k = op.key THEN op.value ELSE entries[k]]
      [] op.verb = "Rm" -> [k \in DOMAIN entries \ {op.key} |-> entries[k]]
      [] OTHER -> entries

reply_of(entries, op) ==
    CASE op.verb = "Put" -> IF at_ceiling(entries, op.key) THEN Err(<<"ceiling">>) ELSE Ok
      [] op.verb = "Get" /\ op.key \in DOMAIN entries -> Value(entries[op.key])
      [] op.verb = "Rm" /\ op.key \in DOMAIN entries -> Ok
      [] OTHER -> Nil

=============================================================================
