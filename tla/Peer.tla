-------------------------------- MODULE Peer --------------------------------
(***************************************************************************)
(* The payload two nodes of six-seven-server exchange inside PAXE frames   *)
(* (peer.rs): one line of text per message.                                *)
(***************************************************************************)
EXTENDS Kv

Request(corr, op) == [kind |-> "Request", corr |-> corr, op |-> op, reply |-> Nil]
Response(corr, reply) == [kind |-> "Response", corr |-> corr, op |-> Get(0), reply |-> reply]

(* Peer::encode. *)
encode(m) ==
    LET op == m.op
        request == CASE op.verb = "Get" -> <<"GET", SP>> \o decimal[op.key]
                     [] op.verb = "Rm" -> <<"RM", SP>> \o decimal[op.key]
                     [] op.verb = "Put" ->
                           <<"PUT", SP>> \o decimal[op.key] \o <<SP>> \o op.value
        reply == m.reply
        response == CASE reply.tag = "Value" -> <<"VAL", SP>> \o reply.text
                      [] reply.tag = "Ok" -> <<"OK">>
                      [] reply.tag = "Nil" -> <<"NIL">>
                      [] reply.tag = "Err" -> <<"ERR", SP>> \o reply.text
    IN  IF m.kind = "Request" THEN <<"REQ", SP>> \o decimal[m.corr] \o <<SP>> \o request
        ELSE <<"RSP", SP>> \o decimal[m.corr] \o <<SP>> \o response

(* Peer::decode: "Ok" and the message, or the reason there is none. *)
undecodable == [ok |-> FALSE, message |-> Response(0, Nil)]
decoded(m) == [ok |-> TRUE, message |-> m]

space == {SP}

request_of(corr, rest) ==
    LET call == split_once(rest, space)
        verb == to_ascii_uppercase(call.left)
        put == split_once(call.right, space)
        keyed(text, name, value) ==
            LET parsed == with_key(text, name, value)
            IN  IF parsed.ok THEN decoded(Request(corr, parsed.op)) ELSE undecodable
    IN  CASE verb = <<"GET">> -> keyed(call.right, "Get", <<>>)
          [] verb = <<"RM">> -> keyed(call.right, "Rm", <<>>)
          [] verb = <<"PUT">> -> keyed(put.left, "Put", put.right)
          [] OTHER -> undecodable

response_of(corr, rest) ==
    LET tagged == split_once(rest, space)
    IN  CASE tagged.left = <<"VAL">> -> decoded(Response(corr, Value(tagged.right)))
          [] tagged.left = <<"OK">> -> decoded(Response(corr, Ok))
          [] tagged.left = <<"NIL">> -> decoded(Response(corr, Nil))
          [] tagged.left = <<"ERR">> -> decoded(Response(corr, Err(tagged.right)))
          [] OTHER -> undecodable

(* The request parsed by Op::parse, which trims. *)
decode_by_op_parse(text) ==
    LET head == split_once(text, space)
        tail == split_once(head.right, space)
        parsed == parse(tail.right)
    IN  IF head.left = <<"REQ">> /\ parsed.ok
        THEN decoded(Request(parse_u64(tail.left), parsed.op)) ELSE undecodable

decode(text) ==
    LET head == split_once(text, space)
        tail == split_once(head.right, space)
        corr == parse_u64(tail.left)
    IN  IF ~head.found \/ ~is_u64(tail.left) THEN undecodable
        ELSE CASE head.left = <<"REQ">> -> request_of(corr, tail.right)
               [] head.left = <<"RSP">> -> response_of(corr, tail.right)
               [] OTHER -> undecodable

=============================================================================
