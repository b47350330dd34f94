------------------------------ MODULE MCStomp ------------------------------
(* Streams of one to four short frames. *)
EXTENDS Stomp

Cat(S, T) == {s \o t : s \in S, t \in T}

Send(receipt, body) ==
    <<"SEND", LF, "receipt", COLON>> \o receipt \o <<LF, LF>> \o body \o <<NUL>>

(* Every receipt of up to three characters, escapes among them. *)
Receipts == UNION {[1..n -> {"x", BACKSLASH, "n", "r", "c", COLON}] : n \in 0..3}

(* Every request body made of a verb and up to five more characters. *)
Bodies == Cat({<<"PUT">>, <<"get">>, <<"DEL">>, <<SP, "set">>},
              UNION {[1..n -> {SP, LF, "2", "x"}] : n \in 0..5})

(* Filler, carriage returns, a missing blank line, a missing NUL, a byte   *)
(* that is not text, and frames around the limit.                          *)
Long(n) == <<"SEND", LF, LF>> \o [i \in 1..(n - 3) |-> "x"] \o <<NUL>>
Ping == <<"SEND", CR, LF, "a", COLON, "b", CR, LF, "c", LF, LF, "y", NUL>>
Pieces == {<<LF, CR, LF>>, <<LF, NUL>>, Ping, <<"HELLO", NUL>>, <<"z">>, <<BAD, NUL>>,
           Long(MAX_FRAME_BYTES - 1), Long(MAX_FRAME_BYTES), Long(MAX_FRAME_BYTES + 1)}
Mixed == Pieces \cup Cat(Pieces, Pieces) \cup Cat(Pieces, Cat(Pieces, Pieces))

Streams == {Send(r, <<"GET", SP, "2">>) : r \in Receipts}
             \cup {<<"SEND", LF, LF>> \o b \o <<NUL>> : b \in Bodies}
             \cup Mixed

=============================================================================
