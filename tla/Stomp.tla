------------------------------- MODULE Stomp -------------------------------
(***************************************************************************)
(* The client side of six-seven-server: stomp.rs, and the reader thread    *)
(* that run() starts for each connection.  The thread pulls frames out of  *)
(* a TCP stream through a BufReader, so what one step sees of the stream   *)
(* depends on how the network cut it up.  The stream is what the client    *)
(* sends before it closes or the connection fails.                         *)
(***************************************************************************)
EXTENDS Peer, SequencesExt

CONSTANTS
    Stream,             \* what clients send, each a sequence of characters
    MAX_FRAME_BYTES,    \* 8192
    CAPACITY            \* of the BufReader: 8192

Character == UNION {Range(s) : s \in Stream}

ASSUME ReaderAssumption ==
    /\ MAX_FRAME_BYTES \in Nat /\ CAPACITY \in Nat \ {0}
    /\ Stream \subseteq Seq(Character)

VARIABLES
    stream,     \* all that the client sends
    wire,       \* the part of it not yet received
    buffer,     \* received into the BufReader and not consumed
    raw,        \* the frame being assembled by read_frame
    frames,     \* what read_frame returned: the frame and the length of its text
    reader      \* "reading", or how the thread ended: "eof", "refused", "failed"

stompVars == <<stream, wire, buffer, raw, frames, reader>>

-----------------------------------------------------------------------------
(* Header escapes. *)

escape_keeping_newlines(s) ==
    FoldLeft(LAMBDA out, c :
                out \o CASE c = BACKSLASH -> <<BACKSLASH, BACKSLASH>>
                         [] c = COLON -> <<BACKSLASH, "c">>
                         [] OTHER -> <<c>>,
             <<>>, s)

escape(s) ==
    FoldLeft(LAMBDA out, c :
                out \o CASE c = BACKSLASH -> <<BACKSLASH, BACKSLASH>>
                         [] c = CR -> <<BACKSLASH, "r">>
                         [] c = LF -> <<BACKSLASH, "n">>
                         [] c = COLON -> <<BACKSLASH, "c">>
                         [] OTHER -> <<c>>,
             <<>>, s)

(* An undefined escape and a final backslash are kept as they are. *)
unescape(s) ==
    LET step(acc, c) ==
            IF ~acc.escaped
            THEN IF c = BACKSLASH THEN [acc EXCEPT !.escaped = TRUE]
                 ELSE [acc EXCEPT !.out = Append(@, c)]
            ELSE [escaped |-> FALSE,
                  out |-> acc.out \o CASE c = "r" -> <<CR>>
                                       [] c = "n" -> <<LF>>
                                       [] c = "c" -> <<COLON>>
                                       [] c = BACKSLASH -> <<BACKSLASH>>
                                       [] OTHER -> <<BACKSLASH, c>>]
        end == FoldLeft(step, [escaped |-> FALSE, out |-> <<>>], s)
    IN  IF end.escaped THEN Append(end.out, BACKSLASH) ELSE end.out

-----------------------------------------------------------------------------
(* A frame and its text. *)

(* Frame::encode, headers being a sequence of pairs. *)
encode_frame(command, headers, body) ==
    LET line(h) == escape(h[1]) \o <<COLON>> \o escape(h[2]) \o <<LF>>
    IN  <<command, LF>> \o FlattenSeq([i \in DOMAIN headers |-> line(headers[i])])
            \o <<LF>> \o body \o <<NUL>>

newline == {LF, CR}

(* str::split('\n'): the lines, of which there is always at least one. *)
lines(s) ==
    FoldLeft(LAMBDA acc, c : IF c = LF THEN Append(acc, <<>>)
                             ELSE [acc EXCEPT ![Len(acc)] = Append(@, c)],
             << <<>> >>, s)

(* read_frame once it has the text of a frame, leading filler removed: the *)
(* head ends at the first blank line, if any; a line with no colon is no   *)
(* header.                                                                 *)
parse_frame(text) ==
    LET blank == {i \in 1..(Len(text) - 1) : text[i] = LF /\ text[i + 1] = LF}
        end == IF blank = {} THEN Len(text) + 1 ELSE CHOOSE i \in blank : \A j \in blank : i <= j
        head == lines(SubSeq(text, 1, end - 1))
        bare(i) == trim_end(head[i], {CR})
        pair(i) == split_once(bare(i), {COLON})
        header_lines == SelectSeq([i \in 1..(Len(head) - 1) |-> i + 1], LAMBDA i : pair(i).found)
    IN  [command |-> bare(1),
         headers |-> [n \in DOMAIN header_lines |->
                        <<unescape(pair(header_lines[n]).left),
                          unescape(pair(header_lines[n]).right)>>],
         body    |-> SubSeq(text, end + 2, Len(text))]

(* Frame::header: the first of that name, as a set with at most one value. *)
header(frame, name) ==
    LET at == SelectInSeq(frame.headers, LAMBDA h : h[1] = name)
    IN  IF at = 0 THEN {} ELSE {frame.headers[at][2]}

-----------------------------------------------------------------------------
(* The loop of read_frame.  fill_buf hands out what the BufReader holds,   *)
(* and receives more only when that is nothing: available is one outcome.  *)

available_now ==
    IF buffer # <<>> THEN {buffer}
    ELSE {SubSeq(wire, 1, n) : n \in 1..(IF Len(wire) < CAPACITY THEN Len(wire) ELSE CAPACITY)}

received(available) ==
    wire' = IF buffer # <<>> THEN wire ELSE SubSeq(wire, Len(available) + 1, Len(wire))

nul_at(s) == SelectInSeq(s, LAMBDA c : c = NUL)

filler_never(text) == FALSE

filler(text) == text = <<>>

(* A NUL in sight: the frame is complete.  Filler alone is no frame, and   *)
(* read_frame starts over.                                                 *)
take_frame(available) ==
    LET at == nul_at(available)
        whole == raw \o SubSeq(available, 1, at - 1)
        text == trim_start(whole, newline)
    IN  /\ at # 0
        /\ received(available)
        /\ buffer' = SubSeq(available, at + 1, Len(available))
        /\ raw' = <<>>
        /\ \/ /\ Contains(whole, BAD)
              /\ reader' = "refused"
              /\ UNCHANGED frames
           \/ /\ ~Contains(whole, BAD) /\ filler(text)
              /\ UNCHANGED <<frames, reader>>
           \/ /\ ~Contains(whole, BAD) /\ ~filler(text)
              /\ frames' = Append(frames, [frame |-> parse_frame(text), size |-> Len(whole)])
              /\ UNCHANGED reader
        /\ UNCHANGED stream

over_limit_never(s) == FALSE

over_limit(s) == Len(s) > MAX_FRAME_BYTES

(* No NUL: all of it is taken, and only then is the limit tested. *)
take_all(available) ==
    LET longer == raw \o available
    IN  /\ nul_at(available) = 0
        /\ received(available)
        /\ buffer' = <<>>
        /\ \/ over_limit(longer) /\ reader' = "refused" /\ raw' = <<>>
           \/ ~over_limit(longer) /\ raw' = longer /\ UNCHANGED reader
        /\ UNCHANGED <<stream, frames>>

(* The client closed its side: clean only between frames. *)
end_of_stream ==
    /\ buffer = <<>> /\ wire = <<>>
    /\ reader' = IF raw = <<>> THEN "eof" ELSE "refused"
    /\ raw' = <<>>
    /\ UNCHANGED <<stream, wire, buffer, frames>>

(* fill_buf reports an error of the transport. *)
transport_error ==
    /\ buffer = <<>>
    /\ reader' = "failed"
    /\ raw' = <<>>
    /\ UNCHANGED <<stream, wire, buffer, frames>>

ended == reader # "reading" /\ UNCHANGED stompVars

-----------------------------------------------------------------------------
StompInit ==
    /\ stream \in Stream /\ wire = stream
    /\ buffer = <<>> /\ raw = <<>> /\ frames = <<>>
    /\ reader = "reading"

read_frame ==
    /\ reader = "reading"
    /\ \/ \E available \in available_now : take_frame(available) \/ take_all(available)
       \/ end_of_stream
       \/ transport_error

StompNext == read_frame \/ ended

StompSpec == StompInit /\ [][StompNext]_stompVars

-----------------------------------------------------------------------------
(* The frames of a stream, read off the whole of it: the texts between its *)
(* NULs that are more than filler.                                         *)
segments(s) ==
    LET ends == SetToSortSeq({i \in DOMAIN s : s[i] = NUL}, <)
    IN  [n \in DOMAIN ends |-> SubSeq(s, IF n = 1 THEN 1 ELSE ends[n - 1] + 1, ends[n] - 1)]

frames_of(s) ==
    LET texts == SelectSeq([n \in DOMAIN segments(s) |-> trim_start(segments(s)[n], newline)],
                           LAMBDA t : t # <<>>)
    IN  [n \in DOMAIN texts |-> parse_frame(texts[n])]

(* However the network cuts the stream up, the core thread is handed its   *)
(* frames, in order, none torn, merged or invented; all of them if the     *)
(* stream ended cleanly.  The reader gives up only on a stream that breaks *)
(* off mid-frame, is not text, or holds a frame over the limit.            *)
FramesAreTheStream ==
    /\ IsPrefix([n \in DOMAIN frames |-> frames[n].frame], frames_of(stream))
    /\ reader = "eof" => Len(frames) = Len(frames_of(stream)) /\ Last(<<NUL>> \o stream) = NUL
    /\ reader = "refused" =>
          \/ Last(stream) # NUL
          \/ Contains(stream, BAD)
          \/ \E n \in DOMAIN segments(stream) : Len(segments(stream)[n]) > MAX_FRAME_BYTES

(* One connection costs at most MAX_FRAME_BYTES of assembled frame beside  *)
(* the BufReader, however long its client goes on without a NUL, and no    *)
(* frame handed on is as long as the two together.                         *)
MemoryBounded ==
    /\ Len(raw) <= MAX_FRAME_BYTES
    /\ \A n \in DOMAIN frames : frames[n].size < MAX_FRAME_BYTES + CAPACITY

(* A receipt comes back as it was sent: the header of the answer, written  *)
(* by encode_frame and read by a client that parses like read_frame, holds *)
(* the value of the request's header, whatever characters it is made of,   *)
(* and no character of it becomes a header or a body of its own.           *)
ReceiptSurvives ==
    \A n \in DOMAIN frames : \A r \in header(frames[n].frame, <<"receipt">>) :
        LET answer == encode_frame("MESSAGE", << <<<<"receipt-id">>, r>> >>, <<"OK">>)
        IN  frames_of(answer) =
               << [command |-> <<"MESSAGE">>, headers |-> << <<<<"receipt-id">>, r>> >>,
                   body |-> <<"OK">>] >>

(* The operation a client asked for is the one its owner executes, and the *)
(* value it stored the one that comes back: what parse makes of the body   *)
(* survives encode and decode between the nodes, an empty value and spaces *)
(* at either end of it included.                                           *)
ForwardedAsAsked ==
    \A n \in DOMAIN frames :
        LET asked == parse(frames[n].frame.body)
        IN  asked.ok =>
               /\ decode(encode(Request(n, asked.op))) = decoded(Request(n, asked.op))
               /\ decode(encode(Response(n, Value(asked.op.value)))) =
                     decoded(Response(n, Value(asked.op.value)))

(* A forwarded request is never longer than the longest PUT by more than   *)
(* the message kind, the correlation id and two spaces, so it fits one     *)
(* datagram and seal never refuses it for its size.                        *)
ForwardFitsDatagram ==
    \A n \in DOMAIN frames :
        LET asked == parse(frames[n].frame.body)
        IN  asked.ok /\ asked.op.verb = "Put" =>
               Len(encode(Request(n, asked.op))) <= MAX_PUT_BYTES + Len(decimal[n]) + 3

=============================================================================
