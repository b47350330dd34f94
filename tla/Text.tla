-------------------------------- MODULE Text --------------------------------
(***************************************************************************)
(* Text as a sequence of tokens: the characters that the parsers of        *)
(* six-seven-server look for are tokens of their own, decimal digits too,  *)
(* and any run of other characters is one token (a word).  The operators   *)
(* are the functions of Rust's str that the server calls.                  *)
(***************************************************************************)
EXTENDS Naturals, Sequences, FiniteSetsExt

NUL == "NUL"
LF == "LF"
CR == "CR"
SP == "SP"
COLON == ":"
BACKSLASH == "\\"
BAD == "0xFF"           \* a byte that is not UTF-8

whitespace == {LF, CR, SP}

(* str::split_once at the first character that is in seps. *)
split_once(s, seps) ==
    LET at == {i \in DOMAIN s : s[i] \in seps}
    IN  IF at = {} THEN [found |-> FALSE, left |-> s, right |-> <<>>]
        ELSE [found |-> TRUE, left |-> SubSeq(s, 1, Min(at) - 1),
              right |-> SubSeq(s, Min(at) + 1, Len(s))]

(* trim_start_matches and trim_end_matches. *)
trim_start(s, drop) ==
    LET kept == {i \in DOMAIN s : s[i] \notin drop}
    IN  IF kept = {} THEN <<>> ELSE SubSeq(s, Min(kept), Len(s))

trim_end(s, drop) ==
    LET kept == {i \in DOMAIN s : s[i] \notin drop}
    IN  IF kept = {} THEN <<>> ELSE SubSeq(s, 1, Max(kept))

trim(s) == trim_end(trim_start(s, whitespace), whitespace)

-----------------------------------------------------------------------------
(* Display and FromStr of u64. *)

Digit == <<"0", "1", "2", "3", "4", "5", "6", "7", "8", "9">>

decimal[n \in Nat] ==
    IF n < 10 THEN <<Digit[n + 1]>> ELSE Append(decimal[n \div 10], Digit[(n % 10) + 1])

digit_value(c) == (CHOOSE i \in 1..10 : Digit[i] = c) - 1

is_u64(s) == s # <<>> /\ \A i \in DOMAIN s : s[i] \in Range(Digit)

parse_u64(s) ==
    LET read[i \in 0..Len(s)] == IF i = 0 THEN 0 ELSE 10 * read[i - 1] + digit_value(s[i])
    IN  read[Len(s)]

=============================================================================
