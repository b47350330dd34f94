------------------------------- MODULE Stats -------------------------------
(***************************************************************************)
(* The counters and the failure policy of src/stats.rs.  A Stats value is  *)
(* a record; the record_* functions map one to the next.  The log is the   *)
(* active policy, the log-once memo, and two histories of the current      *)
(* log-once window: the reasons dropped in it and the lines written for    *)
(* each of them (counted to two, which is already once too often).         *)
(***************************************************************************)
EXTENDS Integers

CONSTANT U64_MAX            \* 2^64 - 1 in the code: counters saturate there

ASSUME CounterAssumption == U64_MAX \in Nat \ {0}

Counter == 0..U64_MAX

RejectReason == {"Plaintext", "TooShort", "BadFlags", "LenMismatch",
                 "NoPeer", "NoEpoch", "AuthFailed"}

FailPolicy == {"silent", "log_once", "verbose"}

Stats == [rx_total : Counter, rx_ok : Counter,
          rx_rejects : [RejectReason -> Counter],
          tx_total : Counter, tx_standard : Counter,
          tx_dek : Counter, tx_oversize : Counter]

ZERO == [rx_total |-> 0, rx_ok |-> 0,
         rx_rejects |-> [r \in RejectReason |-> 0],
         tx_total |-> 0, tx_standard |-> 0, tx_dek |-> 0, tx_oversize |-> 0]

overflowing_add(a, b) == a + b

saturating_add(a, b) == IF a + b > U64_MAX THEN U64_MAX ELSE a + b

(* Stats::reject_sum, over RejectReason::ALL in order. *)
reject_sum(s) ==
    LET r == s.rx_rejects
        s1 == saturating_add(0, r["Plaintext"])
        s2 == saturating_add(s1, r["TooShort"])
        s3 == saturating_add(s2, r["BadFlags"])
        s4 == saturating_add(s3, r["LenMismatch"])
        s5 == saturating_add(s4, r["NoPeer"])
        s6 == saturating_add(s5, r["NoEpoch"])
    IN  saturating_add(s6, r["AuthFailed"])

(* Stats::fields: the snapshot in the order pinned for the C ABI. *)
fields(s) ==
    LET r == s.rx_rejects
    IN  <<s.rx_total, s.rx_ok, r["Plaintext"], r["TooShort"], r["BadFlags"],
          r["LenMismatch"], r["NoPeer"], r["NoEpoch"], r["AuthFailed"],
          s.tx_total, s.tx_standard, s.tx_dek, s.tx_oversize>>

record_rx_ok(s) ==
    [s EXCEPT !.rx_total = saturating_add(@, 1), !.rx_ok = saturating_add(@, 1)]

record_rx_drop(s) == [s EXCEPT !.rx_total = saturating_add(@, 1)]

record_tx_sealed_total_only(s, mode) == [s EXCEPT !.tx_total = saturating_add(@, 1)]

record_tx_sealed(s, mode) ==
    IF mode = "Standard"
    THEN [s EXCEPT !.tx_total = saturating_add(@, 1),
                   !.tx_standard = saturating_add(@, 1)]
    ELSE [s EXCEPT !.tx_total = saturating_add(@, 1),
                   !.tx_dek = saturating_add(@, 1)]

record_tx_oversize(s) == [s EXCEPT !.tx_oversize = saturating_add(@, 1)]

(* The counter half of record_reject. *)
record_reject(s, reason) == [s EXCEPT !.rx_rejects[reason] = saturating_add(@, 1)]

-----------------------------------------------------------------------------
Log == [policy : FailPolicy, logged : SUBSET RejectReason,
        dropped : SUBSET RejectReason, lines : [RejectReason -> 0..2]]

NoLines == [r \in RejectReason |-> 0]

SILENT == [policy |-> "silent", logged |-> {}, dropped |-> {}, lines |-> NoLines]

(* reset_log_once_memo: a new window begins. *)
reset_log_once_memo(log) ==
    [log EXCEPT !.logged = {}, !.dropped = {}, !.lines = NoLines]

set_policy(log, p) ==
    IF p = "log_once"
    THEN [reset_log_once_memo(log) EXCEPT !.policy = p]
    ELSE [log EXCEPT !.policy = p]

should_log_always(log, reason) == log.policy # "silent"

should_log(log, reason) ==
    \/ log.policy = "verbose"
    \/ log.policy = "log_once" /\ reason \notin log.logged

(* The policy half of record_reject: should_log tests and sets the memo,   *)
(* emit writes the line.                                                   *)
apply_policy(log, reason) ==
    IF log.policy # "log_once" THEN log
    ELSE [log EXCEPT
            !.logged = @ \cup {reason},
            !.dropped = @ \cup {reason},
            !.lines[reason] =
                IF should_log(log, reason) /\ @ < 2 THEN @ + 1 ELSE @]

=============================================================================
