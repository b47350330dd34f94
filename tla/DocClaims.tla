------------------------------ MODULE DocClaims ------------------------------
(***************************************************************************)
(* Statements that include/paxe.h makes about the C ABI and that its code  *)
(* does not meet.  Each is refuted by a run of its own.                    *)
(***************************************************************************)
EXTENDS MCFfi

(* A call of f happens in this step. *)
Calls(f) == ret'.call = f /\ ret.call # f

(* paxe.h on set_local_id: a second call without an intervening shutdown   *)
(* returns PAXE_ERR.  The code answers PAXE_INVAL.                         *)
SecondSetLocalIdIsErr ==
    [][configured /\ Calls("set_local_id") => ret'.rc = RC_ERR]_vars

(* paxe.h on seal: the epoch is the newest installed, so installing a new  *)
(* epoch switches senders to it.  The code picks the highest number.       *)
InstallSwitchesSenders ==
    [][\A s \in DOMAIN entries' \ DOMAIN entries :
          key_for_send_current(entries', s[1]) = s[2]]_vars

(* paxe.h on seal: channel must fit u16.  check_channel rejects only the   *)
(* reserved range 1-99, and every u32 above it is sealed.                  *)
SealedChannelFitsU16 ==
    [][Calls("seal") /\ ret'.rc = RC_OK =>
          \A f \in ret'.out : parsed_header(f.prefix).channel[1] = 0]_vars

(* Inputs: a channel that needs more than sixteen bits. *)
WideChannel == {<<1, 5>>}

=============================================================================
