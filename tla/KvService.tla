----------------------------- MODULE KvService -----------------------------
(***************************************************************************)
(* What a pair of six-seven-servers promises its clients, seen as one      *)
(* service over one table.  A request that reached the service may be      *)
(* applied at any time, once, more than once or never; it is answered at   *)
(* most once, with the outcome of one of its applications, with a refusal, *)
(* or, on a node that was restarted, with the outcome of an earlier        *)
(* request of that node.  Restarting a node forgets its half of the table. *)
(***************************************************************************)
EXTENDS Kv

CONSTANTS
    Pair,           \* the two node ids
    Asked           \* the requests clients may make

VARIABLES
    table,      \* key -> value
    requests,   \* the requests made: [conn, node, life, op], in order
    outcomes,   \* for each request, the replies its applications produced
    answers     \* for each request, the replies its client was given

serviceVars == <<table, requests, outcomes, answers>>

ServiceInit ==
    /\ table = [k \in {} |-> 0]
    /\ requests = <<>> /\ outcomes = <<>> /\ answers = <<>>

(* The placement rule, and the part of the table it gives to a node. *)
home(key) ==
    CHOOSE n \in Pair : \A m \in Pair : IF key % 2 = 1 THEN n <= m ELSE n >= m

half(entries, n) == [k \in {k \in DOMAIN entries : home(k) = n} |-> entries[k]]

(* An operation acts on the half of the table its key is in. *)
Apply(r, known) ==
    LET op == requests'[r].op
        n == home(op.key)
        entries == half(table, n)
        after == table'
    IN  /\ outcomes' = [known EXCEPT ![r] = @ \cup {reply_of(entries, op)}]
        /\ half(after, n) = executed(entries, op)
        /\ \A m \in Pair \ {n} : half(after, m) = half(table, m)

(* What the client of request r may be told. *)
due_to(r, reply) ==
    \/ reply.tag = "Err"
    \/ \E q \in DOMAIN requests' :
          /\ reply \in outcomes'[q]
          /\ \/ q = r
             \/ /\ requests'[q].node = requests'[r].node
                /\ requests'[q].life < requests'[r].life

Answer(before) ==
    /\ DOMAIN answers' = DOMAIN before
    /\ \A r \in DOMAIN before :
          \/ answers'[r] = before[r]
          \/ before[r] = <<>> /\ Len(answers'[r]) = 1 /\ due_to(r, answers'[r][1])

(* A request is made; it may be applied and answered at once. *)
Ask ==
    /\ Len(requests') = Len(requests) + 1
    /\ requests'[Len(requests')] \in Asked
    /\ requests' = Append(requests, requests'[Len(requests')])
    /\ \/ Apply(Len(requests'), Append(outcomes, {}))
       \/ outcomes' = Append(outcomes, {}) /\ UNCHANGED table
    /\ Answer(Append(answers, <<>>))

Serve ==
    /\ UNCHANGED requests
    /\ \/ \E r \in DOMAIN requests : Apply(r, outcomes)
       \/ UNCHANGED <<table, outcomes>>
    /\ Answer(answers)

Forget(n) ==
    /\ DOMAIN half(table', n) = {}
    /\ \A m \in Pair \ {n} : half(table', m) = half(table, m)
    /\ UNCHANGED <<requests, outcomes, answers>>

ServiceNext == Ask \/ Serve \/ \E n \in Pair : Forget(n)

ServiceSpec == ServiceInit /\ [][ServiceNext]_serviceVars

=============================================================================
