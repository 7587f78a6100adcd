---------------------------- MODULE PaymentLedger ----------------------------
(***************************************************************************)
(* What paying a bill from a wallet promises, free of workers, copies and   *)
(* row locks: the payment happens at once, is made by the addressee, who    *)
(* has acknowledged the bill, takes from the payer's wallet exactly what it *)
(* adds to the bill and to the cluster's wallet, never more than is left on *)
(* the bill or available in the wallet, and only once per idempotency key.  *)
(* The terms of a bill change when nobody is paying it, and what has been   *)
(* paid stays.                                                              *)
(***************************************************************************)
EXTENDS Integers

CONSTANTS Residents, Cluster, Bills, Keys, Asked, Opening, MaxRequest, None

VARIABLES wallet, terms, paid, payments, acked

vars == <<wallet, terms, paid, payments, acked>>

Wallets == Residents \cup {Cluster}

Shift(row, a) == [balance |-> row.balance + a, available |-> row.available + a]

(* The cluster's wallet is created empty by the first credit.               *)
ClusterRow ==
    IF wallet[Cluster] = None THEN [balance |-> 0, available |-> 0]
    ELSE wallet[Cluster]

Init ==
    /\ wallet = [u \in Wallets |->
                   IF u = Cluster THEN None
                   ELSE [balance |-> Opening[u], available |-> Opening[u]]]
    /\ terms = [b \in Bills |-> None]
    /\ paid = [b \in Bills |-> 0]
    /\ payments = [k \in Keys |-> None]
    /\ acked = {}

Pay(k, b, u) ==
    /\ terms[b] # None
    /\ terms[b].payer = u /\ <<b, u>> \in acked
    /\ payments[k] = None
    /\ \E a \in 1 .. terms[b].amount - paid[b] :
         /\ a <= wallet[u].available
         /\ wallet' = [wallet EXCEPT ![u] = Shift(@, -a),
                                     ![Cluster] = Shift(ClusterRow, a)]
         /\ paid' = [paid EXCEPT ![b] = @ + a]
         /\ payments' = [payments EXCEPT ![k] = [bill |-> b, payer |-> u, amount |-> a]]
    /\ UNCHANGED <<terms, acked>>

Credit ==
    \E a \in 1 .. MaxRequest :
        /\ wallet' = [wallet EXCEPT ![Cluster] = Shift(ClusterRow, a)]
        /\ UNCHANGED <<terms, paid, payments, acked>>

Transfer ==
    \E a \in 1 .. MaxRequest :
        /\ a <= ClusterRow.available
        /\ wallet' = [wallet EXCEPT ![Cluster] = Shift(ClusterRow, -a)]
        /\ UNCHANGED <<terms, paid, payments, acked>>

(* A bill is posted with nothing paid on it, now or ever.                   *)
Post(b) ==
    /\ terms[b] = None
    /\ \A k \in Keys : payments[k] # None => payments[k].bill # b
    /\ \E t \in Asked : terms' = [terms EXCEPT ![b] = t]
    /\ UNCHANGED <<wallet, paid, payments, acked>>

Revise(b) ==
    /\ terms[b] # None
    /\ \E t \in Asked : terms' = [terms EXCEPT ![b] = t]
    /\ UNCHANGED <<wallet, paid, payments, acked>>

Withdraw(b) ==
    /\ terms[b] # None
    /\ terms' = [terms EXCEPT ![b] = None]
    /\ paid' = [paid EXCEPT ![b] = 0]
    /\ acked' = {a \in acked : a[1] # b}
    /\ UNCHANGED <<wallet, payments>>

Acknowledge(b) ==
    /\ terms[b] # None /\ terms[b].payer # None
    /\ acked' = acked \cup {<<b, terms[b].payer>>}
    /\ UNCHANGED <<wallet, terms, paid, payments>>

Leave(u) ==
    /\ acked' = {a \in acked : a[2] # u}
    /\ UNCHANGED <<wallet, terms, paid, payments>>

Next ==
    \/ \E b \in Bills :
         \/ Post(b) \/ Revise(b) \/ Withdraw(b) \/ Acknowledge(b)
         \/ \E k \in Keys, u \in Residents : Pay(k, b, u)
    \/ \E u \in Residents : Leave(u)
    \/ Credit
    \/ Transfer

Spec == Init /\ [][Next]_vars
=============================================================================
