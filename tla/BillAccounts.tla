---------------------------- MODULE BillAccounts ----------------------------
(***************************************************************************)
(* The books of BillPayments: what the completed transactions say was paid, *)
(* against what the bills and the wallets show.                             *)
(***************************************************************************)
EXTENDS BillPayments, Functions

Completed == {k \in Keys : payments[k] # None}

Charge == [k \in Completed |-> payments[k].amount]

(* The completed payments of a bill, as Transaction.metadata.bill_id        *)
(* gives it, and those from a wallet.                                       *)
PaidFor(b)  == SumFunctionOnSet(Charge, {k \in Completed : payments[k].bill = b})
PaidFrom(u) == SumFunctionOnSet(Charge, {k \in Completed : payments[k].payer = u})

(* Stale copies or not, a bill never shows money that no completed          *)
(* transaction brought in, and a resident's wallet never loses more than    *)
(* the completed payments took: concurrent saves can only forget a payment. *)
NothingInvented ==
    /\ \A b \in Bills : paid[b] <= PaidFor(b)
    /\ \A u \in Residents : wallet[u].balance >= Opening[u] - PaidFrom(u)

(* bill.py:216 of paid_amount: "Amount already paid".  Every completed      *)
(* payment of a bill is part of its paid_amount, as long as there is one.   *)
NoLostPayment == \A b \in Bills : terms[b] # None => paid[b] = PaidFor(b)

(* One worker, which may die at any point of any request, keeps the books,  *)
(* whatever becomes of the terms of the bills: bills and wallets show every *)
(* completed payment, once and in full.                                     *)
BooksAgree ==
    /\ NoLostPayment
    /\ \A u \in Residents : wallet[u].balance = Opening[u] - PaidFrom(u)
=============================================================================
