-------------------------- MODULE MCWalletService --------------------------
(* Instances of WalletService for TLC. *)
EXTENDS WalletRefinement, TLC

CONSTANTS u1, u2, o1

Call(kind, user, peer, amount) ==
  [kind |-> kind, user |-> user, peer |-> peer, amount |-> amount,
   charges |-> 0, fee |-> 0, order |-> NoOrder]

OpeningBalances == (u1 :> 2) @@ (u2 :> 1)

\* A recharge and what the provider may say of it.
OrderCalls ==
  [kind : {"processRechargePayment"} \cup OrderCallbacks, user : {u1}, peer : {u1},
   amount : {1}, charges : {0}, fee : {0}, order : {o1}]

\* Every handler, on overlapping wallets, with amounts below, at and above
\* what the guards and the CHECK constraint let through.
AllCalls ==
  {Call("processFundTransfer", u1, u2, 2), Call("processFundTransfer", u2, u1, 1),
   Call("processFundTransfer", u1, u1, 1), Call("processFundTransfer", u1, u2, -1),
   Call("adminCredit", u1, u1, 1), Call("adminDebit", u1, u1, 3),
   Call("debitMyAccount", u1, u1, 1), Call("debitAmountOnCardTransaction", u1, u1, 2),
   Call("processPaymentGatewaySuccess", u2, u2, 1), Call("processLoanPayment", u1, u1, 2),
   Call("handleReferrelBonus", u1, u2, 1), Call("handleReferrelBonus", u2, u1, 0),
   Call("handleCoinRedeem", u1, u1, 1)}
  \cup [kind : {"processRechargePayment"}, user : {u1}, peer : {u1}, amount : {2},
        charges : {1}, fee : {0}, order : {NoOrder}]
  \cup [kind : {"processRechargePaymentNew"}, user : {u1}, peer : {u1}, amount : {1},
        charges : {0}, fee : {1}, order : {NoOrder}]
  \cup OrderCalls

\* Calls that race on one wallet and one order, with two that take both wallets
\* and lock them in opposite order.
LedgerCalls ==
  OrderCalls \cup {Call("processFundTransfer", u1, u2, 2), Call("handleReferrelBonus", u2, u1, 1),
                  Call("adminDebit", u1, u1, 1)}

TaskSymmetry == Permutations(Tasks \ Faulty)
=============================================================================
