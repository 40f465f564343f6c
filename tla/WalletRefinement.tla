-------------------------- MODULE WalletRefinement --------------------------
(***************************************************************************)
(* WalletService implements Ledger: a task's call settles when its         *)
(* transaction commits and is dropped when it rolls back, and every other  *)
(* step of a handler is invisible to the callers.                          *)
(***************************************************************************)
EXTENDS WalletService

outcome == [t \in Tasks |-> CASE pc[t] = "committed" -> "settled"
                              [] pc[t] = "aborted" -> "dropped"
                              [] OTHER -> "open"]

L == INSTANCE Ledger WITH overwritten <- stale

\* The handlers, with their unlocked reads, crossing saves, writes outside the
\* transaction, failures and deadlock victims, do nothing that the atomic ledger
\* does not allow: the only trace of their concurrency is a late settlement.
ImplementsLedger == L!Spec
=============================================================================
