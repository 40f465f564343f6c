------------------------------ MODULE MCCoins ------------------------------
(* Instances of Coins for TLC. *)
EXTENDS Coins, TLC

\* One rule takes part of a row and reaches the limit of the month, the other
\* takes one row and a half and reaches the limit of the year.
TwoRules == {[coins |-> 1, value |-> 2], [coins |-> 4, value |-> 3]}

EarnedCoins == <<3, 2>>

TaskSymmetry == Permutations(Tasks \ Faulty)
=============================================================================
