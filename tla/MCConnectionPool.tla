-------------------------- MODULE MCConnectionPool --------------------------
(* An instance of ConnectionPool for TLC: with all of these calls underway     *)
(* the three connections run out, with some of them they do not.               *)
EXTENDS ConnectionPool

CONSTANTS t1, t2, r1, q1

AllCalls == {t1, t2, r1, q1}
TransactionCalls == {t1, t2}
RegistrationCalls == {r1}
=============================================================================
