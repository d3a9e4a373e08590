--------------------------- MODULE MCCreditNetwork ---------------------------
(* A small instance of CreditNetwork for TLC. *)
EXTENDS CreditNetwork, TLC

CONSTANTS f1, t1, t2, h1, h2, h3, k1, k2, r1, r2, r3, r4, q1, q2, x

MCHolders == [s \in Sides |-> IF s = "fsp" THEN {f1} ELSE {t1, t2} \cap Conns]
MCHash == f1 :> h1 @@ t1 :> h2 @@ t2 :> h3
MCHashesOf == [f \in Banks |-> Hashes]
SameTxId == [h \in Hashes |-> h]
=============================================================================
