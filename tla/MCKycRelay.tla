------------------------------ MODULE MCKycRelay ------------------------------
(* A small instance of KycRelay for TLC. *)
EXTENDS KycRelay

CONSTANTS c1, c2, noMatch
=============================================================================
