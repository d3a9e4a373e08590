----------------------------- MODULE MCFspGrants -----------------------------
(* Small instances of FspGrants for TLC. *)
EXTENDS FspGrants, TLC

CONSTANTS f1, f2, t1, t2, h1, h2, h3, h4, r1, r2, r3, r4, k1, k2

(* One bank; two citizens, both of them past registerAndIssue. *)
MCHolders == [s \in Sides |-> IF s = "fsp" THEN {f1} ELSE {t1, t2} \cap Conns]
MCHash == f1 :> h1 @@ f2 :> h2 @@ t1 :> h3 @@ t2 :> h4
=============================================================================
