------------------------ MODULE MCTransactionReports ------------------------
(* Small instances of TransactionReports for TLC. *)
EXTENDS TransactionReports, TLC

CONSTANTS f1, f2, t1, t2, i1, i2, j1, j2, r1, r2

PairA == [fsp |-> f1, tro |-> t1, fspId |-> i1, troId |-> j1]
PairB == [fsp |-> f2, tro |-> t1, fspId |-> i2, troId |-> j1]
PairC == [fsp |-> f1, tro |-> t2, fspId |-> i1, troId |-> j2]

(* One citizen with two banks; one bank with two citizens. *)
TwoBanks    == {PairA, PairB}
TwoCitizens == {PairA, PairC}

MCSymmetry == Permutations(Requests \ Faulty)
=============================================================================
