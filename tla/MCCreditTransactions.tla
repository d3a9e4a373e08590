------------------------ MODULE MCCreditTransactions ------------------------
(* Small instances of CreditTransactions for TLC. *)
EXTENDS CreditTransactions

CONSTANTS f1, f2, t1, t2, i1, i2, j1, j2, x, y, r1, r2

PairA == [fsp |-> f1, tro |-> t1, fspId |-> i1, troId |-> j1]
PairB == [fsp |-> f2, tro |-> t2, fspId |-> i2, troId |-> j2]
PairC == [fsp |-> f1, tro |-> t2, fspId |-> i1, troId |-> j2]

(* A bank with two citizens, the second of which has another bank too.     *)
ThreePairs == {PairA, PairB, PairC}

(* f1 may send either hash, one of which f2 sends as well.  Which of its   *)
(* citizens f1 means is not asked of here, so it names one.                *)
MixedHashes ==
  {a \in [pair : {PairA, PairB}, hash : Hashes] : a.pair.fsp = f2 => a.hash = y}

SameTxId == [h \in Hashes |-> h]
=============================================================================
