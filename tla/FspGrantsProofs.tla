--------------------------- MODULE FspGrantsProofs ---------------------------
(***************************************************************************)
(* Proofs about FspGrants, on top of those about TdcPairing, for any       *)
(* number of requests, keys, banks and notices, any faults and restarts.   *)
(***************************************************************************)
EXTENDS FspGrants, TdcPairingProofs

(* The bank's store adds nothing to the TDC and takes nothing from it: all *)
(* that TdcPairing promises holds beside it.                               *)
THEOREM GrantsKeepPairing == GrantSpec => Spec
<1>1. GrantInit => Init
  BY DEF GrantInit
<1>2. [GrantNext]_grantVars => [Next]_vars
  BY DEF GrantNext, SaveTdcGrant, grantVars
<1> QED
  BY <1>1, <1>2, PTL DEF GrantSpec, Spec

(* The pair p was made over the key k: both of its sides gave it.          *)
MadeOver(p, k) ==
  \A s \in Sides : [side |-> s, conn |-> p.conn[s], key |-> k] \in registered

(* A completed notice carries the ids of a saved pair of its receiver and  *)
(* the key that both sides gave.                                           *)
NoticeInv ==
  \A m \in Completed : \E p \in fspTroConnection :
    /\ p.id = m.ids
    /\ \E s \in Sides : p.conn[s] = m.to
    /\ MadeOver(p, m.key)

(* So does every row the bank keeps.                                       *)
GrantInv ==
  \A g \in tdcGrants : \E p \in fspTroConnection :
    /\ p.id = g.ids
    /\ p.conn["fsp"] = g.fsp
    /\ MadeOver(p, g.key)

LEMMA PairsStay ==
  ASSUME PairingInv, [Next]_vars
  PROVE  /\ fspTroConnection \subseteq fspTroConnection'
         /\ registered \subseteq registered'
  BY OutputSteps DEF SaveConn

LEMMA NoticeStep ==
  ASSUME PairingInv, NoticeInv, [Next]_vars
  PROVE  NoticeInv'
<1> SUFFICES ASSUME NEW m \in Completed'
             PROVE  \E p \in fspTroConnection' :
                      /\ p.id = m.ids
                      /\ \E s \in Sides : p.conn[s] = m.to
                      /\ \A s \in Sides : [side |-> s, conn |-> p.conn[s], key |-> m.key] \in registered'
  BY DEF NoticeInv, MadeOver
<1>1. CASE m \in Completed
  BY <1>1, PairsStay DEF NoticeInv, MadeOver
<1>2. CASE m \notin Completed
  <2>1. PICK r \in Requests, s \in Sides :
           pc[r] \in {"msgFsp", "msgTro"} /\ m = CompletedMsg(r, s)
    BY <1>2, OutputSteps
  <2> DEFINE p == Pair(rec[r].conn)
  <2>2. p \in fspTroConnection
    BY <2>1 DEF PairingInv, IssuingInv
  <2>3. p.id = m.ids /\ p.conn = rec[r].conn /\ p.conn[s] = m.to /\ m.key = call[r].key
    BY <2>1 DEF CompletedMsg, Pair
  <2>4. \A t \in Sides : [side |-> t, conn |-> p.conn[t], key |-> m.key] \in registered
    BY <2>1, <2>3, PairBeingSaved
  <2> HIDE DEF p
  <2> QED
    BY <2>2, <2>3, <2>4, PairsStay
<1> QED
  BY <1>1, <1>2

(* The notice of a bank names the pair in which it is the bank.            *)
LEMMA NoticeOfBank ==
  ASSUME Banks \cap Holders["tro"] = {}, PairingInv, NoticeInv,
         NEW m \in Completed, m.to \in Banks
  PROVE  \E p \in fspTroConnection :
           p.id = m.ids /\ p.conn["fsp"] = m.to /\ MadeOver(p, m.key)
<1>1. PICK p \in fspTroConnection :
         /\ p.id = m.ids
         /\ \E s \in Sides : p.conn[s] = m.to
         /\ MadeOver(p, m.key)
  BY DEF NoticeInv
<1>2. p.conn["tro"] \in Holders["tro"]
  BY <1>1 DEF MadeOver, PairingInv, RegisteredInv, Sides
<1>3. p.conn["fsp"] = m.to
  BY <1>1, <1>2 DEF Sides
<1> QED
  BY <1>1, <1>3

LEMMA GrantStep ==
  ASSUME Banks \cap Holders["tro"] = {},
         PairingInv, NoticeInv, GrantInv, [GrantNext]_grantVars
  PROVE  GrantInv'
<1> SUFFICES ASSUME NEW g \in tdcGrants'
             PROVE  \E p \in fspTroConnection' :
                      /\ p.id = g.ids
                      /\ p.conn["fsp"] = g.fsp
                      /\ \A s \in Sides : [side |-> s, conn |-> p.conn[s], key |-> g.key] \in registered'
  BY DEF GrantInv, MadeOver
<1>1. [Next]_vars
  BY DEF GrantNext, SaveTdcGrant, grantVars
<1>2. CASE g \in tdcGrants
  BY <1>1, <1>2, PairsStay DEF GrantInv, MadeOver
<1>3. CASE g \notin tdcGrants
  <2>1. PICK m \in sent : SaveTdcGrant(m) /\ g = TdcGrant(m)
    BY <1>3 DEF GrantNext, SaveTdcGrant, grantVars
  <2>2. PICK p \in fspTroConnection :
           p.id = m.ids /\ p.conn["fsp"] = m.to /\ MadeOver(p, m.key)
    BY <2>1, NoticeOfBank DEF SaveTdcGrant, Completed
  <2>3. g.ids = m.ids /\ g.fsp = m.to /\ g.key = m.key
    BY <2>1 DEF TdcGrant
  <2> QED
    BY <1>1, <2>2, <2>3, PairsStay DEF MadeOver
<1> QED
  BY <1>2, <1>3

LEMMA GrantsAlways ==
  ASSUME Banks \cap Holders["tro"] = {}
  PROVE  GrantSpec => [](NoticeInv /\ GrantInv)
<1>1. GrantInit => NoticeInv /\ GrantInv
  BY DEF GrantInit, Init, NoticeInv, GrantInv, Completed
<1>2. PairingInv /\ NoticeInv /\ GrantInv /\ [GrantNext]_grantVars => NoticeInv' /\ GrantInv'
  <2>1. [GrantNext]_grantVars => [Next]_vars
    BY DEF GrantNext, SaveTdcGrant, grantVars
  <2> QED
    BY <2>1, NoticeStep, GrantStep
<1> QED
  BY <1>1, <1>2, GrantsKeepPairing, PairingInvariant, PTL DEF GrantSpec

(* Provided no connection leads to a bank and to a citizen, the ids a bank *)
(* is answered for a key are those of a saved pair of that bank, both      *)
(* sides of which gave the key.                                            *)
THEOREM AnsweredIdsAreTrue ==
  ASSUME Banks \cap Holders["tro"] = {}
  PROVE  GrantSpec => []AnsweredIdsAreOfAPair
<1>1. GrantInv => AnsweredIdsAreOfAPair
  <2> SUFFICES ASSUME GrantInv, NEW f \in Banks, NEW k \in Keys,
                      NEW a \in OneTimeKeyIds(f, k), a.state = "accepted"
               PROVE  \E p \in fspTroConnection :
                        /\ p.id = a.ids /\ p.conn["fsp"] = f
                        /\ \A s \in Sides : [side |-> s, conn |-> p.conn[s], key |-> k] \in registered
    BY DEF AnsweredIdsAreOfAPair
  <2>1. PICK g \in tdcGrants : g.fsp = f /\ g.key = k /\ a.ids = g.ids
    BY DEF OneTimeKeyIds
  <2> QED
    BY <2>1 DEF GrantInv, MadeOver
<1> QED
  BY <1>1, GrantsAlways, PTL
=============================================================================
