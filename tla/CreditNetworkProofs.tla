-------------------------- MODULE CreditNetworkProofs --------------------------
(***************************************************************************)
(* Proofs about CreditNetwork: the composition of pairing and transactions *)
(* over one state keeps what each half promises, for any number of banks,  *)
(* citizens, keys, requests and deliveries, any faults and restarts.       *)
(*                                                                         *)
(* The half that pairs is unchanged (NetworkKeepsGrants).  The half that   *)
(* transacts sees rows and credentials of the other's tables; what it      *)
(* takes for granted of them is what TdcPairingProofs and FspGrantsProofs  *)
(* show, so that the network implements CreditTransactions and has every   *)
(* property CreditTransactionsProofs proves.                               *)
(***************************************************************************)
EXTENDS CreditNetwork, FspGrantsProofs

(* What the pairing half is known to keep.                                 *)
World ==
  /\ PairingInv /\ GrantMatchesRegistration /\ RowMeansBothCredentials /\ GrantInv

(* How the steps of the network look from each half.                       *)
LEMMA NetworkSteps ==
  ASSUME [NetworkNext]_networkVars
  PROVE  \/ [GrantNext]_grantVars /\ UNCHANGED <<revoked, txVars>>
         \/ \E r \in TxRequests, a \in Asks : BankCreates(r, a)
         \/ /\ UNCHANGED <<grantVars, revoked>>
            /\ \/ \E r \in TxRequests : CT!CreateTransaction(r) \/ CT!Fault(r)
               \/ \E m \in msgs : CT!TroAccept(m) \/ CT!FspSave(m)
               \/ \E s \in CT!Slots : CT!Deliver(s) \/ CT!Respond(s) \/ CT!HandlerFault(s)
         \/ \E c \in Credentialed : Revoke(c)
         \/ TdcCrash
<1>1. ASSUME PairingStep PROVE [GrantNext]_grantVars /\ UNCHANGED <<revoked, txVars>>
  <2>1. UNCHANGED <<tdcGrants, revoked, txVars>>
    BY <1>1 DEF PairingStep
  <2>2. Next
    <3>1. ASSUME NEW r \in Fresh, NEW f \in Banks, NEW k \in Keys, RegisterOnetimeKey(r, f, k)
          PROVE  Next
      <4>1. r \in Requests /\ f \in Conns
        BY PairingConstants DEF Fresh, Unused, Banks, Sides
      <4>2. [op |-> "fsp", conn |-> f, key |-> k] \in Calls
        BY <4>1 DEF Calls, Sides
      <4> QED
        BY <3>1, <4>1, <4>2 DEF RegisterOnetimeKey, Next
    <3>2. ASSUME NEW r \in Fresh, NEW c \in OtherCalls, Arrive(r, c) PROVE Next
      <4>1. r \in Requests
        BY PairingConstants DEF Fresh, Unused
      <4> QED
        BY <3>2, <4>1 DEF OtherCalls, Next
    <3>3. ASSUME NEW r \in Requests, Step(r) \/ Fault(r) PROVE Next
      BY <3>3 DEF Next
    <3> QED
      BY <1>1, <3>1, <3>2, <3>3 DEF PairingStep
  <2> QED
    BY <2>1, <2>2 DEF GrantNext
<1>2. ASSUME NEW m \in sent, BankSaves(m) PROVE [GrantNext]_grantVars /\ UNCHANGED <<revoked, txVars>>
  BY <1>2 DEF BankSaves, GrantNext
<1>3. ASSUME UNCHANGED networkVars PROVE [GrantNext]_grantVars /\ UNCHANGED <<revoked, txVars>>
  BY <1>3 DEF networkVars
<1>4. ASSUME NEW s \in CT!Slots, TransactionStep(CT!Deliver(s) \/ CT!Respond(s)) \/ DeliveryFails(s)
      PROVE  UNCHANGED <<grantVars, revoked>> /\ (CT!Deliver(s) \/ CT!Respond(s) \/ CT!HandlerFault(s))
  BY <1>4 DEF TransactionStep, DeliveryFails
<1>5. ASSUME NEW m \in msgs, TransactionStep(CT!TroAccept(m) \/ CT!FspSave(m))
      PROVE  UNCHANGED <<grantVars, revoked>> /\ (CT!TroAccept(m) \/ CT!FspSave(m))
  BY <1>5 DEF TransactionStep
<1>6. ASSUME NEW r \in TxRequests, TransactionStep(CT!CreateTransaction(r) \/ CT!Fault(r))
      PROVE  UNCHANGED <<grantVars, revoked>> /\ (CT!CreateTransaction(r) \/ CT!Fault(r))
  BY <1>6 DEF TransactionStep
<1> QED
  BY <1>1, <1>2, <1>3, <1>4, <1>5, <1>6 DEF NetworkNext

(* The restart, the transactions and the revocations leave the pairing     *)
(* half as its own module would.                                           *)
THEOREM NetworkKeepsGrants == NetworkSpec => GrantSpec
<1>1. NetworkInit => GrantInit
  BY DEF NetworkInit
<1>2. ASSUME \/ \E r \in TxRequests, a \in Asks : BankCreates(r, a)
             \/ UNCHANGED <<grantVars, revoked>>
             \/ \E c \in Credentialed : Revoke(c)
      PROVE  UNCHANGED grantVars
  BY <1>2 DEF BankCreates, Revoke
<1>3. ASSUME TdcCrash PROVE [GrantNext]_grantVars
  BY <1>3 DEF TdcCrash, Next, GrantNext, grantVars
<1>4. [NetworkNext]_networkVars => [GrantNext]_grantVars
  BY <1>2, <1>3, NetworkSteps
<1> QED
  BY <1>1, <1>4, PTL DEF NetworkSpec, GrantSpec

LEMMA WorldAlways == NetworkSpec => []World
<1>1. Banks \cap Holders["tro"] = {}
  BY NetworkConstants DEF Citizens
<1> QED
  BY <1>1, NetworkKeepsGrants, GrantsKeepPairing, GrantsAlways, PairingInvariant, GrantsMatch,
     RowsHaveCredentials, PTL DEF World

-----------------------------------------------------------------------------
(* The rows and credentials the transactions see.                          *)

LEMMA RowsArePairs ==
  ASSUME World
  PROVE  Rows \subseteq Pairs
<1> SUFFICES ASSUME NEW p \in fspTroConnection PROVE Row(p) \in Pairs
  BY DEF Rows
<1>1. p = Pair(p.conn) /\ p.conn \in [Sides -> Conns]
  BY DEF World, PairingInv, IssuingInv, TypeInv, TypeOK, PairRows
<1>2. p.conn["fsp"] \in Banks /\ p.conn["tro"] \in Citizens
  BY DEF World, GrantMatchesRegistration, Sides, Banks, Citizens
<1>3. p.conn = [s \in Sides |-> IF s = "fsp" THEN p.conn["fsp"] ELSE p.conn["tro"]]
  BY <1>1 DEF Sides
<1>4. p = Joined(p.conn["fsp"], p.conn["tro"])
  BY <1>1, <1>3 DEF Joined
<1> QED
  BY <1>2, <1>4 DEF Pairs

LEMMA PairsOf ==
  ASSUME NEW q \in Pairs
  PROVE  \E f \in Banks, t \in Citizens :
           q = [fsp |-> f, tro |-> t, fspId |-> Id("fsp", f), troId |-> Id("tro", t)]
<1>1. PICK f \in Banks, t \in Citizens : q = Row(Joined(f, t))
  BY DEF Pairs
<1> QED
  BY <1>1 DEF Row, Joined, Pair, Sides

(* Both parties of a row were given their grant credentials.               *)
LEMMA RowsAreCredentialed ==
  ASSUME World, NEW q \in Rows
  PROVE  {q.fsp, q.tro} \subseteq {g.to : g \in credentials}
<1>1. PICK p \in fspTroConnection : q = Row(p)
  BY DEF Rows
<1>2. ASSUME NEW s \in Sides PROVE p.conn[s] \in {g.to : g \in credentials}
  <2>1. [side |-> s, to |-> p.conn[s], id |-> p.id[s]] \in credentials
    BY DEF World, RowMeansBothCredentials
  <2> QED
    BY <2>1
<1> QED
  BY <1>1, <1>2 DEF Row, Sides

(* The ids a bank was answered are those of a row of that bank.            *)
LEMMA KnownIds ==
  ASSUME World, NEW p \in Pairs, KnowsIds(p)
  PROVE  \E q \in Rows : q.fsp = p.fsp /\ q.fspId = p.fspId /\ q.troId = p.troId
<1>0. PICK k \in Keys : \E a \in OneTimeKeyIds(p.fsp, k) :
         a.state = "accepted" /\ a.ids["fsp"] = p.fspId /\ a.ids["tro"] = p.troId
  BY DEF KnowsIds
<1>1. PICK a \in OneTimeKeyIds(p.fsp, k) :
         a.state = "accepted" /\ a.ids["fsp"] = p.fspId /\ a.ids["tro"] = p.troId
  BY <1>0
<1>2. PICK g \in tdcGrants : g.fsp = p.fsp /\ a.ids = g.ids
  BY <1>1 DEF OneTimeKeyIds
<1>3. PICK c \in fspTroConnection : c.id = g.ids /\ c.conn["fsp"] = g.fsp
  BY DEF World, GrantInv
<1>4. Row(c) \in Rows /\ Row(c).fsp = p.fsp /\ Row(c).fspId = p.fspId /\ Row(c).troId = p.troId
  BY <1>1, <1>2, <1>3 DEF Row, Rows
<1> QED
  BY <1>4

-----------------------------------------------------------------------------
(* The transactions' requests beside the pairing.                          *)

(* A request in hand of a row holds one that is there, and one that has    *)
(* yet to look up its row will find it.                                    *)
RequestsInv ==
  /\ tpc \in [TxRequests -> CT!Labels]
  /\ ask \in [TxRequests -> CT!AskRecords \cup {Null}]
  /\ conn \in [TxRequests -> Pairs \cup {Null}]
  /\ \A r \in TxRequests : tpc[r] \in CT!Bound => conn[r] \in Rows
  /\ KnownIdsAreFound

LEMMA RowsStay ==
  ASSUME World, [NetworkNext]_networkVars
  PROVE  Rows \subseteq Rows'
<1>1. ASSUME [GrantNext]_grantVars PROVE fspTroConnection \subseteq fspTroConnection'
  <2>1. [Next]_vars
    BY <1>1 DEF GrantNext, SaveTdcGrant, grantVars
  <2> QED
    BY <2>1, PairsStay DEF World
<1>2. ASSUME \/ \E r \in TxRequests, a \in Asks : BankCreates(r, a)
             \/ UNCHANGED <<grantVars, revoked>>
             \/ \E c \in Credentialed : Revoke(c)
             \/ TdcCrash
      PROVE  fspTroConnection \subseteq fspTroConnection'
  BY <1>2 DEF BankCreates, Revoke, TdcCrash, Crash, grantVars, vars
<1>3. fspTroConnection \subseteq fspTroConnection'
  BY <1>1, <1>2, NetworkSteps
<1> QED
  BY <1>3 DEF Rows, Row

(* The steps of a request in hand: it takes up a row, lets go of it, or    *)
(* goes on with the one it has.                                            *)
LEMMA RequestSteps ==
  ASSUME RequestsInv, NEW r \in TxRequests, CT!CreateTransaction(r) \/ CT!Fault(r)
  PROVE  /\ ask' = ask
         /\ \E l \in CT!Labels \ {"findConn"} :
              /\ tpc' = [tpc EXCEPT ![r] = l]
              /\ \/ \E q \in Rows : conn' = [conn EXCEPT ![r] = q]
                 \/ conn' = [conn EXCEPT ![r] = Null] /\ l = "done"
                 \/ conn' = conn /\ tpc[r] \in CT!Bound
<1> DEFINE Moves(l) ==
      /\ tpc' = [tpc EXCEPT ![r] = l]
      /\ \/ \E q \in Rows : conn' = [conn EXCEPT ![r] = q]
         \/ conn' = [conn EXCEPT ![r] = Null] /\ l = "done"
         \/ conn' = conn /\ tpc[r] \in CT!Bound
<1> USE DEF CT!Goto
<1>1. ASSUME NEW a, CT!Finish(r, a) PROVE Moves("done")
  BY <1>1 DEF CT!Finish
<1>2. ASSUME CT!FindConn(r) PROVE ask' = ask /\ (Moves("proveFsp") \/ Moves("done"))
  BY <1>1, <1>2 DEF CT!FindConn, CT!FoundByFspId
<1>3. ASSUME NEW c, NEW l, CT!ProveCredential(r, c, l), tpc[r] \in CT!Bound
      PROVE  ask' = ask /\ (Moves(l) \/ Moves("done"))
  BY <1>1, <1>3 DEF CT!ProveCredential
<1>4. ASSUME CT!ProveFsp(r) PROVE ask' = ask /\ (Moves("proveTro") \/ Moves("done"))
  BY <1>3, <1>4 DEF CT!ProveFsp, CT!Bound
<1>5. ASSUME CT!ProveTro(r) PROVE ask' = ask /\ (Moves("savePending") \/ Moves("done"))
  BY <1>3, <1>5 DEF CT!ProveTro, CT!Bound
<1>6. ASSUME CT!SavePending(r) PROVE ask' = ask /\ Moves("issue")
  BY <1>6 DEF CT!SavePending, CT!Bound
<1>7. ASSUME CT!Issue(r) PROVE ask' = ask /\ Moves("startTro")
  BY <1>7 DEF CT!Issue, CT!Bound
<1>8. ASSUME CT!StartTro(r) PROVE ask' = ask /\ Moves("startFsp")
  BY <1>8 DEF CT!StartTro, CT!Bound
<1>9. ASSUME CT!StartFsp(r) PROVE ask' = ask /\ Moves("done")
  BY <1>1, <1>9 DEF CT!StartFsp
<1>10. ASSUME CT!Fault(r) PROVE ask' = ask /\ Moves("done")
  BY <1>1, <1>10 DEF CT!Fault
<1> HIDE DEF Moves
<1>11. ask' = ask /\ \E l \in CT!Labels \ {"findConn"} : Moves(l)
  BY <1>2, <1>4, <1>5, <1>6, <1>7, <1>8, <1>9, <1>10 DEF CT!CreateTransaction, CT!Labels
<1> QED
  BY <1>11 DEF Moves

LEMMA RequestsInvStep ==
  ASSUME World, World', RequestsInv, [NetworkNext]_networkVars
  PROVE  RequestsInv'
<1>0. Rows \subseteq Rows' /\ Rows \subseteq Pairs
  BY RowsStay, RowsArePairs
<1> USE DEF RequestsInv, KnownIdsAreFound, CT!FoundByFspId, CT!DataFor, CT!DataOf
<1>1. ASSUME UNCHANGED <<tpc, ask, conn>> PROVE RequestsInv'
  BY <1>0, <1>1
<1>2. ASSUME [GrantNext]_grantVars, UNCHANGED <<revoked, txVars>> PROVE RequestsInv'
  BY <1>1, <1>2 DEF txVars
<1>3. ASSUME NEW r \in TxRequests, NEW a \in Asks, BankCreates(r, a) PROVE RequestsInv'
  <2>1. /\ ask' = [ask EXCEPT ![r] = a] /\ tpc' = [tpc EXCEPT ![r] = "findConn"]
        /\ conn' = conn
    BY <1>3 DEF BankCreates, CT!Create, CT!Goto
  <2>2. a.pair \in Pairs /\ KnowsIds(a.pair)
    BY <1>3 DEF BankCreates, Asks
  <2>3. a \in CT!AskRecords
    BY DEF Asks, CT!AskRecords
  <2>4. PICK q \in Rows : q.fspId = a.pair.fspId
    BY <2>2, KnownIds
  <2>5. ask'[r] = a
    BY <2>1
  <2>6. /\ tpc' \in [TxRequests -> CT!Labels] /\ ask' \in [TxRequests -> CT!AskRecords \cup {Null}]
        /\ conn' \in [TxRequests -> Pairs \cup {Null}]
    BY <2>1, <2>3 DEF CT!Labels
  <2>7. ASSUME NEW x \in TxRequests, tpc'[x] \in CT!Bound PROVE conn'[x] \in Rows'
    BY <1>0, <2>1, <2>7 DEF CT!Bound
  <2>8. ASSUME NEW x \in TxRequests, tpc'[x] = "findConn"
        PROVE  \E p \in Rows' : p.fspId = ask'[x].pair.fspId
    <3>1. CASE x = r
      BY <1>0, <2>4, <2>5, <3>1
    <3>2. CASE x # r
      <4>1. tpc[x] = "findConn" /\ ask'[x] = ask[x]
        BY <2>1, <2>8, <3>2
      <4>2. {p \in Rows : p.fspId = ask[x].pair.fspId} # {}
        BY <4>1
      <4> QED
        BY <1>0, <4>1, <4>2
    <3> QED
      BY <3>1, <3>2
  <2> QED
    BY <2>6, <2>7, <2>8
<1>4. ASSUME NEW r \in TxRequests, CT!CreateTransaction(r) \/ CT!Fault(r) PROVE RequestsInv'
  <2>1. ask' = ask
    BY <1>4, RequestSteps
  <2>2. PICK l \in CT!Labels \ {"findConn"} :
           /\ tpc' = [tpc EXCEPT ![r] = l]
           /\ \/ \E q \in Rows : conn' = [conn EXCEPT ![r] = q]
              \/ conn' = [conn EXCEPT ![r] = Null] /\ l = "done"
              \/ conn' = conn /\ tpc[r] \in CT!Bound
    BY <1>4, RequestSteps
  <2>3. tpc' \in [TxRequests -> CT!Labels] /\ conn' \in [TxRequests -> Pairs \cup {Null}]
    BY <1>0, <2>2
  <2>4. ASSUME NEW x \in TxRequests, tpc'[x] \in CT!Bound PROVE conn'[x] \in Rows'
    BY <1>0, <2>2, <2>4 DEF CT!Bound
  <2>5. ASSUME NEW x \in TxRequests, tpc'[x] = "findConn" PROVE tpc[x] = "findConn"
    BY <2>2, <2>5
  <2> QED
    BY <1>0, <2>1, <2>3, <2>4, <2>5
<1>5. ASSUME NEW m, CT!TroAccept(m) \/ CT!FspSave(m) PROVE RequestsInv'
  BY <1>1, <1>5 DEF CT!TroAccept, CT!FspSave, CT!requests
<1>6. ASSUME NEW s \in CT!Slots, CT!Deliver(s) \/ CT!Respond(s) \/ CT!HandlerFault(s) PROVE RequestsInv'
  BY <1>1, <1>6 DEF CT!Deliver, CT!Respond, CT!FindPending, CT!FindRec, CT!CompleteTro, CT!CompleteFsp,
                    CT!HandlerFault, CT!requests
<1>7. ASSUME NEW c, Revoke(c) PROVE RequestsInv'
  BY <1>1, <1>7 DEF Revoke, txVars
<1>8. ASSUME TdcCrash PROVE RequestsInv'
  <2>1. CASE UNCHANGED txVars
    BY <1>1, <2>1 DEF txVars
  <2>2. CASE CT!Crash
    <3>1. /\ tpc' = [r \in TxRequests |-> IF CT!InFlight(r) THEN "done" ELSE tpc[r]]
          /\ conn' = [r \in TxRequests |-> Null] /\ ask' = ask
      BY <2>2 DEF CT!Crash
    <3> QED
      BY <1>0, <3>1 DEF CT!InFlight, CT!Labels, CT!Bound
  <2> QED
    BY <1>8, <2>1, <2>2 DEF TdcCrash
<1> QED
  BY <1>2, <1>3, <1>4, <1>5, <1>6, <1>7, <1>8, NetworkSteps

LEMMA RequestsAlways == NetworkSpec => [](World /\ RequestsInv)
<1>1. NetworkInit => RequestsInv
  BY DEF NetworkInit, RequestsInv, KnownIdsAreFound, CT!Labels, CT!Bound
<1>2. World /\ World' /\ RequestsInv /\ [NetworkNext]_networkVars => RequestsInv'
  BY RequestsInvStep
<1> QED
  BY <1>1, <1>2, WorldAlways, PTL DEF NetworkSpec

(* A bank that asks with the ids it was answered finds its row.            *)
THEOREM KnownIdsFind == NetworkSpec => []KnownIdsAreFound
<1>1. RequestsInv => KnownIdsAreFound
  BY DEF RequestsInv
<1> QED
  BY <1>1, RequestsAlways, PTL

-----------------------------------------------------------------------------
(* The network implements the transactions model.                          *)

(* Good credentials as CreditTransactions has them.                        *)
Good == (CT!Fsps \cup CT!Tros) \ revoked

LEMMA SameCredentials ==
  ASSUME World, NEW q \in Rows
  PROVE  /\ q.fsp \in Credentialed <=> q.fsp \in Good
         /\ q.tro \in Credentialed <=> q.tro \in Good
<1>1. q.fsp \in CT!Fsps /\ q.tro \in CT!Tros
  BY RowsArePairs DEF CT!Fsps, CT!Tros
<1>2. q.fsp \in {g.to : g \in credentials} /\ q.tro \in {g.to : g \in credentials}
  BY RowsAreCredentialed
<1> QED
  BY <1>1, <1>2 DEF Credentialed, Good

LEMMA WorldKept ==
  ASSUME UNCHANGED <<grantVars, revoked>>
  PROVE  UNCHANGED <<Rows, Good, Credentialed, Transactions!world>>
  BY DEF grantVars, vars, Rows, Row, Good, Credentialed, Transactions!world

LEMMA CreateImplements ==
  ASSUME NEW r \in TxRequests, NEW a \in Asks, BankCreates(r, a)
  PROVE  Transactions!Create(r, a)
<1>1. UNCHANGED <<grantVars, revoked>> /\ CT!Create(r, a)
  BY DEF BankCreates
<1> QED
  BY <1>1, WorldKept, Zenon
     DEF CT!Create, CT!Goto, CT!handlers, Transactions!Create, Transactions!Goto, Transactions!handlers

LEMMA RequestImplements ==
  ASSUME World, RequestsInv, NEW r \in TxRequests, UNCHANGED <<grantVars, revoked>>,
         CT!CreateTransaction(r) \/ CT!Fault(r)
  PROVE  Transactions!CreateTransaction(r) \/ Transactions!Fault(r)
<1>0. UNCHANGED Transactions!world
  BY WorldKept
<1> USE <1>0 DEF CT!Goto, CT!Finish, CT!DataFor, CT!DataOf, CT!Tx, CT!handlers, CT!Started, CT!FoundByFspId,
        Transactions!Goto, Transactions!Finish, Transactions!DataFor, Transactions!DataOf, Transactions!Tx,
        Transactions!handlers, Transactions!Started, Transactions!FoundByFspId, Transactions!CreateTransaction
<1>1. ASSUME CT!FindConn(r) PROVE Transactions!FindConn(r)
  BY <1>1 DEF CT!FindConn, Transactions!FindConn
<1>2. ASSUME NEW c, NEW l, CT!ProveCredential(r, c, l), c \in Credentialed <=> c \in Good
      PROVE  Transactions!ProveCredential(r, c, l)
  BY <1>2 DEF CT!ProveCredential, Transactions!ProveCredential, Good
<1>3. tpc[r] \in CT!Bound => /\ conn[r].fsp \in Credentialed <=> conn[r].fsp \in Good
                             /\ conn[r].tro \in Credentialed <=> conn[r].tro \in Good
  BY SameCredentials DEF RequestsInv
<1>4. ASSUME CT!ProveFsp(r) PROVE Transactions!ProveFsp(r)
  BY <1>2, <1>3, <1>4 DEF CT!ProveFsp, Transactions!ProveFsp, CT!Bound
<1>5. ASSUME CT!ProveTro(r) PROVE Transactions!ProveTro(r)
  BY <1>2, <1>3, <1>5 DEF CT!ProveTro, Transactions!ProveTro, CT!Bound
<1>6. ASSUME CT!SavePending(r) PROVE Transactions!SavePending(r)
  BY <1>6 DEF CT!SavePending, Transactions!SavePending
<1>7. ASSUME CT!Issue(r) PROVE Transactions!Issue(r)
  BY <1>7 DEF CT!Issue, Transactions!Issue
<1>8. ASSUME CT!StartTro(r) PROVE Transactions!StartTro(r)
  BY <1>8 DEF CT!StartTro, Transactions!StartTro
<1>9. ASSUME CT!StartFsp(r) PROVE Transactions!StartFsp(r)
  BY <1>9 DEF CT!StartFsp, Transactions!StartFsp
<1>10. ASSUME CT!Fault(r) PROVE Transactions!Fault(r)
  BY <1>10 DEF CT!Fault, Transactions!Fault, CT!InFlight, Transactions!InFlight
<1> QED
  BY <1>1, <1>4, <1>5, <1>6, <1>7, <1>8, <1>9, <1>10 DEF CT!CreateTransaction

LEMMA MessageImplements ==
  ASSUME NEW m, UNCHANGED <<grantVars, revoked>>
  PROVE  /\ CT!TroAccept(m) => Transactions!TroAccept(m)
         /\ CT!FspSave(m) => Transactions!FspSave(m)
<1>0. UNCHANGED Transactions!world
  BY WorldKept
<1> USE <1>0 DEF CT!requests, CT!handlers, Transactions!requests, Transactions!handlers
<1>1. CT!TroAccept(m) => Transactions!TroAccept(m)
  BY DEF CT!TroAccept, Transactions!TroAccept, CT!Accepted, Transactions!Accepted, CT!Tros, Transactions!Tros
<1>2. CT!FspSave(m) => Transactions!FspSave(m)
  BY DEF CT!FspSave, Transactions!FspSave, CT!Fsps, Transactions!Fsps
<1> QED
  BY <1>1, <1>2

LEMMA HandlerImplements ==
  ASSUME NEW s \in CT!Slots, UNCHANGED <<grantVars, revoked>>
  PROVE  /\ CT!Deliver(s) => Transactions!Deliver(s)
         /\ CT!Respond(s) => Transactions!Respond(s)
         /\ CT!HandlerFault(s) => Transactions!HandlerFault(s)
<1>0. UNCHANGED Transactions!world
  BY WorldKept
<1> USE <1>0 DEF CT!requests, Transactions!requests, CT!HGoto, Transactions!HGoto, CT!HEnd, Transactions!HEnd,
        CT!CompletedTx, Transactions!CompletedTx, CT!FoundByFspId, Transactions!FoundByFspId
<1>1. CT!Deliver(s) => Transactions!Deliver(s)
  BY DEF CT!Deliver, Transactions!Deliver, CT!Accepted, Transactions!Accepted
<1>2. CT!FindPending(s) => Transactions!FindPending(s)
  BY DEF CT!FindPending, Transactions!FindPending, CT!PendingOf, Transactions!PendingOf
<1>3. CT!FindRec(s) => Transactions!FindRec(s)
  BY DEF CT!FindRec, Transactions!FindRec
<1>4. CT!CompleteTro(s) => Transactions!CompleteTro(s)
  BY DEF CT!CompleteTro, Transactions!CompleteTro
<1>5. CT!CompleteFsp(s) => Transactions!CompleteFsp(s)
  BY DEF CT!CompleteFsp, Transactions!CompleteFsp
<1>6. CT!HandlerFault(s) => Transactions!HandlerFault(s)
  BY DEF CT!HandlerFault, Transactions!HandlerFault, CT!Handling, Transactions!Handling
<1> QED
  BY <1>1, <1>2, <1>3, <1>4, <1>5, <1>6 DEF CT!Respond, Transactions!Respond

(* issueGrantCredentials saves a pair, or the step is none of the          *)
(* transactions' business.                                                 *)
LEMMA PairingImplements ==
  ASSUME World, Rows' \subseteq Pairs, [GrantNext]_grantVars, UNCHANGED <<revoked, txVars>>
  PROVE  (\E p \in Pairs \ Rows : Transactions!SavePair(p)) \/ UNCHANGED Transactions!vars
<1>1. UNCHANGED <<Good, Transactions!requests, Transactions!handlers>>
      /\ UNCHANGED <<pending, txCreds, msgs, saved>>
  BY DEF Good, txVars, Transactions!requests, Transactions!handlers
<1>2. ASSUME Rows' = Rows PROVE UNCHANGED Transactions!vars
  BY <1>1, <1>2 DEF Transactions!vars, txVars, Good
<1>3. [Next]_vars
  BY DEF GrantNext, SaveTdcGrant, grantVars
<1>4. \/ fspTroConnection' = fspTroConnection
      \/ \E r \in Requests : fspTroConnection' = fspTroConnection \cup {Pair(rec[r].conn)}
  BY <1>3, OutputSteps DEF World, SaveConn
<1>5. ASSUME NEW r \in Requests, fspTroConnection' = fspTroConnection \cup {Pair(rec[r].conn)}, Rows' # Rows
      PROVE  \E p \in Pairs \ Rows : Transactions!SavePair(p)
  <2> DEFINE p == Row(Pair(rec[r].conn))
  <2>1. Rows' = Rows \cup {p}
    BY <1>5 DEF Rows, Row
  <2>2. p \in Pairs \ Rows
    BY <1>5, <2>1
  <2> QED
    BY <1>1, <2>1, <2>2 DEF Transactions!SavePair, Good
<1> QED
  BY <1>2, <1>4, <1>5 DEF Rows

LEMMA RevokeImplements ==
  ASSUME NEW c \in Credentialed, Revoke(c)
  PROVE  (\E b \in Good : Transactions!Revoke(b)) \/ UNCHANGED Transactions!vars
<1>1. /\ c \in Revocable /\ Good' = Good \ {c} /\ Rows' = Rows
      /\ UNCHANGED <<Transactions!requests, Transactions!handlers, pending, txCreds, msgs, saved>>
  BY DEF Revoke, Good, Rows, Row, grantVars, vars, txVars, Transactions!requests, Transactions!handlers
<1>2. CASE c \in Good
  BY <1>1, <1>2 DEF Transactions!Revoke, Good
<1>3. CASE c \notin Good
  BY <1>1, <1>3 DEF Transactions!vars, Transactions!requests, Transactions!handlers, Good
<1> QED
  BY <1>2, <1>3

LEMMA CrashImplements ==
  ASSUME TdcCrash
  PROVE  Transactions!Crash \/ UNCHANGED Transactions!vars
<1>1. UNCHANGED <<Rows, Good>>
  BY DEF TdcCrash, Crash, Good, Rows, Row, vars
<1>2. CASE CT!Crash
  <2>1. Transactions!Crash
    BY <1>1, <1>2 DEF CT!Crash, Transactions!Crash, CT!InFlight, Transactions!InFlight, CT!Handling,
          Transactions!Handling, CT!Slots, Transactions!Slots, CT!Tros, Transactions!Tros,
          CT!Data, Transactions!Data, CT!FspIds, Transactions!FspIds, Transactions!world, Good
  <2> QED
    BY <2>1
<1>3. CASE UNCHANGED txVars
  BY <1>1, <1>3 DEF txVars, Transactions!vars, Good
<1> QED
  BY <1>2, <1>3 DEF TdcCrash

(* Each step of the network is one of the transactions model, or none.     *)
LEMMA NetworkImplements ==
  ASSUME World, Rows' \subseteq Pairs, RequestsInv, [NetworkNext]_networkVars
  PROVE  [Transactions!Next]_(Transactions!vars)
<1>1. ASSUME [GrantNext]_grantVars, UNCHANGED <<revoked, txVars>>
      PROVE  [Transactions!Next]_(Transactions!vars)
  BY <1>1, PairingImplements DEF Transactions!Next
<1>2. ASSUME NEW r \in TxRequests, NEW a \in Asks, BankCreates(r, a) PROVE Transactions!Next
  BY <1>2, CreateImplements DEF Transactions!Next
<1>3. ASSUME UNCHANGED <<grantVars, revoked>>, NEW r \in TxRequests, CT!CreateTransaction(r) \/ CT!Fault(r)
      PROVE  Transactions!Next
  BY <1>3, RequestImplements DEF Transactions!Next
<1>4. ASSUME UNCHANGED <<grantVars, revoked>>, NEW m \in msgs, CT!TroAccept(m) \/ CT!FspSave(m)
      PROVE  Transactions!Next
  BY <1>4, MessageImplements DEF Transactions!Next
<1>5. ASSUME UNCHANGED <<grantVars, revoked>>, NEW s \in CT!Slots, CT!Deliver(s) \/ CT!Respond(s) \/ CT!HandlerFault(s)
      PROVE  Transactions!Next
  <2>1. s \in Transactions!Slots
    BY DEF CT!Slots, Transactions!Slots, CT!Tros, Transactions!Tros, CT!Data, Transactions!Data,
           CT!FspIds, Transactions!FspIds
  <2> QED
    BY <1>5, <2>1, HandlerImplements DEF Transactions!Next
<1>6. ASSUME NEW c \in Credentialed, Revoke(c) PROVE [Transactions!Next]_(Transactions!vars)
  BY <1>6, RevokeImplements DEF Transactions!Next, Good
<1>7. ASSUME TdcCrash PROVE [Transactions!Next]_(Transactions!vars)
  BY <1>7, CrashImplements DEF Transactions!Next
<1> QED
  BY <1>1, <1>2, <1>3, <1>4, <1>5, <1>6, <1>7, NetworkSteps

RowsInPairs == Rows \subseteq Pairs

(* createTransaction sees, in the rows and credentials the pairing writes, *)
(* only what CreditTransactions takes for granted.                         *)
THEOREM NetworkRefinement == NetworkSpec => ImplementsTransactions
<1>1. NetworkInit => Transactions!Init
  BY DEF NetworkInit, GrantInit, Init, Rows, Transactions!Init, Transactions!Fsps, Transactions!Tros, CT!Fsps, CT!Tros,
         CT!Slots, Transactions!Slots, CT!Data, Transactions!Data, CT!FspIds, Transactions!FspIds
<1>2. World => RowsInPairs
  BY RowsArePairs DEF RowsInPairs
<1>3. World /\ RowsInPairs' /\ RequestsInv /\ [NetworkNext]_networkVars
        => [Transactions!Next]_(Transactions!vars)
  BY NetworkImplements DEF RowsInPairs
<1>4. NetworkSpec => []RowsInPairs
  BY <1>2, RequestsAlways, PTL
<1>5. NetworkSpec => [][Transactions!Next]_(Transactions!vars)
  BY <1>3, <1>4, RequestsAlways, PTL DEF NetworkSpec
<1>6. NetworkSpec => Transactions!Init
  BY <1>1, PTL DEF NetworkSpec
<1> QED
  BY <1>5, <1>6, PTL DEF ImplementsTransactions, Transactions!Spec

-----------------------------------------------------------------------------
(* What CreditTransactionsProofs shows, said of the network's state.       *)
TP == INSTANCE CreditTransactionsProofs WITH
  Requests <- TxRequests, Faulty <- TxFaulty, pc <- tpc,
  paired <- Rows, holds <- (CT!Fsps \cup CT!Tros) \ revoked

(* The assumptions of CreditTransactions follow from the network's.        *)
LEMMA NetworkTransactionConstants == TP!TransactionConstants
<1>1. \A p, q \in Pairs : p.fspId = q.fspId <=> p.fsp = q.fsp
  <2> SUFFICES ASSUME NEW p \in Pairs, NEW q \in Pairs PROVE p.fspId = q.fspId <=> p.fsp = q.fsp
    OBVIOUS
  <2>1. PICK f \in Banks, t \in Citizens :
           p = [fsp |-> f, tro |-> t, fspId |-> Id("fsp", f), troId |-> Id("tro", t)]
    BY PairsOf
  <2>2. PICK g \in Banks, u \in Citizens :
           q = [fsp |-> g, tro |-> u, fspId |-> Id("fsp", g), troId |-> Id("tro", u)]
    BY PairsOf
  <2> QED
    BY <2>1, <2>2, NetworkConstants DEF Id
<1>2. TP!Fsps \cap TP!Tros = {}
  BY PairsOf, NetworkConstants DEF TP!Fsps, TP!Tros
<1>3. MayCrash \in BOOLEAN
  BY PairingConstants
<1>4. Asks \subseteq TP!AskRecords
  BY DEF Asks, TP!AskRecords
<1>5. Null \notin TP!FspIds /\ Null \notin TP!AskRecords /\ Null \notin Pairs
  BY NetworkConstants DEF TP!FspIds, TP!AskRecords, CT!FspIds, CT!AskRecords
<1> QED
  BY <1>1, <1>2, <1>3, <1>4, <1>5, NetworkConstants DEF TP!TransactionConstants

LEMMA SameInit == Transactions!Init => TP!Init
  BY DEF Transactions!Init, TP!Init, Transactions!Slots, TP!Slots, Transactions!Fsps, TP!Fsps,
         Transactions!Tros, TP!Tros, Transactions!Data, TP!Data, Transactions!FspIds, TP!FspIds

LEMMA SameNext == [Transactions!Next]_(Transactions!vars) => [TP!Next]_(TP!vars)
  BY Zenon DEF Transactions!vars, Transactions!world, Transactions!requests, Transactions!handlers,
    Transactions!Fsps, Transactions!Tros, Transactions!FspIds, Transactions!Data, Transactions!Slots, Transactions!DataOf,
    Transactions!InFlight, Transactions!Handling, Transactions!FoundByFspId, Transactions!Goto, Transactions!Finish,
    Transactions!DataFor, Transactions!Tx, Transactions!Create, Transactions!FindConn, Transactions!ProveCredential,
    Transactions!ProveFsp, Transactions!ProveTro, Transactions!SavePending, Transactions!Issue, Transactions!Started,
    Transactions!Accepted, Transactions!CompletedTx, Transactions!StartTro, Transactions!StartFsp,
    Transactions!TroAccept, Transactions!HGoto, Transactions!HEnd, Transactions!Deliver, Transactions!PendingOf,
    Transactions!FindPending, Transactions!FindRec, Transactions!CompleteTro, Transactions!CompleteFsp,
    Transactions!FspSave, Transactions!SavePair, Transactions!Revoke, Transactions!Fault, Transactions!HandlerFault,
    Transactions!Crash, Transactions!CreateTransaction, Transactions!Respond, Transactions!Next,
    TP!vars, TP!world, TP!requests, TP!handlers,
    TP!Fsps, TP!Tros, TP!FspIds, TP!Data, TP!Slots, TP!DataOf,
    TP!InFlight, TP!Handling, TP!FoundByFspId, TP!Goto, TP!Finish,
    TP!DataFor, TP!Tx, TP!Create, TP!FindConn, TP!ProveCredential,
    TP!ProveFsp, TP!ProveTro, TP!SavePending, TP!Issue, TP!Started,
    TP!Accepted, TP!CompletedTx, TP!StartTro, TP!StartFsp,
    TP!TroAccept, TP!HGoto, TP!HEnd, TP!Deliver, TP!PendingOf,
    TP!FindPending, TP!FindRec, TP!CompleteTro, TP!CompleteFsp,
    TP!FspSave, TP!SavePair, TP!Revoke, TP!Fault, TP!HandlerFault,
    TP!Crash, TP!CreateTransaction, TP!Respond, TP!Next

LEMMA NetworkBehaves == NetworkSpec => TP!Spec
<1>1. Transactions!Spec => TP!Spec
  BY SameInit, SameNext, PTL DEF Transactions!Spec, TP!Spec
<1>2. NetworkSpec => Transactions!Spec
  BY NetworkRefinement DEF ImplementsTransactions
<1> QED
  BY <1>1, <1>2, PTL

(* The parties of a row met: both gave one key and hold their grants.      *)
Met(f, c) ==
  /\ \E k \in Keys : /\ [side |-> "fsp", conn |-> f, key |-> k] \in registered
                     /\ [side |-> "tro", conn |-> c, key |-> k] \in registered
  /\ HoldsGrant("fsp", f) /\ HoldsGrant("tro", c)

LEMMA RowsHaveMet ==
  ASSUME World, NEW q \in Rows
  PROVE  q.fsp \in Banks /\ q.tro \in Citizens /\ Met(q.fsp, q.tro)
<1>1. PICK p \in fspTroConnection : q = Row(p)
  BY DEF Rows
<1>2. p.conn["fsp"] = q.fsp /\ p.conn["tro"] = q.tro
  BY <1>1 DEF Row
<1>3. q.fsp \in Banks /\ q.tro \in Citizens
  BY RowsArePairs, PairsOf
<1>4. PICK k \in Keys : \A s \in Sides : [side |-> s, conn |-> p.conn[s], key |-> k] \in registered
  BY DEF World, GrantMatchesRegistration
<1>5. /\ [side |-> "fsp", conn |-> q.fsp, key |-> k] \in registered
      /\ [side |-> "tro", conn |-> q.tro, key |-> k] \in registered
  BY <1>2, <1>4 DEF Sides
<1>6. HoldsGrant("fsp", q.fsp) /\ HoldsGrant("tro", q.tro)
  <2>1. p = Pair(p.conn)
    BY DEF World, PairingInv, IssuingInv, PairRows
  <2>2. p.id["fsp"] = Id("fsp", q.fsp) /\ p.id["tro"] = Id("tro", q.tro)
    BY <1>2, <2>1 DEF Pair, Sides
  <2> QED
    BY <1>2, <2>2 DEF World, RowMeansBothCredentials, HoldsGrant, Sides
<1> QED
  BY <1>3, <1>5, <1>6 DEF Met

(* A record of a bank goes back, over the message of a citizen and the row *)
(* respond found, to the key both parties gave.                            *)
LEMMA RecordsHavePartners ==
  ASSUME World, TP!RecordedIsAccepted
  PROVE  RecordedBetweenPartners
<1> SUFFICES ASSUME NEW t \in saved, ~CT!SharedId(t.id),
                    NEW d, d = [fspId |-> t.fspId, hash |-> t.hash]
             PROVE  \E c \in Citizens, k \in Keys :
                      /\ CT!Accepted(c, d) \in msgs
                      /\ [side |-> "fsp", conn |-> t.fsp, key |-> k] \in registered
                      /\ [side |-> "tro", conn |-> c, key |-> k] \in registered
                      /\ HoldsGrant("fsp", t.fsp) /\ HoldsGrant("tro", c)
                      /\ CT!Asked(t.fsp, d)
  BY DEF RecordedBetweenPartners
<1>1. TP!ConsentedTo(t.fsp, d)
  BY DEF TP!RecordedIsAccepted, TP!SharedId, CT!SharedId, TP!Tx, CT!Tx
<1>2. CT!Asked(t.fsp, d)
  BY <1>1 DEF TP!ConsentedTo, TP!Asked, CT!Asked, TP!DataFor, TP!DataOf, CT!DataFor, CT!DataOf
<1>3. PICK q \in Rows : q.fsp = t.fsp /\ TP!Accepted(q.tro, d) \in msgs
  BY <1>1 DEF TP!ConsentedTo
<1>4. q.tro \in Citizens /\ Met(t.fsp, q.tro)
  BY <1>3, RowsHaveMet
<1>5. CT!Accepted(q.tro, d) \in msgs
  BY <1>3 DEF TP!Accepted, CT!Accepted
<1> QED
  BY <1>2, <1>4, <1>5 DEF Met

(* A bank's record is of a transaction it asked for with a citizen it met, *)
(* who accepted it, unless another bank asked under the same transaction   *)
(* id (FspSave, respond, issueGrantCredentials).                           *)
THEOREM RecordsFollowMeeting == NetworkSpec => []RecordedBetweenPartners
<1>1. TP!Spec => []TP!RecordedIsAccepted
  BY NetworkTransactionConstants, TP!RecordsFollowConsent
<1>2. World /\ TP!RecordedIsAccepted => RecordedBetweenPartners
  BY RecordsHavePartners
<1> QED
  BY <1>1, <1>2, NetworkBehaves, WorldAlways, PTL

(* A transaction credential reaches only a citizen that met the bank whose *)
(* request it is for (createTransaction, step 4), however many citizens    *)
(* the bank has and whatever hashes it sends.                              *)
IssuedBetweenPartners ==
  \A g \in txCreds : \E r \in TxRequests :
    ask[r] # Null /\ CT!Tx(r) = g.id /\ Met(ask[r].pair.fsp, g.to)

THEOREM CredentialsFollowMeeting == NetworkSpec => []IssuedBetweenPartners
<1>1. TP!Spec => []TP!CredentialGoesToPartner
  BY NetworkTransactionConstants, TP!CredentialsReachPartners
<1>2. World /\ TP!CredentialGoesToPartner => IssuedBetweenPartners
  <2> SUFFICES ASSUME World, TP!CredentialGoesToPartner, NEW g \in txCreds
               PROVE  \E r \in TxRequests : ask[r] # Null /\ CT!Tx(r) = g.id /\ Met(ask[r].pair.fsp, g.to)
    BY DEF IssuedBetweenPartners
  <2>1. PICK r \in TxRequests, p \in Rows :
           ask[r] # Null /\ p.fsp = ask[r].pair.fsp /\ g = [to |-> p.tro, id |-> TP!Tx(r)]
    BY DEF TP!CredentialGoesToPartner
  <2>2. Met(p.fsp, p.tro)
    BY RowsHaveMet
  <2> QED
    BY <2>1, <2>2 DEF TP!Tx, CT!Tx
<1> QED
  BY <1>1, <1>2, NetworkBehaves, WorldAlways, PTL

(* Over the rows the pairing saves, both lookups of respond find a row     *)
(* whenever a citizen's acceptance is handled.                             *)
THEOREM NetworkLookupsFind == NetworkSpec => []Transactions!AcceptedFindsItsRow
<1>1. TP!Spec => []TP!AcceptedFindsItsRow
  BY NetworkTransactionConstants, TP!LookupsFind
<1>2. TP!AcceptedFindsItsRow => Transactions!AcceptedFindsItsRow
  BY DEF TP!AcceptedFindsItsRow, Transactions!AcceptedFindsItsRow, TP!Slots, Transactions!Slots, TP!Tros,
         Transactions!Tros, TP!Data, Transactions!Data, TP!FspIds, Transactions!FspIds, TP!PendingOf,
         Transactions!PendingOf, TP!FoundByFspId, Transactions!FoundByFspId
<1> QED
  BY <1>1, <1>2, NetworkBehaves, PTL

(* Over the rows and credentials the pairing writes: once a grant is       *)
(* revoked, no request that has yet to ask for it issues a transaction     *)
(* credential on it (createTransaction, steps 2 and 3).                    *)
THEOREM NetworkRevocationStops == NetworkSpec => RevokedStopsTransactions
<1>1. TP!Spec => TP!RevokedStopsTransactions
  BY NetworkTransactionConstants, TP!RevocationStops
<1>2. TP!RevokedStopsTransactions <=> RevokedStopsTransactions
  BY DEF RevokedStopsTransactions, Transactions!RevokedStopsTransactions, TP!RevokedStopsTransactions,
         TP!ProofAhead, Transactions!ProofAhead, TP!Fsps, Transactions!Fsps, TP!Tros, Transactions!Tros
<1> QED
  BY <1>1, <1>2, NetworkBehaves, PTL

(* With the pairing in place of one step, the transactions still implement *)
(* the ledger of requests, consents and records.                           *)
THEOREM NetworkKeepsLedger == NetworkSpec => TP!ImplementsCredit
<1>1. TP!Spec => TP!ImplementsCredit
  BY NetworkTransactionConstants, TP!Refinement
<1> QED
  BY <1>1, NetworkBehaves, PTL
=============================================================================
