---------------------------- MODULE CreditNetwork ----------------------------
(***************************************************************************)
(* Pairing and credit transactions over one state.  The rows createTrans-  *)
(* action finds are those issueGrantCredentials saved, the credentials it  *)
(* asks for are those it issued, and a bank asks for a transaction with    *)
(* the ids its own grant table answered.                                   *)
(*                                                                         *)
(* The pairing's half of the state is FspGrants'.  The transactions' half  *)
(* is that of CreditTransactions, whose paired and holds are no variables  *)
(* here but expressions of the pairing's tables.  One process of the TDC   *)
(* runs both: its restart ends the requests and handlers of both.          *)
(***************************************************************************)
EXTENDS FspGrants, Naturals

CONSTANTS
  Hashes, TxId, MaxDeliveries, FaultyDeliveries,  \* as in CreditTransactions
  HashesOf,    \* [Banks -> SUBSET Hashes]: the fspHash values each bank computes
  Revocable,   \* connections whose grant credential may be revoked
  TxRequests,  \* POST create requests, each used once
  TxFaulty     \* those of them that may fail

VARIABLES
  revoked,     \* connections whose grant credential was revoked
  pending, txCreds, msgs, saved, tpc, ask, conn, answer, hpc, hkey, hconn,
  cut          \* history: deliveries that a failure or a restart ended

txVars == <<pending, txCreds, msgs, saved, tpc, ask, conn, answer, hpc, hkey, hconn>>
networkVars == <<grantVars, revoked, txVars, cut>>

Citizens == Holders["tro"]

(* A fsp_tro_connection row as CreditTransactions writes it.               *)
Row(p) == [fsp |-> p.conn["fsp"], tro |-> p.conn["tro"],
           fspId |-> p.id["fsp"], troId |-> p.id["tro"]]

Joined(f, t) == Pair([s \in Sides |-> IF s = "fsp" THEN f ELSE t])

Pairs == {Row(Joined(f, t)) : f \in Banks, t \in Citizens}
Asks  == {a \in [pair : Pairs, hash : Hashes] : a.hash \in HashesOf[a.pair.fsp]}
Rows  == {Row(p) : p \in fspTroConnection}

(* Connections whose grant credential was issued and is still good.        *)
Credentialed == {g.to : g \in credentials} \ revoked

CT == INSTANCE CreditTransactions WITH
  Requests <- TxRequests, Faulty <- TxFaulty, pc <- tpc,
  paired <- Rows, holds <- Credentialed

(* No connection leads to a bank and to a citizen, and the ids of two      *)
(* banks differ; the rest are the assumptions of CreditTransactions.       *)
ASSUME NetworkConstants ==
  /\ Banks \cap Citizens = {}
  /\ \A f, g \in Banks : Hash[f] = Hash[g] => f = g
  /\ Revocable \subseteq Conns
  /\ HashesOf \in [Banks -> SUBSET Hashes]
  /\ TxFaulty \subseteq TxRequests
  /\ MaxDeliveries \in Nat /\ FaultyDeliveries \subseteq 1 .. MaxDeliveries
  /\ Null \notin Pairs /\ Null \notin CT!FspIds /\ Null \notin CT!AskRecords
  /\ \A h \in Hashes : TxId[h] \notin {Null, "error"}

-----------------------------------------------------------------------------
TxInFlight ==
  \/ \E r \in TxRequests : CT!InFlight(r)
  \/ \E s \in CT!Slots : CT!Handling(s)

PairingInFlight == \E r \in Requests : InFlight(r)

(* registerOnetimeKey: the bank's controller passes its UI's call on.      *)
RegisterOnetimeKey(r, f, k) == Arrive(r, [op |-> "fsp", conn |-> f, key |-> k])

(* The calls that reach the TDC's controllers from others.  Parties call   *)
(* the endpoint of their side; calls of the wrong side, which fail at the  *)
(* proof, are left to TdcPairing.                                          *)
OtherCalls == {c \in Calls : c.op # "fsp" /\ (c.op = "tro" => c.conn \in Citizens)}

(* Requests are names, each used once: of the unused ones that meet no     *)
(* fault, one stands for all.                                              *)
Unused == {r \in Requests \ Faulty : pc[r] = "idle"}
Fresh  == Faulty \cup (IF Unused = {} THEN {} ELSE {CHOOSE r \in Unused : TRUE})

PairingStep ==
  /\ \/ \E r \in Fresh, f \in Banks, k \in Keys : RegisterOnetimeKey(r, f, k)
     \/ \E r \in Fresh, c \in OtherCalls : Arrive(r, c)
     \/ \E r \in Requests : Step(r) \/ Fault(r)
  /\ UNCHANGED <<tdcGrants, revoked, txVars, cut>>

BankSaves(m) == SaveTdcGrant(m) /\ UNCHANGED <<revoked, txVars, cut>>

(* The ids a bank may ask with: it was answered them for some key.         *)
KnowsIds(p) ==
  \E k \in Keys : \E a \in OneTimeKeyIds(p.fsp, k) :
    a.state = "accepted" /\ a.ids["fsp"] = p.fspId /\ a.ids["tro"] = p.troId

(* createTransaction of the FSP controller.                                *)
BankCreates(r, a) ==
  /\ KnowsIds(a.pair)
  /\ UNCHANGED <<grantVars, revoked, cut>>
  /\ CT!Create(r, a)

TransactionStep(A) == UNCHANGED <<grantVars, revoked, cut>> /\ A

DeliveryFails(s) ==
  /\ UNCHANGED <<grantVars, revoked>>
  /\ CT!HandlerFault(s)
  /\ cut' = cut \cup {s}

Revoke(c) ==
  /\ c \in Revocable
  /\ revoked' = revoked \cup {c}
  /\ UNCHANGED <<grantVars, txVars, cut>>

TdcCrash ==
  /\ MayCrash
  /\ UNCHANGED <<tdcGrants, revoked>>
  /\ cut' = cut \cup {s \in CT!Slots : CT!Handling(s)}
  /\ \/ Crash
     \/ ~PairingInFlight /\ UNCHANGED vars
  /\ \/ CT!Crash
     \/ ~TxInFlight /\ UNCHANGED txVars

NetworkInit ==
  /\ GrantInit
  /\ revoked = {} /\ cut = {}
  /\ pending = {} /\ txCreds = {} /\ msgs = {} /\ saved = {}
  /\ tpc = [r \in TxRequests |-> "idle"]
  /\ ask = [r \in TxRequests |-> Null]
  /\ conn = [r \in TxRequests |-> Null]
  /\ answer = [r \in TxRequests |-> Null]
  /\ hpc = [s \in CT!Slots |-> "idle"]
  /\ hkey = [s \in CT!Slots |-> Null]
  /\ hconn = [s \in CT!Slots |-> Null]

NetworkNext ==
  \/ PairingStep
  \/ \E m \in sent : BankSaves(m)
  \/ \E r \in TxRequests, a \in Asks : BankCreates(r, a)
  \/ \E r \in TxRequests : TransactionStep(CT!CreateTransaction(r) \/ CT!Fault(r))
  \/ \E m \in msgs : TransactionStep(CT!TroAccept(m) \/ CT!FspSave(m))
  \/ \E s \in CT!Slots : TransactionStep(CT!Deliver(s) \/ CT!Respond(s)) \/ DeliveryFails(s)
  \/ \E c \in Credentialed : Revoke(c)
  \/ TdcCrash

NetworkSpec == NetworkInit /\ [][NetworkNext]_networkVars

(* The fairness of CreditTransactions; the pairing may stop where it likes. *)
NetworkFairSpec ==
  /\ NetworkSpec
  /\ \A r \in TxRequests : WF_networkVars(TransactionStep(CT!CreateTransaction(r)))
  /\ \A s \in CT!Slots :
        /\ WF_networkVars(TransactionStep(CT!Deliver(s)))
        /\ WF_networkVars(TransactionStep(CT!Respond(s)))
  /\ \A f \in Banks, d \in CT!Data : LET m == CT!CompletedTx(f, d) IN
        WF_networkVars(m \in msgs /\ TransactionStep(CT!FspSave(m)))

-----------------------------------------------------------------------------
(* What a bank has on record was accepted by a citizen it met: the citizen *)
(* and the bank proved their auth credentials, gave one key each through   *)
(* its own endpoint, hold the grant credentials of their pair, and the     *)
(* bank asked for the transaction with the ids of that pair, unless        *)
(* another bank asked under the same transaction id.  It spans the bank's  *)
(* record, the handler's lookup, the row of the pair and the registrations *)
(* behind it.                                                              *)
RecordedBetweenPartners ==
  \A t \in saved : ~CT!SharedId(t.id) =>
    LET d == [fspId |-> t.fspId, hash |-> t.hash]
    IN \E c \in Citizens, k \in Keys :
         /\ CT!Accepted(c, d) \in msgs
         /\ [side |-> "fsp", conn |-> t.fsp, key |-> k] \in registered
         /\ [side |-> "tro", conn |-> c, key |-> k] \in registered
         /\ HoldsGrant("fsp", t.fsp) /\ HoldsGrant("tro", c)
         /\ CT!Asked(t.fsp, d)

(* A bank that asks with the ids of its grant table is never answered      *)
(* 'record not found': the pair is saved before the bank's notice is sent, *)
(* and nothing removes it (issueGrantCredentials, createTransaction).      *)
KnownIdsAreFound ==
  \A r \in TxRequests : tpc[r] = "findConn" => CT!FoundByFspId(CT!DataFor(r).fspId) # {}

(* No key was given by two citizens or by two banks.                       *)
NoKeyReused ==
  \A g, h \in registered : (g.side = h.side /\ g.key = h.key) => g.conn = h.conn


(* CreditTransactions lets a pair appear in one step and takes it that     *)
(* both parties hold their grants until these are revoked.  The composed   *)
(* system implements it: whenever the TDC acts on a row, both credentials  *)
(* were issued before (RowMeansBothCredentials), so a proof fails only     *)
(* after a revocation.                                                     *)
Transactions == INSTANCE CreditTransactions WITH
  Requests <- TxRequests, Faulty <- TxFaulty, pc <- tpc,
  paired <- Rows, holds <- (CT!Fsps \cup CT!Tros) \ revoked

ImplementsTransactions == Transactions!Spec

(* The property of CreditTransactions over the rows and credentials the    *)
(* pairing writes: once a grant is revoked, no request that has yet to ask *)
(* for it issues a transaction credential on it (createTransaction).       *)
RevokedStopsTransactions == Transactions!RevokedStopsTransactions

(* Liveness over the composed state: what a citizen accepted is in the end *)
(* on record at the bank that asked, unless restarts or failures cut off   *)
(* every delivery of the acceptance before the bank was told.              *)
AllDeliveriesCut(c, d) ==
  /\ \A n \in 1 .. MaxDeliveries : [from |-> c, data |-> d, n |-> n] \in cut
  /\ \A f \in Banks : CT!CompletedTx(f, d) \notin msgs

AcceptedIsRecorded ==
  \A p \in Pairs, h \in Hashes :
    LET d == [fspId |-> p.fspId, hash |-> h]
    IN CT!Accepted(p.tro, d) \in msgs
         ~> \/ CT!TransactionStatus(p.fsp, TxId[h]) = "accepted"
            \/ AllDeliveriesCut(p.tro, d)
=============================================================================
