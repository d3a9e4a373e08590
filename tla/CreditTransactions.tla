-------------------------- MODULE CreditTransactions --------------------------
(***************************************************************************)
(* A credit transaction from the bank's request to its record:             *)
(*                                                                         *)
(*   FSP controller  -- POST create -->  TDC createTransaction             *)
(*   TDC  -- 'started' and the credential -->  TRO, and 'started' --> FSP  *)
(*   TRO  -- 'accepted' -->  TDC TransactionMessageHandler                 *)
(*   TDC  -- 'completed' -->  TRO, then FSP, which saves the transaction   *)
(*                                                                         *)
(* Basic messages may be lost, delayed, reordered and delivered more than  *)
(* once (the sends are retried, as are webhooks): a message is in the set  *)
(* of all messages ever sent, and reading it does not remove it.  The rows *)
(* of fsp_tro_connection come from the pairing TdcPairing models; here a   *)
(* row of Pairs appears in one step, both parties holding their grants.    *)
(* CreditNetwork puts the two together.                                    *)
(***************************************************************************)
EXTENDS Naturals

CONSTANTS
  Pairs,         \* what fsp_tro_connection may hold: [fsp, tro, fspId, troId]
  Hashes,        \* fspHash values the banks compute
  TxId,          \* generateTransactionId, a function on Hashes
  Asks,          \* what banks may ask for: [pair, hash], the pair they mean
  Requests,      \* POST create requests, retries included, each used once
  MaxDeliveries, \* how often one 'accepted' message is delivered
  Faulty,        \* requests that may fail
  FaultyDeliveries, \* deliveries (1 .. MaxDeliveries) whose handler may fail
  MayCrash,      \* whether the TDC may stop and restart
  Revocable,     \* connections whose grant credential may be revoked
  Null

Fsps == {p.fsp : p \in Pairs}
Tros == {p.tro : p \in Pairs}

(* CreateTransactionDto as far as the code reads it: fspId and fspHash.    *)
FspIds == {p.fspId : p \in Pairs}
TxIds  == {TxId[h] : h \in Hashes}
Data   == [fspId : FspIds, hash : Hashes]

DataOf(a) == [fspId |-> a.pair.fspId, hash |-> a.hash]

AskRecords    == [pair : Pairs, hash : Hashes]
Messages      == [state : {"started", "accepted", "completed"}, peer : Fsps \cup Tros, data : Data]
Labels        == {"idle", "findConn", "proveFsp", "proveTro", "savePending", "issue",
                  "startTro", "startFsp", "done"}
HandlerLabels == {"idle", "findPending", "findRec", "completeTro", "completeFsp", "done"}

(* The webhook calls that bring 'accepted' messages to the TDC.            *)
Slots == [from : Tros, data : Data, n : 1 .. MaxDeliveries]

ASSUME TransactionConstants ==
  /\ \A p, q \in Pairs : p.fspId = q.fspId <=> p.fsp = q.fsp
  /\ Fsps \cap Tros = {}
  /\ Asks \subseteq AskRecords
  /\ Faulty \subseteq Requests
  /\ MaxDeliveries \in Nat
  /\ FaultyDeliveries \subseteq 1 .. MaxDeliveries
  /\ MayCrash \in BOOLEAN
  /\ Null \notin Pairs /\ Null \notin FspIds /\ Null \notin AskRecords
  /\ \A h \in Hashes : TxId[h] \notin {Null, "error"}

VARIABLES
  paired,     \* the fsp_tro_connection rows, a subset of Pairs
  holds,      \* connections whose grant credential is not revoked
  pending,    \* pending_transaction rows [id, key], serial ids left out
  txCreds,    \* transaction credentials issued, [to, id]
  msgs,       \* basic messages sent, [state, to or from, data]
  saved,      \* the FSPs' transactions tables, [fsp, id, fspId, hash]
  pc, ask, conn, answer,  \* per request: step, [pair, hash], rec, reply
  hpc, hkey, hconn        \* per delivery: step, connection_key, rec

world    == <<paired, holds>>
requests == <<pc, ask, conn, answer>>
handlers == <<hpc, hkey, hconn>>
vars == <<paired, holds, pending, txCreds, msgs, saved,
          pc, ask, conn, answer, hpc, hkey, hconn>>

Init ==
  /\ paired = {}
  /\ holds = Fsps \cup Tros
  /\ pending = {}
  /\ txCreds = {}
  /\ msgs = {}
  /\ saved = {}
  /\ pc = [r \in Requests |-> "idle"]
  /\ ask = [r \in Requests |-> Null]
  /\ conn = [r \in Requests |-> Null]
  /\ answer = [r \in Requests |-> Null]
  /\ hpc = [s \in Slots |-> "idle"]
  /\ hkey = [s \in Slots |-> Null]
  /\ hconn = [s \in Slots |-> Null]

InFlight(r) == pc[r] \notin {"idle", "done"}
Handling(s) == hpc[s] \notin {"idle", "done"}

(* Mutant: the lookup forgets its condition.                               *)
MutAnyRow(id) == paired

(* getFspTroConnectionByFspId: findOne returns any of the rows.            *)
FoundByFspId(id) == {p \in paired : p.fspId = id}

-----------------------------------------------------------------------------
(* createTransaction                                                       *)

Goto(r, l) == pc' = [pc EXCEPT ![r] = l]

Finish(r, a) ==
  /\ Goto(r, "done")
  /\ conn' = [conn EXCEPT ![r] = Null]
  /\ answer' = [answer EXCEPT ![r] = a]

DataFor(r) == DataOf(ask[r])
Tx(r) == TxId[ask[r].hash]

(* The bank's POST, passed on by its controller to the TDC's.              *)
Create(r, a) ==
  /\ pc[r] = "idle"
  /\ ask' = [ask EXCEPT ![r] = a]
  /\ Goto(r, "findConn")
  /\ UNCHANGED <<world, pending, txCreds, msgs, saved, conn, answer, handlers>>

(* 1 - the record of the bank's id, or 'record not found'.                 *)
FindConn(r) ==
  /\ pc[r] = "findConn"
  /\ \/ /\ \E p \in FoundByFspId(DataFor(r).fspId) : conn' = [conn EXCEPT ![r] = p]
        /\ Goto(r, "proveFsp")
        /\ UNCHANGED answer
     \/ /\ FoundByFspId(DataFor(r).fspId) = {}
        /\ Finish(r, "error")
  /\ UNCHANGED <<world, pending, txCreds, msgs, saved, ask, handlers>>

(* 2, 3 - each party in turn proves its grant credential; a failed proof   *)
(* ends the request.                                                       *)
ProveCredential(r, c, next) ==
  /\ \/ c \in holds /\ Goto(r, next) /\ UNCHANGED <<conn, answer>>
     \/ c \notin holds /\ Finish(r, "error")
  /\ UNCHANGED <<world, pending, txCreds, msgs, saved, ask, handlers>>

ProveFsp(r) == pc[r] = "proveFsp" /\ ProveCredential(r, conn[r].fsp, "proveTro")
(* Mutant: the bank's connection is proved twice.                          *)
MutProveFspTwice(r) ==
  pc[r] = "proveTro" /\ ProveCredential(r, conn[r].fsp, "savePending")

ProveTro(r) == pc[r] = "proveTro" /\ ProveCredential(r, conn[r].tro, "savePending")

(* Mutant: the id and the key go into each other's column.                 *)
MutSwappedColumns(r) ==
  /\ pc[r] = "savePending"
  /\ pending' = pending \cup {[id |-> DataFor(r).fspId, key |-> Tx(r)]}
  /\ Goto(r, "issue")
  /\ UNCHANGED <<world, txCreds, msgs, saved, ask, conn, answer, handlers>>

SavePending(r) ==
  /\ pc[r] = "savePending"
  /\ pending' = pending \cup {[id |-> Tx(r), key |-> DataFor(r).fspId]}
  /\ Goto(r, "issue")
  /\ UNCHANGED <<world, txCreds, msgs, saved, ask, conn, answer, handlers>>

(* 4 - the transaction credential goes to the TRO of the row found.        *)
Issue(r) ==
  /\ pc[r] = "issue"
  /\ txCreds' = txCreds \cup {[to |-> conn[r].tro, id |-> Tx(r)]}
  /\ Goto(r, "startTro")
  /\ UNCHANGED <<world, pending, msgs, saved, ask, conn, answer, handlers>>

Started(c, d) == [state |-> "started", peer |-> c, data |-> d]
Accepted(c, d) == [state |-> "accepted", peer |-> c, data |-> d]
CompletedTx(c, d) == [state |-> "completed", peer |-> c, data |-> d]

(* 5, 6 - the started messages, the TRO's first.                           *)
StartTro(r) ==
  /\ pc[r] = "startTro"
  /\ msgs' = msgs \cup {Started(conn[r].tro, DataFor(r))}
  /\ Goto(r, "startFsp")
  /\ UNCHANGED <<world, pending, txCreds, saved, ask, conn, answer, handlers>>

(* Mutant: the bank is sent 'completed' for 'started'.                     *)
MutCompletedAtOnce(r) ==
  /\ pc[r] = "startFsp"
  /\ msgs' = msgs \cup {CompletedTx(conn[r].fsp, DataFor(r))}
  /\ Finish(r, Tx(r))
  /\ UNCHANGED <<world, pending, txCreds, saved, ask, handlers>>

StartFsp(r) ==
  /\ pc[r] = "startFsp"
  /\ msgs' = msgs \cup {Started(conn[r].fsp, DataFor(r))}
  /\ Finish(r, Tx(r))
  /\ UNCHANGED <<world, pending, txCreds, saved, ask, handlers>>

-----------------------------------------------------------------------------
(* The TRO's agent accepts a transaction it was told of.                   *)
TroAccept(m) ==
  /\ m.state = "started"
  /\ m.peer \in Tros
  /\ msgs' = msgs \cup {Accepted(m.peer, m.data)}
  /\ UNCHANGED <<world, pending, txCreds, saved, requests, handlers>>

-----------------------------------------------------------------------------
(* TransactionMessageHandler.respond, one call per delivery.  The sender's *)
(* connection id is at hand but not used.                                  *)

HGoto(s, l) == hpc' = [hpc EXCEPT ![s] = l]

HEnd(s) ==
  /\ HGoto(s, "done")
  /\ hkey' = [hkey EXCEPT ![s] = Null]
  /\ hconn' = [hconn EXCEPT ![s] = Null]

Deliver(s) ==
  /\ hpc[s] = "idle"
  /\ Accepted(s.from, s.data) \in msgs
  /\ HGoto(s, "findPending")
  /\ UNCHANGED <<world, pending, txCreds, msgs, saved, requests, hkey, hconn>>

(* Mutant: the lookup forgets its condition.                               *)
MutAnyPending(s) == pending

PendingOf(s) == {q \in pending : q.id = TxId[s.data.hash]}

(* getPendingTransaction: any row of the id.  The code does not test what   *)
(* the two lookups return; AcceptedFindsItsRow says they never fail.       *)
FindPending(s) ==
  /\ hpc[s] = "findPending"
  /\ \E q \in PendingOf(s) : hkey' = [hkey EXCEPT ![s] = q.key]
  /\ HGoto(s, "findRec")
  /\ UNCHANGED <<world, pending, txCreds, msgs, saved, requests, hconn>>

FindRec(s) ==
  /\ hpc[s] = "findRec"
  /\ \E p \in FoundByFspId(hkey[s]) : hconn' = [hconn EXCEPT ![s] = p]
  /\ HGoto(s, "completeTro")
  /\ UNCHANGED <<world, pending, txCreds, msgs, saved, requests, hkey>>

CompleteTro(s) ==
  /\ hpc[s] = "completeTro"
  /\ msgs' = msgs \cup {CompletedTx(hconn[s].tro, s.data)}
  /\ HGoto(s, "completeFsp")
  /\ UNCHANGED <<world, pending, txCreds, saved, requests, hkey, hconn>>

(* Mutant: the bank is not told.                                           *)
MutTroOnly(s) ==
  /\ hpc[s] = "completeFsp"
  /\ HEnd(s)
  /\ UNCHANGED <<world, pending, txCreds, msgs, saved, requests>>

(* The pending row stays.                                                  *)
CompleteFsp(s) ==
  /\ hpc[s] = "completeFsp"
  /\ msgs' = msgs \cup {CompletedTx(hconn[s].fsp, s.data)}
  /\ HEnd(s)
  /\ UNCHANGED <<world, pending, txCreds, saved, requests>>

-----------------------------------------------------------------------------
(* Mutant: the state of the message is not tested.                         *)
MutSaveAnyState(m) ==
  /\ m.peer \in Fsps
  /\ saved' = saved \cup {[fsp |-> m.peer, id |-> TxId[m.data.hash],
                           fspId |-> m.data.fspId, hash |-> m.data.hash]}
  /\ UNCHANGED <<world, pending, txCreds, msgs, requests, handlers>>

(* The FSP controller's basicMessageHandler on a completed transaction.    *)
FspSave(m) ==
  /\ m.state = "completed"
  /\ m.peer \in Fsps
  /\ saved' = saved \cup {[fsp |-> m.peer, id |-> TxId[m.data.hash],
                           fspId |-> m.data.fspId, hash |-> m.data.hash]}
  /\ UNCHANGED <<world, pending, txCreds, msgs, requests, handlers>>

(* getTransactionStatus of the FSP controller.                             *)
TransactionStatus(f, id) ==
  IF \E t \in saved : t.fsp = f /\ t.id = id THEN "accepted" ELSE "unknown"

-----------------------------------------------------------------------------
(* issueGrantCredentials saves a pair.                                     *)
SavePair(p) ==
  /\ paired' = paired \cup {p}
  /\ UNCHANGED <<holds, pending, txCreds, msgs, saved, requests, handlers>>

(* A grant credential expires or is revoked.                               *)
Revoke(c) ==
  /\ c \in Revocable
  /\ holds' = holds \ {c}
  /\ UNCHANGED <<paired, pending, txCreds, msgs, saved, requests, handlers>>

(* Mutant: the catch block answers as if all had gone well.                *)
MutSwallowed(r) ==
  /\ r \in Faulty
  /\ InFlight(r)
  /\ Finish(r, Tx(r))
  /\ UNCHANGED <<world, pending, txCreds, msgs, saved, ask, handlers>>

(* A call that fails or times out; evaluateAndThrow ends the request.      *)
Fault(r) ==
  /\ r \in Faulty
  /\ InFlight(r)
  /\ Finish(r, "error")
  /\ UNCHANGED <<world, pending, txCreds, msgs, saved, ask, handlers>>

(* respond throws: the webhook call fails.                                 *)
HandlerFault(s) ==
  /\ s.n \in FaultyDeliveries
  /\ Handling(s)
  /\ HEnd(s)
  /\ UNCHANGED <<world, pending, txCreds, msgs, saved, requests>>

(* The TDC restarts: requests and handlers in flight are lost.             *)
Crash ==
  /\ MayCrash
  /\ \/ \E r \in Requests : InFlight(r)
     \/ \E s \in Slots : Handling(s)
  /\ pc' = [r \in Requests |-> IF InFlight(r) THEN "done" ELSE pc[r]]
  /\ conn' = [r \in Requests |-> Null]
  /\ hpc' = [s \in Slots |-> IF Handling(s) THEN "done" ELSE hpc[s]]
  /\ hkey' = [s \in Slots |-> Null]
  /\ hconn' = [s \in Slots |-> Null]
  /\ UNCHANGED <<world, pending, txCreds, msgs, saved, ask, answer>>

CreateTransaction(r) ==
  \/ FindConn(r) \/ ProveFsp(r) \/ ProveTro(r) \/ SavePending(r)
  \/ Issue(r) \/ StartTro(r) \/ StartFsp(r)

Respond(s) == FindPending(s) \/ FindRec(s) \/ CompleteTro(s) \/ CompleteFsp(s)

Next ==
  \/ \E r \in Requests, a \in Asks : Create(r, a)
  \/ \E r \in Requests : CreateTransaction(r) \/ Fault(r)
  \/ \E m \in msgs : TroAccept(m) \/ FspSave(m)
  \/ \E s \in Slots : Deliver(s) \/ Respond(s) \/ HandlerFault(s)
  \/ \E p \in Pairs \ paired : SavePair(p)
  \/ \E c \in holds : Revoke(c)
  \/ Crash

Spec == Init /\ [][Next]_vars
-----------------------------------------------------------------------------
(* Properties                                                              *)

TypeOK ==
  /\ paired \subseteq Pairs
  /\ holds \subseteq Fsps \cup Tros
  /\ pending \subseteq [id : TxIds, key : FspIds]
  /\ txCreds \subseteq [to : Tros, id : TxIds]
  /\ msgs \subseteq Messages
  /\ saved \subseteq [fsp : Fsps, id : TxIds, fspId : FspIds, hash : Hashes]
  /\ pc \in [Requests -> Labels]
  /\ ask \in [Requests -> AskRecords \cup {Null}]
  /\ conn \in [Requests -> Pairs \cup {Null}]
  /\ answer \in [Requests -> TxIds \cup {Null, "error"}]
  /\ hpc \in [Slots -> HandlerLabels]
  /\ hkey \in [Slots -> FspIds \cup {Null}]
  /\ hconn \in [Slots -> Pairs \cup {Null}]

Asked(f, d) ==
  \E r \in Requests : ask[r] # Null /\ ask[r].pair.fsp = f /\ DataFor(r) = d

ConsentedTo(f, d) ==
  /\ Asked(f, d)
  /\ \E p \in paired : p.fsp = f /\ Accepted(p.tro, d) \in msgs

(* Two banks' requests share a transaction id.  The banks choose the       *)
(* hashes the ids are made of and the TDC does not check.                  *)
SharedId(id) ==
  \E q, r \in Requests :
    /\ ask[q] # Null /\ ask[r] # Null /\ ask[q].pair.fsp # ask[r].pair.fsp
    /\ Tx(q) = id /\ Tx(r) = id

(* A row of a bank's transactions table: the bank asked for exactly this   *)
(* transaction and a citizen it is paired with accepted it, unless another *)
(* bank asked under the same id, by which respond finds the bank           *)
(* (TransactionMessageHandler.respond and the FSP's basicMessageHandler).  *)
RecordedIsAccepted ==
  \A t \in saved :
    ~SharedId(t.id) => ConsentedTo(t.fsp, [fspId |-> t.fspId, hash |-> t.hash])

(* What a request has behind it at each step.                              *)
Bound == {"proveFsp", "proveTro", "savePending", "issue", "startTro", "startFsp"}

PendingRow(d) == [id |-> TxId[d.hash], key |-> d.fspId]

RequestOK(r) ==
  /\ pc[r] = "idle" => ask[r] = Null /\ answer[r] = Null
  /\ pc[r] # "idle" => ask[r] \in Asks
  /\ pc[r] \in Bound => conn[r] \in FoundByFspId(DataFor(r).fspId)
  /\ pc[r] \in {"issue", "startTro", "startFsp"} => PendingRow(DataFor(r)) \in pending
  /\ pc[r] \in {"startTro", "startFsp"} => [to |-> conn[r].tro, id |-> Tx(r)] \in txCreds
  /\ pc[r] = "startFsp" => Started(conn[r].tro, DataFor(r)) \in msgs

RequestInv == \A r \in Requests : RequestOK(r)

(* What stands behind a message, and behind a pending row.                 *)
StartedFor(t, d) ==
  /\ PendingRow(d) \in pending
  /\ [to |-> t, id |-> TxId[d.hash]] \in txCreds
  /\ \E p \in paired : p.tro = t /\ p.fspId = d.fspId /\ Asked(p.fsp, d)

MessageInv ==
  \A m \in msgs :
    (m.state \in {"started", "accepted"} /\ m.peer \in Tros) => StartedFor(m.peer, m.data)

ConsentInv ==
  \A m \in msgs :
    (m.state = "completed" /\ m.peer \in Fsps /\ ~SharedId(TxId[m.data.hash])) =>
      ConsentedTo(m.peer, m.data)

PendingInv ==
  \A q \in pending :
    /\ FoundByFspId(q.key) # {}
    /\ \E r \in Requests : ask[r] # Null /\ q = PendingRow(DataFor(r))

(* What a call of respond has behind it.                                   *)
HandlerOK(s) ==
  /\ Handling(s) => Accepted(s.from, s.data) \in msgs
  /\ hpc[s] = "findRec" => \E q \in PendingOf(s) : hkey[s] = q.key
  /\ hpc[s] \in {"completeTro", "completeFsp"} =>
       \E q \in PendingOf(s) : hconn[s] \in FoundByFspId(q.key)

HandlerInv == \A s \in Slots : HandlerOK(s)

(* A citizen is told that a transaction is completed only if its own bank  *)
(* asked for it, and a citizen of that bank accepted it and was given its  *)
(* credential, unless two banks share the id.  It need not be the citizen  *)
(* told: respond sends to whichever row of the bank findOne returns, not   *)
(* to the sender.                                                          *)
CompletedWasAccepted ==
  \A m \in msgs :
    m.state = "completed" /\ m.peer \in Tros /\ ~SharedId(TxId[m.data.hash]) =>
      \E p, q \in paired :
        /\ p.tro = m.peer /\ q.fsp = p.fsp
        /\ Asked(p.fsp, m.data)
        /\ Accepted(q.tro, m.data) \in msgs
        /\ [to |-> q.tro, id |-> TxId[m.data.hash]] \in txCreds

(* Whatever ids collide: a bank has a record only under a transaction id   *)
(* of its own, and the transaction recorded is one that a citizen of the   *)
(* bank it names accepted for that bank.  So a collision can bring a bank  *)
(* another bank's transaction in the place of its own, and nothing else    *)
(* (the lookup by transaction id in TransactionMessageHandler.respond).    *)
MixedUpByCollisionOnly ==
  \A t \in saved :
    /\ \E r \in Requests :
         ask[r] # Null /\ ask[r].pair.fsp = t.fsp /\ Tx(r) = t.id
    /\ LET d == [fspId |-> t.fspId, hash |-> t.hash]
       IN \E p \in paired :
            p.fspId = t.fspId /\ Asked(p.fsp, d) /\ Accepted(p.tro, d) \in msgs

(* A transaction credential reaches only a citizen that the asking bank is *)
(* paired with, whichever of the bank's rows findOne returns               *)
(* (createTransaction, steps 1 and 4).                                     *)
CredentialGoesToPartner ==
  \A c \in txCreds : \E r \in Requests, p \in paired :
    ask[r] # Null /\ p.fsp = ask[r].pair.fsp /\ c = [to |-> p.tro, id |-> Tx(r)]

(* Both lookups of respond find a row whenever an 'accepted' message is    *)
(* handled, restarts and failed requests included: the pending transaction *)
(* is saved before the citizen hears of it and is never deleted.           *)
AcceptedFindsItsRow ==
  \A s \in Slots :
    /\ hpc[s] = "findPending" => PendingOf(s) # {}
    /\ hpc[s] = "findRec" => FoundByFspId(hkey[s]) # {}

(* A transaction id returned to the bank means that the credential was     *)
(* issued and both parties of one pair were told it started.               *)
AnsweredMeansStarted ==
  \A r \in Requests :
    answer[r] \notin {Null, "error"} =>
      \E p \in FoundByFspId(DataFor(r).fspId) :
        /\ [to |-> p.tro, id |-> Tx(r)] \in txCreds
        /\ {Started(p.tro, DataFor(r)), Started(p.fsp, DataFor(r))} \subseteq msgs

(* The request has yet to ask c for its grant credential.                  *)
ProofAhead(r, c) ==
  \/ pc[r] \in {"idle", "findConn", "proveFsp"}
  \/ pc[r] = "proveTro" /\ conn[r].tro = c

(* Whatever was proved before: once a grant is revoked, no request that    *)
(* has yet to ask for it, one between its two proofs say, issues a         *)
(* transaction credential on it (steps 2 and 3 of createTransaction).      *)
RevokedStopsTransactions ==
  \A r \in Requests, c \in Fsps \cup Tros :
    [](c \notin holds /\ ProofAhead(r, c) =>
         [](pc[r] \in {"savePending", "issue", "startTro", "startFsp"} =>
              c \notin {conn[r].fsp, conn[r].tro}))

(* The id of this hash may come of two banks' requests.                    *)
CanBeShared(h) ==
  \E a, b \in Asks :
    TxId[a.hash] = TxId[h] /\ TxId[b.hash] = TxId[h] /\ a.pair.fsp # b.pair.fsp

(* The steps implement the abstract ledger of requests, consents and       *)
(* records, but for records under ids that two banks may share.            *)
AskedSet ==
  {[fsp |-> ask[r].pair.fsp, data |-> DataFor(r)] : r \in {q \in Requests : ask[q] # Null}}
Consents ==
  {[tro |-> m.peer, data |-> m.data] : m \in {n \in msgs : n.state = "accepted"}}
Records ==
  {[fsp |-> t.fsp, data |-> [fspId |-> t.fspId, hash |-> t.hash]] :
     t \in {u \in saved : ~CanBeShared(u.hash)}}

Credit == INSTANCE CreditLedger WITH
  asked <- AskedSet, consented <- Consents, recorded <- Records

ImplementsCredit == Credit!CreditSpec
=============================================================================
