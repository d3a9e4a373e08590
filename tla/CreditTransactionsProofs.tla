---------------------- MODULE CreditTransactionsProofs ----------------------
(***************************************************************************)
(* Proofs about CreditTransactions, for any pairs, requests, hashes and    *)
(* failures.  The tables and the set of messages only grow, so what stands *)
(* behind a request, a pending row, a message or a handler call stays      *)
(* behind it: Growth, and the lemmas that cite it, carry the invariants    *)
(* over every step but the few that add something.                         *)
(***************************************************************************)
EXTENDS CreditTransactions, TLAPS

BaseInv == TypeOK /\ RequestInv

Growth ==
  /\ paired \subseteq paired'
  /\ pending \subseteq pending'
  /\ txCreds \subseteq txCreds'
  /\ msgs \subseteq msgs'
  /\ \A r \in Requests : ask[r] # Null => ask'[r] = ask[r]

LocalsOf(r) == <<pc[r], ask[r], conn[r], answer[r]>>

(* The steps of a request touch its own locals only.                       *)
OthersKept(r) ==
  \A q \in Requests \ {r} : UNCHANGED LocalsOf(q)

LEMMA DataIsData ==
  ASSUME NEW r \in Requests, ask[r] \in AskRecords
  PROVE  DataFor(r) \in Data /\ Tx(r) \in TxIds /\ DataFor(r).hash = ask[r].hash
  BY DEF AskRecords, DataFor, DataOf, Data, FspIds, Tx, TxIds

-----------------------------------------------------------------------------
(* Type correctness, with what the steps of a request rely on.             *)

LEMMA FinishTypes ==
  ASSUME BaseInv, NEW r \in Requests, NEW a \in TxIds \cup {"error"}, Finish(r, a),
         UNCHANGED ask
  PROVE  /\ pc' \in [Requests -> Labels]
         /\ conn' \in [Requests -> Pairs \cup {Null}]
         /\ answer' \in [Requests -> TxIds \cup {Null, "error"}]
         /\ pc'[r] = "done" /\ answer'[r] = a
         /\ OthersKept(r)
  BY DEF BaseInv, TypeOK, Finish, Goto, Labels, OthersKept, LocalsOf

LEMMA GotoTypes ==
  ASSUME BaseInv, NEW r \in Requests, NEW l \in Labels, Goto(r, l)
  PROVE  /\ pc' \in [Requests -> Labels]
         /\ pc'[r] = l
         /\ \A q \in Requests \ {r} : pc'[q] = pc[q]
  BY DEF BaseInv, TypeOK, Goto

(* A request whose locals stand still keeps what it relies on.             *)
LEMMA RequestKept ==
  ASSUME Growth, NEW r \in Requests, RequestOK(r), UNCHANGED LocalsOf(r)
  PROVE  RequestOK(r)'
  BY DEF Growth, RequestOK, LocalsOf, FoundByFspId, DataFor, Tx, PendingRow, DataOf, Started

LEMMA OneRequestMoves ==
  ASSUME Growth, RequestInv, NEW r \in Requests, OthersKept(r), RequestOK(r)'
  PROVE  RequestInv'
<1> SUFFICES ASSUME NEW q \in Requests PROVE RequestOK(q)'
  BY DEF RequestInv
<1>1. CASE q = r
  BY <1>1
<1>2. CASE q # r
  BY <1>2, RequestKept DEF OthersKept, RequestInv
<1> QED
  BY <1>1, <1>2

LEMMA NoRequestMoves ==
  ASSUME Growth, RequestInv, UNCHANGED requests
  PROVE  RequestInv'
<1> SUFFICES ASSUME NEW q \in Requests PROVE RequestOK(q)'
  BY DEF RequestInv
<1> QED
  BY RequestKept DEF requests, LocalsOf, RequestInv

(* A request that has ended relies on nothing.                             *)
LEMMA EndedOK ==
  ASSUME NEW r \in Requests, RequestOK(r), pc[r] # "idle", pc'[r] = "done", ask'[r] = ask[r]
  PROVE  RequestOK(r)'
  BY DEF RequestOK, Bound

LEMMA BaseInit == Init => BaseInv
  BY DEF Init, BaseInv, TypeOK, RequestInv, RequestOK, Labels, HandlerLabels, Bound

(* The steps of createTransaction.                                         *)
LEMMA CreateStep ==
  ASSUME BaseInv, NEW r \in Requests, NEW a \in Asks, Create(r, a)
  PROVE  BaseInv' /\ Growth
<1> USE TransactionConstants
<1>1. a \in AskRecords
  OBVIOUS
<1>2. ask[r] = Null /\ ask' = [ask EXCEPT ![r] = a]
  BY DEF Create, BaseInv, RequestInv, RequestOK
<1>3. Growth
  BY <1>2 DEF Create, world, Growth, BaseInv, TypeOK
<1>4. TypeOK'
  BY <1>1, <1>2 DEF Create, Goto, world, handlers, BaseInv, TypeOK, Labels
<1>5. OthersKept(r)
  BY <1>2 DEF Create, Goto, OthersKept, LocalsOf, BaseInv, TypeOK
<1>6. RequestOK(r)'
  BY <1>1, <1>2 DEF Create, Goto, RequestOK, Bound, BaseInv, TypeOK
<1> QED
  BY <1>3, <1>4, <1>5, <1>6, OneRequestMoves DEF BaseInv

(* A request that ends with what nothing else changes.                     *)
LEMMA EndStep ==
  ASSUME BaseInv, NEW r \in Requests, NEW a \in TxIds \cup {"error"}, Finish(r, a),
         pc[r] # "idle", TypeOK', Growth, UNCHANGED ask
  PROVE  BaseInv'
<1>1. pc'[r] = "done" /\ ask'[r] = ask[r] /\ OthersKept(r)
  BY FinishTypes
<1> QED
  BY <1>1, EndedOK, OneRequestMoves DEF BaseInv, RequestInv

LEMMA ErrorStep ==
  ASSUME BaseInv, NEW r \in Requests, Finish(r, "error"), pc[r] # "idle",
         UNCHANGED <<world, pending, txCreds, msgs, saved, ask, handlers>>
  PROVE  BaseInv' /\ Growth
<1>1. Growth
  BY DEF Growth, world
<1>2. TypeOK'
  BY FinishTypes DEF BaseInv, TypeOK, world, handlers
<1> QED
  BY <1>1, <1>2, EndStep

LEMMA FindConnStep ==
  ASSUME BaseInv, NEW r \in Requests, FindConn(r)
  PROVE  BaseInv' /\ Growth
<1>1. CASE Finish(r, "error")
  BY <1>1, ErrorStep DEF FindConn
<1>2. ASSUME NEW p \in FoundByFspId(DataFor(r).fspId), conn' = [conn EXCEPT ![r] = p],
             Goto(r, "proveFsp"), UNCHANGED answer
      PROVE  BaseInv' /\ Growth
  <2>1. Growth
    BY DEF FindConn, Growth, world
  <2>2. p \in Pairs
    BY DEF FoundByFspId, BaseInv, TypeOK
  <2>3. TypeOK'
    BY <1>2, <2>2 DEF FindConn, Goto, world, handlers, BaseInv, TypeOK, Labels
  <2>4. OthersKept(r)
    BY <1>2 DEF FindConn, Goto, OthersKept, LocalsOf, BaseInv, TypeOK
  <2>5. RequestOK(r)'
    BY <1>2 DEF FindConn, Goto, world, RequestOK, Bound, BaseInv, RequestInv, TypeOK, FoundByFspId, DataFor, DataOf
  <2> QED
    BY <2>1, <2>3, <2>4, <2>5, OneRequestMoves DEF BaseInv
<1> QED
  BY <1>1, <1>2 DEF FindConn

LEMMA ProveStep ==
  ASSUME BaseInv, NEW r \in Requests, ProveFsp(r) \/ ProveTro(r)
  PROVE  BaseInv' /\ Growth
<1>1. CASE Finish(r, "error")
  BY <1>1, ErrorStep DEF ProveFsp, ProveTro, ProveCredential
<1>2. ASSUME NEW l \in {"proveTro", "savePending"}, Goto(r, l), UNCHANGED <<conn, answer>>
      PROVE  BaseInv' /\ Growth
  <2>1. Growth
    BY DEF ProveFsp, ProveTro, ProveCredential, Growth, world
  <2>2. TypeOK'
    BY <1>2 DEF ProveFsp, ProveTro, ProveCredential, Goto, world, handlers, BaseInv, TypeOK, Labels
  <2>3. OthersKept(r)
    BY <1>2 DEF ProveFsp, ProveTro, ProveCredential, Goto, OthersKept, LocalsOf, BaseInv, TypeOK
  <2>4. RequestOK(r)'
    BY <1>2 DEF ProveFsp, ProveTro, ProveCredential, Goto, world, RequestOK, Bound, BaseInv,
                RequestInv, TypeOK, FoundByFspId, DataFor, DataOf
  <2> QED
    BY <2>1, <2>2, <2>3, <2>4, OneRequestMoves DEF BaseInv
<1> QED
  BY <1>1, <1>2 DEF ProveFsp, ProveTro, ProveCredential

(* What a request between its proofs and its answer has in hand.           *)
LEMMA InHand ==
  ASSUME BaseInv, NEW r \in Requests, pc[r] \in Bound
  PROVE  /\ ask[r] \in AskRecords
         /\ conn[r] \in paired /\ conn[r] \in Pairs /\ conn[r].fspId = DataFor(r).fspId
         /\ conn[r].tro \in Tros /\ conn[r].fsp \in Fsps
         /\ DataFor(r) \in Data /\ Tx(r) \in TxIds /\ DataFor(r).fspId \in FspIds
         /\ Tx(r) = TxId[DataFor(r).hash]
<1>1. ask[r] \in AskRecords /\ conn[r] \in FoundByFspId(DataFor(r).fspId)
  BY TransactionConstants DEF BaseInv, RequestInv, RequestOK, Bound
<1>2. conn[r] \in paired /\ conn[r] \in Pairs /\ conn[r].fspId = DataFor(r).fspId
  BY <1>1 DEF FoundByFspId, BaseInv, TypeOK
<1>3. conn[r].tro \in Tros /\ conn[r].fsp \in Fsps
  BY <1>2 DEF Tros, Fsps
<1>4. DataFor(r) \in Data /\ Tx(r) \in TxIds /\ Tx(r) = TxId[DataFor(r).hash]
  BY <1>1, DataIsData DEF Tx
<1> QED
  BY <1>1, <1>2, <1>3, <1>4 DEF Data

LEMMA SavePendingStep ==
  ASSUME BaseInv, NEW r \in Requests, SavePending(r)
  PROVE  BaseInv' /\ Growth
<1>1. pc[r] \in Bound
  BY DEF SavePending, Bound
<1>2. Growth
  BY DEF SavePending, Growth, world
<1>3. TypeOK'
  BY <1>1, InHand DEF SavePending, Goto, world, handlers, BaseInv, TypeOK, Labels
<1>4. OthersKept(r)
  BY DEF SavePending, Goto, OthersKept, LocalsOf, BaseInv, TypeOK
<1>5. RequestOK(r)'
  BY DEF SavePending, Goto, world, RequestOK, Bound, BaseInv, RequestInv, TypeOK,
         FoundByFspId, DataFor, DataOf, PendingRow, Tx
<1> QED
  BY <1>2, <1>3, <1>4, <1>5, OneRequestMoves DEF BaseInv

LEMMA IssueStep ==
  ASSUME BaseInv, NEW r \in Requests, Issue(r)
  PROVE  BaseInv' /\ Growth
<1>1. pc[r] \in Bound
  BY DEF Issue, Bound
<1>2. Growth
  BY DEF Issue, Growth, world
<1>3. TypeOK'
  BY <1>1, InHand DEF Issue, Goto, world, handlers, BaseInv, TypeOK, Labels
<1>4. OthersKept(r)
  BY DEF Issue, Goto, OthersKept, LocalsOf, BaseInv, TypeOK
<1>5. RequestOK(r)'
  BY DEF Issue, Goto, world, RequestOK, Bound, BaseInv, RequestInv, TypeOK,
         FoundByFspId, DataFor, DataOf, PendingRow, Tx
<1> QED
  BY <1>2, <1>3, <1>4, <1>5, OneRequestMoves DEF BaseInv

LEMMA MessageTypes ==
  ASSUME NEW c \in Fsps \cup Tros, NEW d \in Data
  PROVE  {Started(c, d), Accepted(c, d), CompletedTx(c, d)} \subseteq Messages
  BY DEF Started, Accepted, CompletedTx, Messages

LEMMA StartTroStep ==
  ASSUME BaseInv, NEW r \in Requests, StartTro(r)
  PROVE  BaseInv' /\ Growth
<1>1. pc[r] \in Bound
  BY DEF StartTro, Bound
<1>2. Growth
  BY DEF StartTro, Growth, world
<1>3. Started(conn[r].tro, DataFor(r)) \in Messages
  BY <1>1, InHand, MessageTypes
<1>4. TypeOK'
  BY <1>3 DEF StartTro, Goto, world, handlers, BaseInv, TypeOK, Labels
<1>5. OthersKept(r)
  BY DEF StartTro, Goto, OthersKept, LocalsOf, BaseInv, TypeOK
<1>6. RequestOK(r)'
  BY DEF StartTro, Goto, world, RequestOK, Bound, BaseInv, RequestInv, TypeOK,
         FoundByFspId, DataFor, DataOf, PendingRow, Tx, Started
<1> QED
  BY <1>2, <1>4, <1>5, <1>6, OneRequestMoves DEF BaseInv

LEMMA StartFspStep ==
  ASSUME BaseInv, NEW r \in Requests, StartFsp(r)
  PROVE  BaseInv' /\ Growth
<1>1. pc[r] \in Bound
  BY DEF StartFsp, Bound
<1>2. Growth
  BY DEF StartFsp, Growth, world
<1>3. Started(conn[r].fsp, DataFor(r)) \in Messages /\ Tx(r) \in TxIds
  BY <1>1, InHand, MessageTypes
<1>4. TypeOK'
  BY <1>3, FinishTypes DEF StartFsp, world, handlers, BaseInv, TypeOK
<1> QED
  BY <1>2, <1>3, <1>4, EndStep DEF StartFsp

(* The steps of the agents, the handler and the FSP's controller.          *)
LEMMA TroAcceptStep ==
  ASSUME BaseInv, NEW m \in msgs, TroAccept(m)
  PROVE  BaseInv' /\ Growth
<1>1. Growth
  BY DEF TroAccept, Growth, world, requests
<1>2. Accepted(m.peer, m.data) \in Messages
  BY MessageTypes DEF TroAccept, BaseInv, TypeOK, Messages
<1>3. TypeOK'
  BY <1>2 DEF TroAccept, world, requests, handlers, BaseInv, TypeOK
<1> QED
  BY <1>1, <1>3, NoRequestMoves DEF TroAccept, BaseInv

LEMMA FspSaveStep ==
  ASSUME BaseInv, NEW m \in msgs, FspSave(m)
  PROVE  BaseInv' /\ Growth
<1>1. Growth
  BY DEF FspSave, Growth, world, requests
<1>2. m.data \in Data /\ m.data.hash \in Hashes /\ m.data.fspId \in FspIds
  BY DEF BaseInv, TypeOK, Messages, Data
<1>3. TypeOK'
  BY <1>2 DEF FspSave, world, requests, handlers, BaseInv, TypeOK, TxIds
<1> QED
  BY <1>1, <1>3, NoRequestMoves DEF FspSave, BaseInv

LEMMA LookupSteps ==
  ASSUME BaseInv, NEW s \in Slots, Deliver(s) \/ FindPending(s) \/ FindRec(s) \/ HandlerFault(s)
  PROVE  BaseInv' /\ Growth
<1>1. Growth /\ UNCHANGED requests
  BY DEF Deliver, FindPending, FindRec, HandlerFault, Growth, world, requests
<1>2. CASE Deliver(s)
  <2>1. TypeOK'
    BY <1>2 DEF Deliver, HGoto, world, requests, BaseInv, TypeOK, HandlerLabels
  <2> QED
    BY <1>1, <2>1, NoRequestMoves DEF BaseInv
<1>3. CASE FindPending(s)
  <2>1. TypeOK'
    BY <1>3 DEF FindPending, HGoto, world, requests, BaseInv, TypeOK, HandlerLabels, PendingOf
  <2> QED
    BY <1>1, <2>1, NoRequestMoves DEF BaseInv
<1>4. CASE FindRec(s)
  <2>1. TypeOK'
    BY <1>4 DEF FindRec, HGoto, world, requests, BaseInv, TypeOK, HandlerLabels, FoundByFspId
  <2> QED
    BY <1>1, <2>1, NoRequestMoves DEF BaseInv
<1>5. CASE HandlerFault(s)
  <2>1. TypeOK'
    BY <1>5 DEF HandlerFault, HEnd, HGoto, world, requests, BaseInv, TypeOK, HandlerLabels
  <2> QED
    BY <1>1, <2>1, NoRequestMoves DEF BaseInv
<1> QED
  BY <1>2, <1>3, <1>4, <1>5

LEMMA CompleteSteps ==
  ASSUME BaseInv, HandlerInv, NEW s \in Slots, CompleteTro(s) \/ CompleteFsp(s)
  PROVE  BaseInv' /\ Growth
<1>1. Growth /\ UNCHANGED requests
  BY DEF CompleteTro, CompleteFsp, Growth, world, requests
<1>2. hconn[s] \in Pairs /\ s.data \in Data
  BY DEF CompleteTro, CompleteFsp, HandlerInv, HandlerOK, FoundByFspId, BaseInv, TypeOK, Slots
<1>3. {CompletedTx(hconn[s].tro, s.data), CompletedTx(hconn[s].fsp, s.data)} \subseteq Messages
  BY <1>2, MessageTypes DEF Tros, Fsps
<1>4. CASE CompleteTro(s)
  <2>1. TypeOK'
    BY <1>3, <1>4 DEF CompleteTro, HGoto, world, requests, BaseInv, TypeOK, HandlerLabels
  <2> QED
    BY <1>1, <2>1, NoRequestMoves DEF BaseInv
<1>5. CASE CompleteFsp(s)
  <2>1. TypeOK'
    BY <1>3, <1>5 DEF CompleteFsp, HEnd, HGoto, world, requests, BaseInv, TypeOK, HandlerLabels
  <2> QED
    BY <1>1, <2>1, NoRequestMoves DEF BaseInv
<1> QED
  BY <1>4, <1>5

LEMMA WorldSteps ==
  ASSUME BaseInv,
         \/ \E p \in Pairs \ paired : SavePair(p)
         \/ \E c \in holds : Revoke(c)
         \/ UNCHANGED vars
  PROVE  BaseInv' /\ Growth
<1>1. Growth /\ UNCHANGED requests
  BY DEF SavePair, Revoke, vars, Growth, world, requests
<1>2. TypeOK'
  <2>1. CASE \E p \in Pairs \ paired : SavePair(p)
    BY <2>1 DEF SavePair, requests, handlers, BaseInv, TypeOK
  <2>2. CASE \E c \in holds : Revoke(c)
    BY <2>2 DEF Revoke, requests, handlers, BaseInv, TypeOK
  <2>3. CASE UNCHANGED vars
    BY <2>3 DEF vars, BaseInv, TypeOK
  <2> QED
    BY <2>1, <2>2, <2>3
<1> QED
  BY <1>1, <1>2, NoRequestMoves DEF BaseInv

LEMMA CrashStep ==
  ASSUME BaseInv, Crash
  PROVE  BaseInv' /\ Growth
<1>1. Growth
  BY DEF Crash, Growth, world
<1>2. TypeOK'
  BY DEF Crash, world, InFlight, Handling, BaseInv, TypeOK, Labels, HandlerLabels
<1>3. ASSUME NEW r \in Requests PROVE RequestOK(r)'
  <2>1. CASE pc[r] = "idle"
    BY <2>1 DEF Crash, InFlight, BaseInv, TypeOK, RequestInv, RequestOK, Bound
  <2>2. CASE pc[r] # "idle"
    <3>1. pc'[r] = "done" /\ ask'[r] = ask[r]
      BY <2>2 DEF Crash, InFlight, BaseInv, TypeOK
    <3> QED
      BY <2>2, <3>1, EndedOK DEF BaseInv, RequestInv
  <2> QED
    BY <2>1, <2>2
<1> QED
  BY <1>1, <1>2, <1>3 DEF BaseInv, RequestInv

LEMMA BaseStep ==
  ASSUME BaseInv, HandlerInv, [Next]_vars
  PROVE  BaseInv' /\ Growth
<1>1. ASSUME NEW r \in Requests, CreateTransaction(r) PROVE BaseInv' /\ Growth
  BY <1>1, FindConnStep, ProveStep, SavePendingStep, IssueStep, StartTroStep, StartFspStep
     DEF CreateTransaction
<1>2. ASSUME NEW r \in Requests, Fault(r) PROVE BaseInv' /\ Growth
  BY <1>2, ErrorStep DEF Fault, InFlight
<1>3. ASSUME NEW s \in Slots, Respond(s) PROVE BaseInv' /\ Growth
  BY <1>3, LookupSteps, CompleteSteps DEF Respond
<1> QED
  BY <1>1, <1>2, <1>3, CreateStep, TroAcceptStep, FspSaveStep, LookupSteps, WorldSteps, CrashStep
     DEF Next

-----------------------------------------------------------------------------
(* The message handler.                                                    *)

LEMMA HandlerKept ==
  ASSUME Growth, NEW s \in Slots, HandlerOK(s),
         UNCHANGED <<hpc[s], hkey[s], hconn[s]>>
  PROVE  HandlerOK(s)'
  BY DEF Growth, HandlerOK, Handling, PendingOf, FoundByFspId, Accepted

LEMMA OneHandlerMoves ==
  ASSUME Growth, HandlerInv, NEW s \in Slots, HandlerOK(s)',
         \A t \in Slots \ {s} : UNCHANGED <<hpc[t], hkey[t], hconn[t]>>
  PROVE  HandlerInv'
<1> SUFFICES ASSUME NEW t \in Slots PROVE HandlerOK(t)'
  BY DEF HandlerInv
<1>1. CASE t = s
  BY <1>1
<1>2. CASE t # s
  BY <1>2, HandlerKept DEF HandlerInv
<1> QED
  BY <1>1, <1>2

LEMMA NoHandlerMoves ==
  ASSUME Growth, HandlerInv, UNCHANGED handlers
  PROVE  HandlerInv'
<1> SUFFICES ASSUME NEW t \in Slots PROVE HandlerOK(t)'
  BY DEF HandlerInv
<1> QED
  BY HandlerKept DEF handlers, HandlerInv

LEMMA RespondStep ==
  ASSUME BaseInv, HandlerInv, Growth, NEW s \in Slots,
         Deliver(s) \/ Respond(s) \/ HandlerFault(s)
  PROVE  HandlerInv'
<1>1. \A t \in Slots \ {s} : UNCHANGED <<hpc[t], hkey[t], hconn[t]>>
  BY DEF Deliver, Respond, FindPending, FindRec, CompleteTro, CompleteFsp, HandlerFault, HEnd,
         HGoto, BaseInv, TypeOK
<1>2. HandlerOK(s)
  BY DEF HandlerInv
<1>3. CASE Deliver(s)
  <2>1. HandlerOK(s)'
    BY <1>3 DEF Deliver, HGoto, HandlerOK, BaseInv, TypeOK
  <2> QED
    BY <1>1, <2>1, OneHandlerMoves
<1>4. CASE FindPending(s)
  <2>1. HandlerOK(s)'
    BY <1>2, <1>4 DEF FindPending, HGoto, HandlerOK, Handling, BaseInv, TypeOK, PendingOf
  <2> QED
    BY <1>1, <2>1, OneHandlerMoves
<1>5. CASE FindRec(s)
  <2>1. HandlerOK(s)'
    BY <1>2, <1>5 DEF FindRec, world, HGoto, HandlerOK, Handling, BaseInv, TypeOK, PendingOf, FoundByFspId
  <2> QED
    BY <1>1, <2>1, OneHandlerMoves
<1>6. CASE CompleteTro(s)
  <2>1. HandlerOK(s)'
    BY <1>2, <1>6 DEF CompleteTro, world, HGoto, HandlerOK, Handling, BaseInv, TypeOK, PendingOf, FoundByFspId
  <2> QED
    BY <1>1, <2>1, OneHandlerMoves
<1>7. CASE CompleteFsp(s) \/ HandlerFault(s)
  <2>1. hpc'[s] = "done"
    BY <1>7 DEF CompleteFsp, HandlerFault, HEnd, HGoto, BaseInv, TypeOK
  <2>2. HandlerOK(s)'
    BY <2>1 DEF HandlerOK, Handling
  <2> QED
    BY <1>1, <2>2, OneHandlerMoves
<1> QED
  BY <1>3, <1>4, <1>5, <1>6, <1>7 DEF Respond

LEMMA HandlerStep ==
  ASSUME BaseInv, HandlerInv, Growth, [Next]_vars
  PROVE  HandlerInv'
<1>1. CASE \E s \in Slots : Deliver(s) \/ Respond(s) \/ HandlerFault(s)
  BY <1>1, RespondStep
<1>2. CASE Crash
  <2>1. \A s \in Slots : hpc'[s] = hpc[s] \/ hpc'[s] = "done"
    BY <1>2 DEF Crash, BaseInv, TypeOK
  <2>2. \A s \in Slots : hpc'[s] \in {"idle", "done"}
    BY <1>2 DEF Crash, Handling, BaseInv, TypeOK
  <2> QED
    BY <2>2 DEF HandlerInv, HandlerOK, Handling
<1>3. CASE UNCHANGED handlers
  BY <1>3, NoHandlerMoves
<1>4. ASSUME NEW r \in Requests, NEW a \in Asks, Create(r, a) PROVE UNCHANGED handlers
  BY <1>4 DEF Create
<1>5. ASSUME NEW r \in Requests, CreateTransaction(r) \/ Fault(r) PROVE UNCHANGED handlers
  BY <1>5 DEF CreateTransaction, FindConn, ProveFsp, ProveTro, ProveCredential, SavePending, Issue,
              StartTro, StartFsp, Fault
<1>6. ASSUME NEW m \in msgs, TroAccept(m) \/ FspSave(m) PROVE UNCHANGED handlers
  BY <1>6 DEF TroAccept, FspSave
<1>7. CASE \/ \E p \in Pairs \ paired : SavePair(p)
           \/ \E c \in holds : Revoke(c)
           \/ UNCHANGED vars
  BY <1>3, <1>7 DEF SavePair, Revoke, vars, handlers
<1> QED
  BY <1>1, <1>2, <1>3, <1>4, <1>5, <1>6, <1>7 DEF Next

LEMMA HandlerInit == Init => HandlerInv
  BY DEF Init, HandlerInv, HandlerOK, Handling

LEMMA BaseAlways == Spec => [](BaseInv /\ HandlerInv)
<1>1. BaseInv /\ HandlerInv /\ [Next]_vars => (BaseInv /\ HandlerInv)'
  BY BaseStep, HandlerStep
<1> QED
  BY <1>1, BaseInit, HandlerInit, PTL DEF Spec

(* Tables, messages and the locals of requests and handlers always have    *)
(* their types.                                                            *)
THEOREM TypeCorrect == Spec => []TypeOK
<1>1. BaseInv => TypeOK
  BY DEF BaseInv
<1> QED
  BY <1>1, BaseAlways, PTL

-----------------------------------------------------------------------------
(* What stands behind the messages.                                        *)

LEMMA AskedGrows ==
  ASSUME Growth, NEW f, NEW d, Asked(f, d)
  PROVE  Asked(f, d)'
<1>1. PICK r \in Requests : ask[r] # Null /\ ask[r].pair.fsp = f /\ DataFor(r) = d
  BY DEF Asked
<1>2. ask'[r] = ask[r]
  BY <1>1 DEF Growth
<1> QED
  BY <1>1, <1>2 DEF Asked, DataFor, DataOf

LEMMA StartedForGrows ==
  ASSUME Growth, NEW t, NEW d, StartedFor(t, d)
  PROVE  StartedFor(t, d)'
<1>1. PICK p \in paired : p.tro = t /\ p.fspId = d.fspId /\ Asked(p.fsp, d)
  BY DEF StartedFor
<1>2. Asked(p.fsp, d)'
  BY <1>1, AskedGrows
<1> QED
  BY <1>1, <1>2 DEF StartedFor, Growth, PendingRow

LEMMA ConsentGrows ==
  ASSUME Growth, NEW f, NEW d, ConsentedTo(f, d)
  PROVE  ConsentedTo(f, d)'
<1>1. Asked(f, d)'
  BY AskedGrows DEF ConsentedTo
<1> QED
  BY <1>1 DEF ConsentedTo, Growth, Accepted

(* A request in flight was asked for by the bank of its pair.              *)
LEMMA InFlightAsked ==
  ASSUME BaseInv, NEW r \in Requests, pc[r] \in Bound
  PROVE  Asked(conn[r].fsp, DataFor(r))
<1> USE TransactionConstants
<1>1. ask[r] \in AskRecords /\ conn[r] \in Pairs /\ conn[r].fspId = ask[r].pair.fspId
  BY InHand DEF DataFor, DataOf
<1>2. conn[r].fsp = ask[r].pair.fsp /\ ask[r] # Null
  BY <1>1 DEF AskRecords
<1> QED
  BY <1>2 DEF Asked

(* Five actions send messages; the others leave them alone.                *)
LEMMA MessageSources ==
  ASSUME [Next]_vars
  PROVE  \/ msgs' = msgs
         \/ \E r \in Requests : StartTro(r) \/ StartFsp(r)
         \/ \E n \in msgs : TroAccept(n)
         \/ \E s \in Slots : CompleteTro(s) \/ CompleteFsp(s)
<1>1. ASSUME NEW r \in Requests, CreateTransaction(r), ~StartTro(r), ~StartFsp(r)
      PROVE  msgs' = msgs
  BY <1>1 DEF CreateTransaction, FindConn, ProveFsp, ProveTro, ProveCredential, SavePending, Issue
<1>2. ASSUME NEW s \in Slots, Respond(s), ~CompleteTro(s), ~CompleteFsp(s)
      PROVE  msgs' = msgs
  BY <1>2 DEF Respond, FindPending, FindRec
<1>3. ASSUME NEW r \in Requests, NEW a \in Asks, Create(r, a) PROVE msgs' = msgs
  BY <1>3 DEF Create
<1>4. ASSUME NEW r \in Requests, Fault(r) PROVE msgs' = msgs
  BY <1>4 DEF Fault
<1>5. ASSUME NEW m \in msgs, FspSave(m) PROVE msgs' = msgs
  BY <1>5 DEF FspSave
<1>6. ASSUME NEW s \in Slots, Deliver(s) \/ HandlerFault(s) PROVE msgs' = msgs
  BY <1>6 DEF Deliver, HandlerFault
<1>7. CASE \/ \E p \in Pairs \ paired : SavePair(p)
           \/ \E c \in holds : Revoke(c)
           \/ Crash
           \/ UNCHANGED vars
  BY <1>7 DEF SavePair, Revoke, Crash, vars
<1> QED
  BY <1>1, <1>2, <1>3, <1>4, <1>5, <1>6, <1>7 DEF Next

LEMMA SavedSources ==
  ASSUME [Next]_vars
  PROVE  saved' = saved \/ \E m \in msgs : FspSave(m)
<1>1. ASSUME NEW r \in Requests, CreateTransaction(r) PROVE saved' = saved
  BY <1>1 DEF CreateTransaction, FindConn, ProveFsp, ProveTro, ProveCredential, SavePending, Issue,
              StartTro, StartFsp
<1>2. ASSUME NEW s \in Slots, Deliver(s) \/ Respond(s) \/ HandlerFault(s) PROVE saved' = saved
  BY <1>2 DEF Deliver, Respond, FindPending, FindRec, CompleteTro, CompleteFsp, HandlerFault
<1>3. ASSUME NEW r \in Requests, NEW a \in Asks, Create(r, a) PROVE saved' = saved
  BY <1>3 DEF Create
<1>4. ASSUME NEW r \in Requests, Fault(r) PROVE saved' = saved
  BY <1>4 DEF Fault
<1>5. ASSUME NEW m \in msgs, TroAccept(m) PROVE saved' = saved
  BY <1>5 DEF TroAccept
<1>6. CASE \/ \E p \in Pairs \ paired : SavePair(p)
           \/ \E c \in holds : Revoke(c)
           \/ Crash
           \/ UNCHANGED vars
  BY <1>6 DEF SavePair, Revoke, Crash, vars
<1> QED
  BY <1>1, <1>2, <1>3, <1>4, <1>5, <1>6 DEF Next

LEMMA MessageStep ==
  ASSUME BaseInv, MessageInv, Growth, [Next]_vars
  PROVE  MessageInv'
<1> USE TransactionConstants
<1>1. \A m \in msgs : (m.state \in {"started", "accepted"} /\ m.peer \in Tros)
                        => StartedFor(m.peer, m.data)'
  BY StartedForGrows DEF MessageInv
<1>2. CASE msgs' = msgs
  BY <1>1, <1>2 DEF MessageInv
<1>3. ASSUME NEW r \in Requests, StartTro(r) PROVE MessageInv'
  <2>1. pc[r] \in Bound
    BY <1>3 DEF StartTro, Bound
  <2>2. PendingRow(DataFor(r)) \in pending /\ [to |-> conn[r].tro, id |-> Tx(r)] \in txCreds
    BY <1>3 DEF StartTro, BaseInv, RequestInv, RequestOK
  <2>3. StartedFor(conn[r].tro, DataFor(r))
    BY <2>1, <2>2, InHand, InFlightAsked DEF StartedFor
  <2>4. ASSUME NEW m \in msgs', m \notin msgs
        PROVE  StartedFor(m.peer, m.data)'
    <3>1. m.peer = conn[r].tro /\ m.data = DataFor(r)
      BY <1>3, <2>4 DEF StartTro, Started
    <3> QED
      BY <2>3, <3>1, StartedForGrows
  <2> QED
    BY <1>1, <2>4 DEF MessageInv
<1>4. ASSUME NEW r \in Requests, StartFsp(r) PROVE MessageInv'
  <2>1. pc[r] \in Bound
    BY <1>4 DEF StartFsp, Bound
  <2>2. conn[r].fsp \notin Tros
    BY <2>1, InHand
  <2>3. ASSUME NEW m \in msgs', m \notin msgs
        PROVE  m.peer \notin Tros
    BY <1>4, <2>2, <2>3 DEF StartFsp, Started
  <2> QED
    BY <1>1, <2>3 DEF MessageInv
<1>5. ASSUME NEW n \in msgs, TroAccept(n) PROVE MessageInv'
  <2>1. StartedFor(n.peer, n.data)'
    BY <1>1, <1>5 DEF TroAccept
  <2>2. ASSUME NEW m \in msgs', m \notin msgs
        PROVE  m.peer = n.peer /\ m.data = n.data
    BY <1>5, <2>2 DEF TroAccept, Accepted
  <2> QED
    BY <1>1, <2>1, <2>2 DEF MessageInv
<1>6. ASSUME NEW s \in Slots, CompleteTro(s) \/ CompleteFsp(s) PROVE MessageInv'
  <2>1. ASSUME NEW m \in msgs', m \notin msgs
        PROVE  m.state = "completed"
    BY <1>6, <2>1 DEF CompleteTro, CompleteFsp, CompletedTx
  <2> QED
    BY <1>1, <2>1 DEF MessageInv
<1>7. \/ msgs' = msgs
      \/ \E r \in Requests : StartTro(r) \/ StartFsp(r)
      \/ \E n \in msgs : TroAccept(n)
      \/ \E s \in Slots : CompleteTro(s) \/ CompleteFsp(s)
  BY MessageSources
<1> QED
  BY <1>2, <1>3, <1>4, <1>5, <1>6, <1>7

LEMMA PendingStep ==
  ASSUME BaseInv, PendingInv, Growth, [Next]_vars
  PROVE  PendingInv'
<1> USE TransactionConstants
<1>1. ASSUME NEW q \in pending
      PROVE  /\ FoundByFspId(q.key)' # {}
             /\ \E r \in Requests : ask'[r] # Null /\ q = PendingRow(DataFor(r))'
  BY <1>1 DEF PendingInv, Growth, PendingRow, DataFor, DataOf, FoundByFspId
<1>2. ASSUME NEW r \in Requests, SavePending(r) PROVE PendingInv'
  <2>1. ask[r] \in AskRecords /\ ask[r] # Null /\ ask'[r] = ask[r]
    BY <1>2, InHand DEF SavePending, Bound
  <2>2. ASSUME NEW q \in pending', q \notin pending
        PROVE  q = PendingRow(DataFor(r)) /\ q = PendingRow(DataFor(r))' /\ q.key = DataFor(r).fspId
    BY <1>2, <2>2 DEF SavePending, PendingRow, DataFor, DataOf, Tx
  <2>3. conn[r] \in paired' /\ conn[r].fspId = DataFor(r).fspId
    BY <1>2, InHand DEF SavePending, Bound, Growth
  <2> QED
    BY <1>1, <2>1, <2>2, <2>3 DEF PendingInv, FoundByFspId
<1>3. CASE pending' = pending
  BY <1>1, <1>3 DEF PendingInv
<1>4. ASSUME NEW r \in Requests, CreateTransaction(r), ~SavePending(r) PROVE pending' = pending
  BY <1>4 DEF CreateTransaction, FindConn, ProveFsp, ProveTro, ProveCredential, Issue, StartTro,
              StartFsp
<1>5. ASSUME NEW s \in Slots, Deliver(s) \/ Respond(s) \/ HandlerFault(s)
      PROVE  pending' = pending
  BY <1>5 DEF Deliver, Respond, FindPending, FindRec, CompleteTro, CompleteFsp, HandlerFault
<1>6. ASSUME NEW r \in Requests, NEW a \in Asks, Create(r, a) PROVE pending' = pending
  BY <1>6 DEF Create
<1>7. ASSUME NEW r \in Requests, Fault(r) PROVE pending' = pending
  BY <1>7 DEF Fault
<1>8. ASSUME NEW m \in msgs, TroAccept(m) \/ FspSave(m) PROVE pending' = pending
  BY <1>8 DEF TroAccept, FspSave
<1>9. CASE \/ \E p \in Pairs \ paired : SavePair(p)
           \/ \E c \in holds : Revoke(c)
           \/ Crash
           \/ UNCHANGED vars
  BY <1>3, <1>9 DEF SavePair, Revoke, Crash, vars
<1> QED
  BY <1>2, <1>3, <1>4, <1>5, <1>6, <1>7, <1>8, <1>9 DEF Next

(* The inductive invariant.                                                *)
CreditInv == BaseInv /\ HandlerInv /\ MessageInv /\ PendingInv

LEMMA CreditAlways == Spec => []CreditInv
<1>1. Init => CreditInv
  BY BaseInit, HandlerInit DEF Init, CreditInv, MessageInv, PendingInv
<1>2. CreditInv /\ [Next]_vars => CreditInv'
  BY BaseStep, HandlerStep, MessageStep, PendingStep DEF CreditInv
<1> QED
  BY <1>1, <1>2, PTL DEF Spec

(* Both lookups of respond find a row, whatever failed or was repeated or  *)
(* cut off before (transaction.message.handler.ts).                        *)
THEOREM LookupsFind == Spec => []AcceptedFindsItsRow
<1>1. CreditInv => AcceptedFindsItsRow
  <2> SUFFICES ASSUME CreditInv, NEW s \in Slots
               PROVE  /\ hpc[s] = "findPending" => PendingOf(s) # {}
                      /\ hpc[s] = "findRec" => FoundByFspId(hkey[s]) # {}
    BY DEF AcceptedFindsItsRow
  <2>1. CASE hpc[s] = "findPending"
    <3>1. Accepted(s.from, s.data) \in msgs /\ s.from \in Tros
      BY <2>1 DEF CreditInv, HandlerInv, HandlerOK, Handling, Slots
    <3>2. StartedFor(s.from, s.data)
      BY <3>1 DEF CreditInv, MessageInv, Accepted
    <3> QED
      BY <2>1, <3>2 DEF StartedFor, PendingRow, PendingOf
  <2>2. CASE hpc[s] = "findRec"
    <3>1. PICK q \in PendingOf(s) : hkey[s] = q.key
      BY <2>2 DEF CreditInv, HandlerInv, HandlerOK
    <3> QED
      BY <3>1 DEF CreditInv, PendingInv, PendingOf
  <2> QED
    BY <2>1, <2>2
<1> QED
  BY <1>1, CreditAlways, PTL

-----------------------------------------------------------------------------
(* Records follow consents, unless two banks share the transaction id.     *)

LEMMA AskKnown ==
  ASSUME BaseInv, NEW r \in Requests, ask[r] # Null
  PROVE  ask[r] \in Asks /\ ask[r] \in AskRecords
  BY TransactionConstants DEF BaseInv, RequestInv, RequestOK

(* The row respond finds is one of a bank that asked with the same         *)
(* transaction id.                                                         *)
LEMMA Matched ==
  ASSUME CreditInv, NEW s \in Slots, hpc[s] \in {"completeTro", "completeFsp"}
  PROVE  /\ Accepted(s.from, s.data) \in msgs
         /\ s.from \in Tros
         /\ StartedFor(s.from, s.data)
         /\ hconn[s] \in paired /\ hconn[s] \in Pairs
         /\ \E b \in Requests :
              ask[b] # Null /\ ask[b].pair.fsp = hconn[s].fsp /\ Tx(b) = TxId[s.data.hash]
<1> USE TransactionConstants
<1>1. Accepted(s.from, s.data) \in msgs /\ s.from \in Tros
  BY DEF CreditInv, HandlerInv, HandlerOK, Handling, Slots
<1>2. StartedFor(s.from, s.data)
  BY <1>1 DEF CreditInv, MessageInv, Accepted
<1>3. PICK q \in pending : q.id = TxId[s.data.hash] /\ hconn[s] \in FoundByFspId(q.key)
  BY DEF CreditInv, HandlerInv, HandlerOK, PendingOf
<1>4. PICK b \in Requests : ask[b] # Null /\ q = PendingRow(DataFor(b))
  BY DEF CreditInv, PendingInv
<1>5. ask[b].pair \in Pairs
  BY <1>4, AskKnown DEF CreditInv, AskRecords
<1>6. hconn[s] \in paired /\ hconn[s] \in Pairs /\ hconn[s].fspId = ask[b].pair.fspId
  BY <1>3, <1>4 DEF PendingRow, DataFor, DataOf, FoundByFspId, CreditInv, BaseInv, TypeOK
<1>7. Tx(b) = TxId[s.data.hash]
  BY <1>3, <1>4 DEF PendingRow, DataFor, DataOf, Tx
<1> QED
  BY <1>1, <1>2, <1>4, <1>5, <1>6, <1>7

(* If that id is not shared, it is the bank whose transaction was accepted.*)
LEMMA MatchedUnlessShared ==
  ASSUME CreditInv, NEW s \in Slots, hpc[s] \in {"completeTro", "completeFsp"},
         ~SharedId(TxId[s.data.hash])
  PROVE  hconn[s].fspId = s.data.fspId
<1> USE TransactionConstants
<1>1. PICK p \in paired : p.tro = s.from /\ p.fspId = s.data.fspId /\ Asked(p.fsp, s.data)
  BY Matched DEF StartedFor
<1>2. PICK a \in Requests : ask[a] # Null /\ ask[a].pair.fsp = p.fsp /\ DataFor(a) = s.data
  BY <1>1 DEF Asked
<1>3. PICK b \in Requests : ask[b] # Null /\ ask[b].pair.fsp = hconn[s].fsp /\ Tx(b) = TxId[s.data.hash]
  BY Matched
<1>4. Tx(a) = TxId[s.data.hash]
  BY <1>2 DEF DataFor, DataOf, Tx
<1>5. p.fsp = hconn[s].fsp
  BY <1>2, <1>3, <1>4 DEF SharedId
<1>6. p \in Pairs /\ hconn[s] \in Pairs
  BY Matched DEF CreditInv, BaseInv, TypeOK
<1> QED
  BY <1>1, <1>5, <1>6

LEMMA SharedGrows ==
  ASSUME Growth, NEW id, SharedId(id)
  PROVE  SharedId(id)'
  BY DEF Growth, SharedId, Tx

LEMMA SharedOnlyIfShareable ==
  ASSUME BaseInv, NEW h, ~CanBeShared(h)
  PROVE  ~SharedId(TxId[h])
  BY AskKnown DEF CanBeShared, SharedId, Tx

LEMMA CompletedConsent ==
  ASSUME CreditInv, NEW s \in Slots, CompleteFsp(s), ~SharedId(TxId[s.data.hash])
  PROVE  ConsentedTo(hconn[s].fsp, s.data)
<1> USE TransactionConstants
<1>1. /\ Accepted(s.from, s.data) \in msgs
      /\ StartedFor(s.from, s.data)
      /\ hconn[s] \in Pairs /\ hconn[s].fspId = s.data.fspId
  BY Matched, MatchedUnlessShared DEF CompleteFsp
<1>2. PICK p \in paired : p.tro = s.from /\ p.fspId = s.data.fspId /\ Asked(p.fsp, s.data)
  BY <1>1 DEF StartedFor
<1>3. p.fsp = hconn[s].fsp
  BY <1>1, <1>2 DEF CreditInv, BaseInv, TypeOK
<1> QED
  BY <1>1, <1>2, <1>3 DEF ConsentedTo

LEMMA ConsentStep ==
  ASSUME CreditInv, ConsentInv, [Next]_vars
  PROVE  ConsentInv'
<1> USE TransactionConstants
<1>1. Growth
  BY BaseStep DEF CreditInv
<1>2. \A m \in msgs : m.state = "completed" /\ m.peer \in Fsps =>
        SharedId(TxId[m.data.hash])' \/ ConsentedTo(m.peer, m.data)'
  BY <1>1, SharedGrows, ConsentGrows DEF ConsentInv
<1>3. CASE msgs' = msgs
  BY <1>2, <1>3 DEF ConsentInv
<1>4. CASE \/ \E r \in Requests : StartTro(r) \/ StartFsp(r)
           \/ \E n \in msgs : TroAccept(n)
  <2>1. ASSUME NEW m \in msgs', m \notin msgs PROVE m.state # "completed"
    BY <1>4, <2>1 DEF StartTro, StartFsp, TroAccept, Started, Accepted
  <2> QED
    BY <1>2, <2>1 DEF ConsentInv
<1>5. ASSUME NEW s \in Slots, CompleteTro(s) PROVE ConsentInv'
  <2>1. hconn[s].tro \in Tros
    BY <1>5, Matched DEF CompleteTro, Tros
  <2>2. ASSUME NEW m \in msgs', m \notin msgs PROVE m.peer \notin Fsps
    BY <1>5, <2>1, <2>2 DEF CompleteTro, CompletedTx
  <2> QED
    BY <1>2, <2>2 DEF ConsentInv
<1>6. ASSUME NEW s \in Slots, CompleteFsp(s) PROVE ConsentInv'
  <2>1. ASSUME NEW m \in msgs', m \notin msgs
        PROVE  SharedId(TxId[m.data.hash])' \/ ConsentedTo(m.peer, m.data)'
    <3>1. m.peer = hconn[s].fsp /\ m.data = s.data
      BY <1>6, <2>1 DEF CompleteFsp, CompletedTx
    <3> QED
      BY <1>1, <1>6, <3>1, CompletedConsent, SharedGrows, ConsentGrows
  <2> QED
    BY <1>2, <2>1 DEF ConsentInv
<1> QED
  BY <1>3, <1>4, <1>5, <1>6, MessageSources

LEMMA RecordStep ==
  ASSUME CreditInv, ConsentInv, RecordedIsAccepted, [Next]_vars
  PROVE  RecordedIsAccepted'
<1>1. Growth
  BY BaseStep DEF CreditInv
<1>2. \A t \in saved :
        SharedId(t.id)' \/ ConsentedTo(t.fsp, [fspId |-> t.fspId, hash |-> t.hash])'
  BY <1>1, SharedGrows, ConsentGrows DEF RecordedIsAccepted
<1>3. CASE saved' = saved
  BY <1>2, <1>3 DEF RecordedIsAccepted
<1>4. ASSUME NEW m \in msgs, FspSave(m) PROVE RecordedIsAccepted'
  <2>1. SharedId(TxId[m.data.hash]) \/ ConsentedTo(m.peer, m.data)
    BY <1>4 DEF FspSave, ConsentInv
  <2>2. m.data = [fspId |-> m.data.fspId, hash |-> m.data.hash]
    BY DEF CreditInv, BaseInv, TypeOK, Messages, Data
  <2>3. SharedId(TxId[m.data.hash])' \/ ConsentedTo(m.peer, m.data)'
    BY <1>1, <2>1, SharedGrows, ConsentGrows
  <2>4. ASSUME NEW t \in saved', t \notin saved
        PROVE  /\ t.fsp = m.peer /\ t.id = TxId[m.data.hash]
               /\ t.fspId = m.data.fspId /\ t.hash = m.data.hash
    BY <1>4, <2>4 DEF FspSave
  <2> QED
    BY <1>2, <2>2, <2>3, <2>4 DEF RecordedIsAccepted
<1> QED
  BY <1>3, <1>4, SavedSources

(* What a bank has on record it asked for, and a citizen it is paired with *)
(* accepted it, unless another bank asked under the same transaction id    *)
(* (TransactionMessageHandler.respond and the FSP's basicMessageHandler).  *)
THEOREM RecordsFollowConsent == Spec => []RecordedIsAccepted
<1>1. Init => ConsentInv /\ RecordedIsAccepted
  BY DEF Init, ConsentInv, RecordedIsAccepted
<1>2. CreditInv /\ ConsentInv /\ RecordedIsAccepted /\ [Next]_vars
        => (ConsentInv /\ RecordedIsAccepted)'
  BY ConsentStep, RecordStep
<1> QED
  BY <1>1, <1>2, CreditAlways, PTL DEF Spec

-----------------------------------------------------------------------------
(* Answers.                                                                *)

Answered(r) == answer[r] \notin {Null, "error"}

(* A request gets its transaction id from the last step only.              *)
LEMMA AnswerSources ==
  ASSUME BaseInv, NEW r \in Requests, [Next]_vars, Answered(r)'
  PROVE  \/ answer'[r] = answer[r] /\ ask'[r] = ask[r]
         \/ StartFsp(r)
<1>2. ASSUME NEW q \in Requests, NEW a \in Asks, Create(q, a)
      PROVE  answer'[r] = answer[r] /\ ask'[r] = ask[r]
  <2>1. answer[q] = Null /\ answer' = answer
    BY <1>2 DEF Create, BaseInv, RequestInv, RequestOK
  <2>2. q # r
    BY <2>1 DEF Answered
  <2> QED
    BY <1>2, <2>1, <2>2 DEF Create, BaseInv, TypeOK
<1>3. ASSUME NEW q \in Requests, Finish(q, "error"), UNCHANGED ask
      PROVE  answer'[r] = answer[r] /\ ask'[r] = ask[r]
  BY <1>3 DEF Finish, Answered, BaseInv, TypeOK
<1>4. ASSUME NEW q \in Requests, CreateTransaction(q), ~StartFsp(q)
      PROVE  answer'[r] = answer[r] /\ ask'[r] = ask[r]
  <2>1. \/ Finish(q, "error") /\ UNCHANGED ask
        \/ UNCHANGED <<answer, ask>>
    BY <1>4 DEF CreateTransaction, FindConn, ProveFsp, ProveTro, ProveCredential, SavePending,
                Issue, StartTro
  <2> QED
    BY <1>3, <2>1
<1>5. ASSUME NEW q \in Requests, StartFsp(q), q # r
      PROVE  answer'[r] = answer[r] /\ ask'[r] = ask[r]
  BY <1>5 DEF StartFsp, Finish, BaseInv, TypeOK
<1>6. ASSUME NEW q \in Requests, Fault(q)
      PROVE  answer'[r] = answer[r] /\ ask'[r] = ask[r]
  BY <1>3, <1>6 DEF Fault
<1>7. ASSUME NEW s \in Slots, Deliver(s) \/ Respond(s) \/ HandlerFault(s)
      PROVE  UNCHANGED <<answer, ask>>
  BY <1>7 DEF Deliver, Respond, FindPending, FindRec, CompleteTro, CompleteFsp, HandlerFault, requests
<1>8. ASSUME NEW m \in msgs, TroAccept(m) \/ FspSave(m) PROVE UNCHANGED <<answer, ask>>
  BY <1>8 DEF TroAccept, FspSave, requests
<1>9. CASE \/ \E p \in Pairs \ paired : SavePair(p)
           \/ \E c \in holds : Revoke(c)
           \/ Crash
           \/ UNCHANGED vars
  BY <1>9 DEF SavePair, Revoke, Crash, vars, requests
<1> QED
  BY <1>2, <1>4, <1>5, <1>6, <1>7, <1>8, <1>9 DEF Next

LEMMA AnswerStep ==
  ASSUME CreditInv, AnsweredMeansStarted, [Next]_vars
  PROVE  AnsweredMeansStarted'
<1>1. Growth
  BY BaseStep DEF CreditInv
<1> SUFFICES ASSUME NEW r \in Requests, Answered(r)'
             PROVE  \E p \in FoundByFspId(DataFor(r).fspId)' :
                      /\ [to |-> p.tro, id |-> Tx(r)'] \in txCreds'
                      /\ {Started(p.tro, DataFor(r)'), Started(p.fsp, DataFor(r)')} \subseteq msgs'
  BY DEF AnsweredMeansStarted, Answered, Started
<1>2. CASE answer'[r] = answer[r] /\ ask'[r] = ask[r]
  <2>1. PICK p \in FoundByFspId(DataFor(r).fspId) :
          /\ [to |-> p.tro, id |-> Tx(r)] \in txCreds
          /\ {Started(p.tro, DataFor(r)), Started(p.fsp, DataFor(r))} \subseteq msgs
    BY <1>2 DEF AnsweredMeansStarted, Answered
  <2>2. DataFor(r)' = DataFor(r) /\ Tx(r)' = Tx(r)
    BY <1>2 DEF DataFor, DataOf, Tx
  <2> QED
    BY <1>1, <2>1, <2>2 DEF Growth, FoundByFspId
<1>3. CASE StartFsp(r)
  <2>1. /\ conn[r] \in FoundByFspId(DataFor(r).fspId)
        /\ [to |-> conn[r].tro, id |-> Tx(r)] \in txCreds
        /\ Started(conn[r].tro, DataFor(r)) \in msgs
    BY <1>3 DEF StartFsp, CreditInv, BaseInv, RequestInv, RequestOK, Bound
  <2>2. DataFor(r)' = DataFor(r) /\ Tx(r)' = Tx(r)
    BY <1>3 DEF StartFsp, DataFor, DataOf, Tx
  <2>3. Started(conn[r].fsp, DataFor(r)) \in msgs'
    BY <1>3 DEF StartFsp
  <2> QED
    BY <1>1, <2>1, <2>2, <2>3 DEF Growth, FoundByFspId
<1> QED
  BY <1>2, <1>3, AnswerSources DEF CreditInv

(* A transaction id is answered only when the credential was issued and    *)
(* both parties were told (createTransaction).                             *)
THEOREM AnswersAreTrue == Spec => []AnsweredMeansStarted
<1>1. Init => AnsweredMeansStarted
  BY DEF Init, AnsweredMeansStarted
<1>2. CreditInv /\ AnsweredMeansStarted /\ [Next]_vars => AnsweredMeansStarted'
  BY AnswerStep
<1> QED
  BY <1>1, <1>2, CreditAlways, PTL DEF Spec
-----------------------------------------------------------------------------
(* The refinement of CreditLedger.                                         *)

LEMMA AskSources ==
  ASSUME [Next]_vars
  PROVE  \/ ask' = ask
         \/ \E r \in Requests, a \in Asks : Create(r, a)
<1>1. ASSUME NEW r \in Requests, CreateTransaction(r) PROVE ask' = ask
  BY <1>1 DEF CreateTransaction, FindConn, ProveFsp, ProveTro, ProveCredential, SavePending, Issue,
              StartTro, StartFsp
<1>2. ASSUME NEW s \in Slots, Deliver(s) \/ Respond(s) \/ HandlerFault(s) PROVE ask' = ask
  BY <1>2 DEF Deliver, Respond, FindPending, FindRec, CompleteTro, CompleteFsp, HandlerFault, requests
<1>3. ASSUME NEW r \in Requests, Fault(r) PROVE ask' = ask
  BY <1>3 DEF Fault
<1>4. ASSUME NEW m \in msgs, TroAccept(m) \/ FspSave(m) PROVE ask' = ask
  BY <1>4 DEF TroAccept, FspSave, requests
<1>5. CASE \/ \E p \in Pairs \ paired : SavePair(p)
           \/ \E c \in holds : Revoke(c)
           \/ Crash
           \/ UNCHANGED vars
  BY <1>5 DEF SavePair, Revoke, Crash, vars, requests
<1> QED
  BY <1>1, <1>2, <1>3, <1>4, <1>5 DEF Next

LEMMA AskedSetKept == ASSUME UNCHANGED ask PROVE UNCHANGED AskedSet
  BY DEF AskedSet, DataFor, DataOf

LEMMA ConsentsKept ==
  ASSUME \A m \in msgs : m \in msgs',
         \A m \in msgs' : m \notin msgs => m.state # "accepted"
  PROVE  UNCHANGED Consents
  BY DEF Consents

LEMMA ConsentsAdd ==
  ASSUME NEW m, m.state = "accepted", msgs' = msgs \cup {m}
  PROVE  Consents' = Consents \cup {[tro |-> m.peer, data |-> m.data]}
<1> DEFINE acc  == {n \in msgs : n.state = "accepted"}
           acc1 == {n \in msgs' : n.state = "accepted"}
           F(n) == [tro |-> n.peer, data |-> n.data]
<1>1. acc1 = acc \cup {m}
  OBVIOUS
<1>2. Consents = {F(n) : n \in acc} /\ Consents' = {F(n) : n \in acc1}
  BY DEF Consents
<1> HIDE DEF acc, acc1, F
<1>3. Consents' = Consents \cup {F(m)}
  BY <1>1, <1>2
<1> QED
  BY <1>3 DEF F

LEMMA RecordsAdd ==
  ASSUME NEW t, saved' = saved \cup {t}
  PROVE  Records' = IF CanBeShared(t.hash) THEN Records
           ELSE Records \cup {[fsp |-> t.fsp, data |-> [fspId |-> t.fspId, hash |-> t.hash]]}
<1> DEFINE F(u) == [fsp |-> u.fsp, data |-> [fspId |-> u.fspId, hash |-> u.hash]]
           own  == {u \in saved : ~CanBeShared(u.hash)}
           own1 == {u \in saved' : ~CanBeShared(u.hash)}
<1>1. own1 = IF CanBeShared(t.hash) THEN own ELSE own \cup {t}
  OBVIOUS
<1>2. Records = {F(u) : u \in own} /\ Records' = {F(u) : u \in own1}
  BY DEF Records, CanBeShared
<1> HIDE DEF F, own, own1
<1>3. Records' = IF CanBeShared(t.hash) THEN Records ELSE Records \cup {F(t)}
  BY <1>1, <1>2
<1> QED
  BY <1>3 DEF F

LEMMA AskedIsInSet ==
  ASSUME NEW f, NEW d, Asked(f, d)
  PROVE  [fsp |-> f, data |-> d] \in AskedSet
  BY DEF Asked, AskedSet

(* The bank's POST.                                                        *)
LEMMA CreateAsks ==
  ASSUME BaseInv, NEW r \in Requests, NEW a \in Asks, Create(r, a)
  PROVE  Credit!CreditNext
<1> USE TransactionConstants
<1> DEFINE d == DataOf(a)
<1>1. ask[r] = Null /\ ask' = [ask EXCEPT ![r] = a]
  BY DEF Create, BaseInv, RequestInv, RequestOK
<1>2. a.pair \in Pairs /\ d \in Data /\ a # Null
  <2>1. a.pair \in Pairs /\ a.hash \in Hashes /\ a \in AskRecords
    BY DEF AskRecords
  <2> QED
    BY <2>1 DEF DataOf, Data, FspIds
<1>3. ask'[r] = a /\ \A q \in Requests \ {r} : ask'[q] = ask[q]
  BY <1>1 DEF BaseInv, TypeOK
<1>4. DataFor(r)' = d
  BY <1>3 DEF DataFor, DataOf
<1>5. \A q \in Requests \ {r} : DataFor(q)' = DataFor(q)
  BY <1>3 DEF DataFor, DataOf
<1>6. AskedSet' = AskedSet \cup {[fsp |-> a.pair.fsp, data |-> d]}
  <2> HIDE DEF d
  <2> QED
    BY <1>1, <1>2, <1>3, <1>4, <1>5 DEF AskedSet
<1>7. UNCHANGED <<Consents, Records>>
  BY DEF Create, Consents, Records
<1>8. Credit!Ask(a.pair.fsp, d)
  BY <1>6, <1>7 DEF Credit!Ask
<1> QED
  BY <1>2, <1>8 DEF Credit!CreditNext

(* A citizen's acceptance.                                                 *)
LEMMA AcceptConsents ==
  ASSUME CreditInv, NEW m \in msgs, TroAccept(m)
  PROVE  Credit!CreditNext
<1>1. StartedFor(m.peer, m.data) /\ m.data \in Data
  BY DEF TroAccept, CreditInv, MessageInv, BaseInv, TypeOK, Messages
<1>2. PICK p \in paired : p.tro = m.peer /\ Asked(p.fsp, m.data)
  BY <1>1 DEF StartedFor
<1>3. p \in Pairs /\ [fsp |-> p.fsp, data |-> m.data] \in AskedSet
  BY <1>2, AskedIsInSet DEF CreditInv, BaseInv, TypeOK
<1>4. Consents' = Consents \cup {[tro |-> m.peer, data |-> m.data]}
  <2> DEFINE new == Accepted(m.peer, m.data)
  <2>1. /\ msgs' = msgs \cup {new}
        /\ new.state = "accepted" /\ new.peer = m.peer /\ new.data = m.data
    BY DEF TroAccept, Accepted
  <2> HIDE DEF new
  <2> QED
    BY <2>1, ConsentsAdd
<1>5. UNCHANGED <<AskedSet, Records>>
  BY AskedSetKept DEF TroAccept, requests, Records
<1>6. Credit!Consent(p.tro, m.data)
  BY <1>2, <1>3, <1>4, <1>5 DEF Credit!Consent
<1> QED
  BY <1>1, <1>3, <1>6 DEF Credit!CreditNext

(* The bank's record, under an id of its own or not.                       *)
LEMMA SaveShareable ==
  ASSUME NEW m \in msgs, FspSave(m), CanBeShared(m.data.hash)
  PROVE  UNCHANGED Credit!creditVars
<1>1. UNCHANGED <<AskedSet, Consents>>
  BY AskedSetKept DEF FspSave, requests, Consents
<1>2. Records' = Records
  <2> DEFINE t == [fsp |-> m.peer, id |-> TxId[m.data.hash],
                   fspId |-> m.data.fspId, hash |-> m.data.hash]
  <2>1. saved' = saved \cup {t} /\ t.hash = m.data.hash
    BY DEF FspSave
  <2> HIDE DEF t
  <2> QED
    BY <2>1, RecordsAdd
<1> QED
  BY <1>1, <1>2 DEF Credit!creditVars

LEMMA SaveRecords ==
  ASSUME CreditInv, ConsentInv, NEW m \in msgs, FspSave(m), ~CanBeShared(m.data.hash)
  PROVE  Credit!CreditNext
<1> DEFINE d == m.data
<1>1. d \in Data /\ d = [fspId |-> d.fspId, hash |-> d.hash] /\ ConsentedTo(m.peer, d)
  BY SharedOnlyIfShareable DEF FspSave, ConsentInv, CreditInv, BaseInv, TypeOK, Messages, Data
<1>2. PICK q \in paired : q.fsp = m.peer /\ Accepted(q.tro, d) \in msgs
  BY <1>1 DEF ConsentedTo
<1>3. q \in Pairs /\ [fsp |-> q.fsp, data |-> d] \in AskedSet
  BY <1>1, <1>2, AskedIsInSet DEF ConsentedTo, CreditInv, BaseInv, TypeOK
<1>4. [tro |-> q.tro, data |-> d] \in Consents
  BY <1>2 DEF Consents, Accepted
<1>5. Records' = Records \cup {[fsp |-> q.fsp, data |-> d]}
  <2> DEFINE t == [fsp |-> m.peer, id |-> TxId[d.hash], fspId |-> d.fspId, hash |-> d.hash]
  <2>1. saved' = saved \cup {t} /\ t.fsp = m.peer /\ t.fspId = d.fspId /\ t.hash = d.hash
    BY DEF FspSave
  <2> HIDE DEF t
  <2> QED
    BY <1>1, <1>2, <2>1, RecordsAdd
<1>6. UNCHANGED <<AskedSet, Consents>>
  BY AskedSetKept DEF FspSave, requests, Consents
<1>7. Credit!Record(q, d)
  BY <1>3, <1>4, <1>5, <1>6 DEF Credit!Record
<1> QED
  BY <1>1, <1>3, <1>7 DEF Credit!CreditNext

LEMMA CreditStep ==
  ASSUME CreditInv, ConsentInv, [Next]_vars
  PROVE  [Credit!CreditNext]_(Credit!creditVars)
<1>1. CASE \E r \in Requests, a \in Asks : Create(r, a)
  BY <1>1, CreateAsks DEF CreditInv
<1>2. CASE \E m \in msgs : TroAccept(m)
  BY <1>2, AcceptConsents
<1>3. CASE \E m \in msgs : FspSave(m)
  BY <1>3, SaveRecords, SaveShareable
<1>4. CASE /\ ask' = ask
           /\ saved' = saved
           /\ ~ \E m \in msgs : TroAccept(m)
  <2>1. UNCHANGED <<AskedSet, Records>>
    BY <1>4, AskedSetKept DEF Records, CanBeShared
  <2>2. \A m \in msgs : m \in msgs'
    BY BaseStep DEF CreditInv, Growth
  <2>3. ASSUME NEW m \in msgs', m \notin msgs PROVE m.state # "accepted"
    BY <1>4, <2>3, MessageSources
       DEF StartTro, StartFsp, CompleteTro, CompleteFsp, Started, CompletedTx
  <2>4. UNCHANGED Consents
    BY <2>2, <2>3, ConsentsKept
  <2> QED
    BY <2>1, <2>4 DEF Credit!creditVars
<1> QED
  BY <1>1, <1>2, <1>3, <1>4, AskSources, SavedSources

(* The network keeps the promise of CreditLedger: Create is Ask, TroAccept *)
(* is Consent, FspSave is Record when its id cannot be another bank's, and *)
(* every other step stutters.                                              *)
THEOREM Refinement == Spec => ImplementsCredit
<1>1. Init => Credit!CreditInit /\ ConsentInv
  BY DEF Init, Credit!CreditInit, AskedSet, Consents, Records, ConsentInv
<1>2. CreditInv /\ ConsentInv /\ [Next]_vars => ConsentInv'
  BY ConsentStep
<1>3. CreditInv /\ ConsentInv /\ [Next]_vars => [Credit!CreditNext]_(Credit!creditVars)
  BY CreditStep
<1> QED
  BY <1>1, <1>2, <1>3, CreditAlways, PTL DEF Spec, ImplementsCredit, Credit!CreditSpec
-----------------------------------------------------------------------------
(* What a completed message has behind it, whatever ids collide.           *)

CompletedFor(t, d) ==
  \E p, q \in paired :
    /\ p.tro = t /\ q.fsp = p.fsp
    /\ Asked(p.fsp, d)
    /\ Accepted(q.tro, d) \in msgs
    /\ [to |-> q.tro, id |-> TxId[d.hash]] \in txCreds

LEMMA CompletedForGrows ==
  ASSUME Growth, NEW t, NEW d, CompletedFor(t, d)
  PROVE  CompletedFor(t, d)'
<1>1. PICK p \in paired, q \in paired :
        /\ p.tro = t /\ q.fsp = p.fsp
        /\ Asked(p.fsp, d)
        /\ Accepted(q.tro, d) \in msgs
        /\ [to |-> q.tro, id |-> TxId[d.hash]] \in txCreds
  BY DEF CompletedFor
<1>2. /\ Asked(p.fsp, d)'
      /\ p \in paired' /\ q \in paired'
      /\ Accepted(q.tro, d) \in msgs'
      /\ [to |-> q.tro, id |-> TxId[d.hash]] \in txCreds'
  BY <1>1, AskedGrows DEF Growth
<1> QED
  BY <1>1, <1>2 DEF CompletedFor, Accepted

LEMMA CompletedTroStep ==
  ASSUME CreditInv, CompletedWasAccepted, [Next]_vars
  PROVE  CompletedWasAccepted'
<1> USE TransactionConstants
<1>1. Growth
  BY BaseStep DEF CreditInv
<1>2. \A m \in msgs : m.state = "completed" /\ m.peer \in Tros =>
        SharedId(TxId[m.data.hash])' \/ CompletedFor(m.peer, m.data)'
  BY <1>1, SharedGrows, CompletedForGrows DEF CompletedWasAccepted, CompletedFor
<1>3. ASSUME \A m \in msgs' : m \notin msgs /\ m.state = "completed" /\ m.peer \in Tros =>
               SharedId(TxId[m.data.hash])' \/ CompletedFor(m.peer, m.data)'
      PROVE  CompletedWasAccepted'
  BY <1>2, <1>3 DEF CompletedWasAccepted, CompletedFor
<1>4. CASE msgs' = msgs
  BY <1>3, <1>4
<1>5. CASE \/ \E r \in Requests : StartTro(r) \/ StartFsp(r)
           \/ \E n \in msgs : TroAccept(n)
  <2>1. ASSUME NEW m \in msgs', m \notin msgs PROVE m.state # "completed"
    BY <1>5, <2>1 DEF StartTro, StartFsp, TroAccept, Started, Accepted
  <2> QED
    BY <1>3, <2>1
<1>6. ASSUME NEW s \in Slots, CompleteFsp(s) PROVE CompletedWasAccepted'
  <2>1. hconn[s].fsp \in Fsps
    BY <1>6, Matched DEF CompleteFsp, Fsps
  <2>2. ASSUME NEW m \in msgs', m \notin msgs PROVE m.peer \notin Tros
    BY <1>6, <2>1, <2>2 DEF CompleteFsp, CompletedTx
  <2> QED
    BY <1>3, <2>2
<1>7. ASSUME NEW s \in Slots, CompleteTro(s) PROVE CompletedWasAccepted'
  <2>1. /\ Accepted(s.from, s.data) \in msgs
        /\ StartedFor(s.from, s.data)
        /\ hconn[s] \in paired /\ hconn[s] \in Pairs
    BY <1>7, Matched DEF CompleteTro
  <2>2. PICK q \in paired : q.tro = s.from /\ q.fspId = s.data.fspId /\ Asked(q.fsp, s.data)
    BY <2>1 DEF StartedFor
  <2>3. [to |-> s.from, id |-> TxId[s.data.hash]] \in txCreds
    BY <2>1 DEF StartedFor
  <2>4. SharedId(TxId[s.data.hash]) \/ hconn[s].fspId = s.data.fspId
    BY <1>7, MatchedUnlessShared DEF CompleteTro
  <2>5. q \in Pairs
    BY DEF CreditInv, BaseInv, TypeOK
  <2>6. ASSUME hconn[s].fspId = s.data.fspId PROVE CompletedFor(hconn[s].tro, s.data)
    <3>1. q.fsp = hconn[s].fsp
      BY <2>1, <2>2, <2>5, <2>6 DEF TransactionConstants
    <3> QED
      BY <2>1, <2>2, <2>3, <3>1 DEF CompletedFor
  <2>7. ASSUME NEW m \in msgs', m \notin msgs PROVE m.peer = hconn[s].tro /\ m.data = s.data
    BY <1>7, <2>7 DEF CompleteTro, CompletedTx
  <2> QED
    BY <1>1, <1>3, <2>4, <2>6, <2>7, SharedGrows, CompletedForGrows
<1> QED
  BY <1>4, <1>5, <1>6, <1>7, MessageSources

(* A citizen told 'completed' is one of the bank that asked, and a citizen *)
(* of that bank accepted and holds the credential, unless two banks share  *)
(* the transaction id (TransactionMessageHandler.respond).                 *)
THEOREM CompletionFollowsAcceptance == Spec => []CompletedWasAccepted
<1>1. Init => CompletedWasAccepted
  BY DEF Init, CompletedWasAccepted
<1>2. CreditInv /\ CompletedWasAccepted /\ [Next]_vars => CompletedWasAccepted'
  BY CompletedTroStep
<1> QED
  BY <1>1, <1>2, CreditAlways, PTL DEF Spec

(* What is behind a transaction a bank is told of.                         *)
RecordFor(f, d) ==
  /\ \E r \in Requests : ask[r] # Null /\ ask[r].pair.fsp = f /\ Tx(r) = TxId[d.hash]
  /\ \E p \in paired : p.fspId = d.fspId /\ Asked(p.fsp, d) /\ Accepted(p.tro, d) \in msgs

ToldInv ==
  \A m \in msgs : m.state = "completed" /\ m.peer \in Fsps => RecordFor(m.peer, m.data)

LEMMA RecordForGrows ==
  ASSUME Growth, NEW f, NEW d, RecordFor(f, d)
  PROVE  RecordFor(f, d)'
<1>1. \E r \in Requests : ask'[r] # Null /\ ask'[r].pair.fsp = f /\ Tx(r)' = TxId[d.hash]
  BY DEF RecordFor, Growth, Tx
<1>2. PICK p \in paired : p.fspId = d.fspId /\ Asked(p.fsp, d) /\ Accepted(p.tro, d) \in msgs
  BY DEF RecordFor
<1>3. p \in paired' /\ Asked(p.fsp, d)' /\ Accepted(p.tro, d) \in msgs'
  BY <1>2, AskedGrows DEF Growth
<1> QED
  BY <1>1, <1>2, <1>3 DEF RecordFor, Accepted

LEMMA ToldStep ==
  ASSUME CreditInv, ToldInv, [Next]_vars
  PROVE  ToldInv'
<1> USE TransactionConstants
<1>1. Growth
  BY BaseStep DEF CreditInv
<1>2. \A m \in msgs : m.state = "completed" /\ m.peer \in Fsps => RecordFor(m.peer, m.data)'
  BY <1>1, RecordForGrows DEF ToldInv
<1>3. CASE msgs' = msgs
  BY <1>2, <1>3 DEF ToldInv
<1>4. CASE \/ \E r \in Requests : StartTro(r) \/ StartFsp(r)
           \/ \E n \in msgs : TroAccept(n)
  <2>1. ASSUME NEW m \in msgs', m \notin msgs PROVE m.state # "completed"
    BY <1>4, <2>1 DEF StartTro, StartFsp, TroAccept, Started, Accepted
  <2> QED
    BY <1>2, <2>1 DEF ToldInv
<1>5. ASSUME NEW s \in Slots, CompleteTro(s) PROVE ToldInv'
  <2>1. hconn[s].tro \in Tros
    BY <1>5, Matched DEF CompleteTro, Tros
  <2>2. ASSUME NEW m \in msgs', m \notin msgs PROVE m.peer \notin Fsps
    BY <1>5, <2>1, <2>2 DEF CompleteTro, CompletedTx
  <2> QED
    BY <1>2, <2>2 DEF ToldInv
<1>6. ASSUME NEW s \in Slots, CompleteFsp(s) PROVE ToldInv'
  <2>1. /\ Accepted(s.from, s.data) \in msgs
        /\ StartedFor(s.from, s.data)
        /\ \E b \in Requests :
             ask[b] # Null /\ ask[b].pair.fsp = hconn[s].fsp /\ Tx(b) = TxId[s.data.hash]
    BY <1>6, Matched DEF CompleteFsp
  <2>2. PICK p \in paired : p.tro = s.from /\ p.fspId = s.data.fspId /\ Asked(p.fsp, s.data)
    BY <2>1 DEF StartedFor
  <2>3. RecordFor(hconn[s].fsp, s.data)
    BY <2>1, <2>2 DEF RecordFor
  <2>4. ASSUME NEW m \in msgs', m \notin msgs PROVE m.peer = hconn[s].fsp /\ m.data = s.data
    BY <1>6, <2>4 DEF CompleteFsp, CompletedTx
  <2> QED
    BY <1>1, <1>2, <2>3, <2>4, RecordForGrows DEF ToldInv
<1> QED
  BY <1>3, <1>4, <1>5, <1>6, MessageSources

LEMMA MixedUpStep ==
  ASSUME CreditInv, ToldInv, MixedUpByCollisionOnly, [Next]_vars
  PROVE  MixedUpByCollisionOnly'
<1>1. Growth
  BY BaseStep DEF CreditInv
<1> DEFINE d(t) == [fspId |-> t.fspId, hash |-> t.hash]
           OK(t) == /\ \E r \in Requests : ask[r] # Null /\ ask[r].pair.fsp = t.fsp /\ Tx(r) = t.id
                    /\ \E p \in paired :
                         p.fspId = t.fspId /\ Asked(p.fsp, d(t)) /\ Accepted(p.tro, d(t)) \in msgs
<1>2. ASSUME NEW t \in saved PROVE OK(t)'
  <2>1. \E r \in Requests : ask'[r] # Null /\ ask'[r].pair.fsp = t.fsp /\ Tx(r)' = t.id
    BY <1>1 DEF MixedUpByCollisionOnly, Growth, Tx
  <2>2. PICK p \in paired :
          p.fspId = t.fspId /\ Asked(p.fsp, d(t)) /\ Accepted(p.tro, d(t)) \in msgs
    BY DEF MixedUpByCollisionOnly
  <2>3. p \in paired' /\ Asked(p.fsp, d(t))' /\ Accepted(p.tro, d(t)) \in msgs'
    BY <1>1, <2>2, AskedGrows DEF Growth
  <2> QED
    BY <2>1, <2>2, <2>3 DEF Accepted
<1>3. CASE saved' = saved
  BY <1>2, <1>3 DEF MixedUpByCollisionOnly
<1>4. ASSUME NEW m \in msgs, FspSave(m) PROVE MixedUpByCollisionOnly'
  <2>1. RecordFor(m.peer, m.data)'
    BY <1>1, <1>4, RecordForGrows DEF FspSave, ToldInv
  <2>2. m.data = [fspId |-> m.data.fspId, hash |-> m.data.hash]
    BY DEF CreditInv, BaseInv, TypeOK, Messages, Data
  <2>3. ASSUME NEW t \in saved', t \notin saved PROVE OK(t)'
    <3>1. /\ t.fsp = m.peer /\ t.id = TxId[m.data.hash]
          /\ t.fspId = m.data.fspId /\ d(t) = m.data
      BY <1>4, <2>2, <2>3 DEF FspSave
    <3>2. \E r \in Requests : ask'[r] # Null /\ ask'[r].pair.fsp = t.fsp /\ Tx(r)' = t.id
      BY <2>1, <3>1 DEF RecordFor
    <3>3. PICK p \in paired' :
            p.fspId = m.data.fspId /\ Asked(p.fsp, m.data)' /\ Accepted(p.tro, m.data) \in msgs'
      BY <2>1 DEF RecordFor, Accepted
    <3> QED
      BY <3>1, <3>2, <3>3 DEF Accepted
  <2> QED
    BY <1>2, <2>3 DEF MixedUpByCollisionOnly
<1> QED
  BY <1>3, <1>4, SavedSources

(* Whatever ids collide, a bank has a record only under an id of its own,  *)
(* and what is recorded was asked for by the bank it names and accepted by *)
(* a citizen of that bank (TransactionMessageHandler.respond).             *)
THEOREM CollisionsMixUpOnly == Spec => []MixedUpByCollisionOnly
<1>1. Init => ToldInv /\ MixedUpByCollisionOnly
  BY DEF Init, ToldInv, MixedUpByCollisionOnly
<1>2. CreditInv /\ ToldInv /\ MixedUpByCollisionOnly /\ [Next]_vars
        => (ToldInv /\ MixedUpByCollisionOnly)'
  BY ToldStep, MixedUpStep
<1> QED
  BY <1>1, <1>2, CreditAlways, PTL DEF Spec

-----------------------------------------------------------------------------
(* Who gets a transaction credential.                                      *)

LEMMA TxCredSources ==
  ASSUME [Next]_vars
  PROVE  txCreds' = txCreds \/ \E r \in Requests : Issue(r)
<1>1. ASSUME NEW r \in Requests, CreateTransaction(r), ~Issue(r) PROVE txCreds' = txCreds
  BY <1>1 DEF CreateTransaction, FindConn, ProveFsp, ProveTro, ProveCredential, SavePending,
              StartTro, StartFsp
<1>2. ASSUME NEW s \in Slots, Deliver(s) \/ Respond(s) \/ HandlerFault(s) PROVE txCreds' = txCreds
  BY <1>2 DEF Deliver, Respond, FindPending, FindRec, CompleteTro, CompleteFsp, HandlerFault
<1>3. ASSUME NEW r \in Requests, NEW a \in Asks, Create(r, a) PROVE txCreds' = txCreds
  BY <1>3 DEF Create
<1>4. ASSUME NEW r \in Requests, Fault(r) PROVE txCreds' = txCreds
  BY <1>4 DEF Fault
<1>5. ASSUME NEW m \in msgs, TroAccept(m) \/ FspSave(m) PROVE txCreds' = txCreds
  BY <1>5 DEF TroAccept, FspSave
<1>6. CASE \/ \E p \in Pairs \ paired : SavePair(p)
           \/ \E c \in holds : Revoke(c)
           \/ Crash
           \/ UNCHANGED vars
  BY <1>6 DEF SavePair, Revoke, Crash, vars
<1> QED
  BY <1>1, <1>2, <1>3, <1>4, <1>5, <1>6 DEF Next

LEMMA PartnerStep ==
  ASSUME CreditInv, CredentialGoesToPartner, [Next]_vars
  PROVE  CredentialGoesToPartner'
<1> USE TransactionConstants
<1>1. Growth
  BY BaseStep DEF CreditInv
<1>2. \A c \in txCreds : \E r \in Requests, p \in paired' :
        ask'[r] # Null /\ p.fsp = ask'[r].pair.fsp /\ c = [to |-> p.tro, id |-> Tx(r)']
  BY <1>1 DEF CredentialGoesToPartner, Growth, Tx
<1>3. CASE txCreds' = txCreds
  BY <1>2, <1>3 DEF CredentialGoesToPartner
<1>4. ASSUME NEW r \in Requests, Issue(r) PROVE CredentialGoesToPartner'
  <2>1. /\ ask[r] \in AskRecords /\ ask'[r] = ask[r]
        /\ conn[r] \in paired' /\ conn[r] \in Pairs /\ conn[r].fspId = ask[r].pair.fspId
    BY <1>1, <1>4 DEF Issue, Bound, CreditInv, BaseInv, TypeOK, RequestInv, RequestOK, FoundByFspId, DataFor, DataOf, Growth
  <2>2. conn[r].fsp = ask[r].pair.fsp /\ ask[r] # Null
    BY <2>1 DEF AskRecords
  <2>3. Tx(r)' = Tx(r) /\ txCreds' = txCreds \cup {[to |-> conn[r].tro, id |-> Tx(r)]}
    BY <1>4, <2>1 DEF Issue, Tx
  <2> QED
    BY <1>2, <2>1, <2>2, <2>3 DEF CredentialGoesToPartner
<1> QED
  BY <1>3, <1>4, TxCredSources

(* A transaction credential never leaves the circle of the bank that asked *)
(* for it (createTransaction, steps 1 and 4), however many citizens it has.*)
THEOREM CredentialsReachPartners == Spec => []CredentialGoesToPartner
<1>1. Init => CredentialGoesToPartner
  BY DEF Init, CredentialGoesToPartner
<1>2. CreditInv /\ CredentialGoesToPartner /\ [Next]_vars => CredentialGoesToPartner'
  BY PartnerStep
<1> QED
  BY <1>1, <1>2, CreditAlways, PTL DEF Spec

-----------------------------------------------------------------------------
(* Revocation.                                                             *)

Proved == {"savePending", "issue", "startTro", "startFsp"}

(* What is known of request r once c's grant was revoked before r asked    *)
(* for it.                                                                 *)
Blocked(r, c) ==
  /\ c \notin holds
  /\ pc[r] = "proveTro" => conn[r].fsp # c
  /\ pc[r] \in Proved => c \notin {conn[r].fsp, conn[r].tro}

Kept(r) == pc'[r] = pc[r] /\ (InFlight(r) => conn'[r] = conn[r])

LEMMA HoldsShrinks ==
  ASSUME [Next]_vars
  PROVE  \A c \in holds' : c \in holds
<1>1. ASSUME NEW r \in Requests, CreateTransaction(r) PROVE holds' = holds
  BY <1>1 DEF CreateTransaction, FindConn, ProveFsp, ProveTro, ProveCredential, SavePending, Issue,
              StartTro, StartFsp, world
<1>2. ASSUME NEW s \in Slots, Deliver(s) \/ Respond(s) \/ HandlerFault(s) PROVE holds' = holds
  BY <1>2 DEF Deliver, Respond, FindPending, FindRec, CompleteTro, CompleteFsp, HandlerFault, world
<1>3. ASSUME NEW r \in Requests, NEW a \in Asks, Create(r, a) PROVE holds' = holds
  BY <1>3 DEF Create, world
<1>4. ASSUME NEW r \in Requests, Fault(r) PROVE holds' = holds
  BY <1>4 DEF Fault, world
<1>5. ASSUME NEW m \in msgs, TroAccept(m) \/ FspSave(m) PROVE holds' = holds
  BY <1>5 DEF TroAccept, FspSave, world
<1>6. CASE \/ \E p \in Pairs \ paired : SavePair(p)
           \/ \E c \in holds : Revoke(c)
           \/ Crash
           \/ UNCHANGED vars
  BY <1>6 DEF SavePair, Revoke, Crash, vars, world
<1> QED
  BY <1>1, <1>2, <1>3, <1>4, <1>5, <1>6 DEF Next

(* A step leaves a request alone, ends it, asks it, or is a step of its    *)
(* own.                                                                    *)
LEMMA RequestSources ==
  ASSUME BaseInv, NEW r \in Requests, [Next]_vars
  PROVE  \/ Kept(r)
         \/ pc'[r] = "done"
         \/ \E a \in Asks : Create(r, a)
         \/ CreateTransaction(r) /\ ~Finish(r, "error")
<1>1. ASSUME NEW q \in Requests, q # r, NEW a, Finish(q, a) PROVE Kept(r)
  BY <1>1 DEF Finish, Goto, Kept, BaseInv, TypeOK
<1>2. ASSUME NEW q \in Requests, q # r, CreateTransaction(q) PROVE Kept(r)
  <2>1. CASE FindConn(q)
    BY <1>1, <1>2, <2>1 DEF FindConn, Goto, Kept, BaseInv, TypeOK
  <2>2. CASE ProveFsp(q) \/ ProveTro(q)
    BY <1>1, <1>2, <2>2 DEF ProveFsp, ProveTro, ProveCredential, Goto, Kept, BaseInv, TypeOK
  <2>3. CASE SavePending(q) \/ Issue(q) \/ StartTro(q)
    BY <1>2, <2>3 DEF SavePending, Issue, StartTro, Goto, Kept, BaseInv, TypeOK
  <2>4. CASE StartFsp(q)
    BY <1>1, <1>2, <2>4 DEF StartFsp
  <2> QED
    BY <1>2, <2>1, <2>2, <2>3, <2>4 DEF CreateTransaction
<1>3. ASSUME Finish(r, "error") PROVE pc'[r] = "done"
  BY <1>3 DEF Finish, Goto, BaseInv, TypeOK
<1>4. ASSUME NEW q \in Requests, NEW a \in Asks, Create(q, a), q # r PROVE Kept(r)
  BY <1>4 DEF Create, Goto, Kept, BaseInv, TypeOK
<1>5. ASSUME NEW q \in Requests, Fault(q) PROVE Kept(r) \/ pc'[r] = "done"
  BY <1>1, <1>3, <1>5 DEF Fault
<1>6. ASSUME NEW s \in Slots, Deliver(s) \/ Respond(s) \/ HandlerFault(s) PROVE Kept(r)
  BY <1>6 DEF Deliver, Respond, FindPending, FindRec, CompleteTro, CompleteFsp, HandlerFault,
              requests, Kept
<1>7. ASSUME NEW m \in msgs, TroAccept(m) \/ FspSave(m) PROVE Kept(r)
  BY <1>7 DEF TroAccept, FspSave, requests, Kept
<1>8. CASE Crash
  BY <1>8 DEF Crash, Kept, BaseInv, TypeOK
<1>9. CASE \/ \E p \in Pairs \ paired : SavePair(p)
           \/ \E c \in holds : Revoke(c)
           \/ UNCHANGED vars
  BY <1>9 DEF SavePair, Revoke, vars, requests, Kept
<1> QED
  BY <1>2, <1>3, <1>4, <1>5, <1>6, <1>7, <1>8, <1>9 DEF Next

LEMMA BlockedStep ==
  ASSUME BaseInv, NEW r \in Requests, NEW c, Blocked(r, c), [Next]_vars
  PROVE  Blocked(r, c)'
<1>1. c \notin holds'
  BY HoldsShrinks DEF Blocked
<1>2. CASE Kept(r)
  BY <1>1, <1>2 DEF Kept, Blocked, InFlight, Proved
<1>3. CASE pc'[r] = "done"
  BY <1>1, <1>3 DEF Blocked, Proved
<1>4. ASSUME NEW a \in Asks, Create(r, a) PROVE Blocked(r, c)'
  BY <1>1, <1>4 DEF Create, Goto, Blocked, Proved, BaseInv, TypeOK
<1>5. CASE CreateTransaction(r) /\ ~Finish(r, "error")
  <2>1. CASE FindConn(r)
    BY <1>1, <1>5, <2>1 DEF FindConn, Goto, Blocked, Proved, BaseInv, TypeOK
  <2>2. CASE ProveFsp(r)
    BY <1>1, <1>5, <2>2 DEF ProveFsp, ProveCredential, Goto, Blocked, Proved, BaseInv, TypeOK
  <2>3. CASE ProveTro(r)
    BY <1>1, <1>5, <2>3 DEF ProveTro, ProveCredential, Goto, Blocked, Proved, BaseInv, TypeOK
  <2>4. CASE SavePending(r) \/ Issue(r) \/ StartTro(r)
    BY <1>1, <2>4 DEF SavePending, Issue, StartTro, Goto, Blocked, Proved, BaseInv, TypeOK
  <2>5. CASE StartFsp(r)
    BY <1>3, <2>5 DEF StartFsp, Finish, Goto, BaseInv, TypeOK
  <2> QED
    BY <1>5, <2>1, <2>2, <2>3, <2>4, <2>5 DEF CreateTransaction
<1> QED
  BY <1>2, <1>3, <1>4, <1>5, RequestSources

(* Once a grant is revoked, no request that has yet to ask for it issues a *)
(* transaction credential on it (createTransaction, steps 2 and 3).        *)
THEOREM RevocationStops == Spec => RevokedStopsTransactions
<1>1. ASSUME NEW r \in Requests, NEW c \in Fsps \cup Tros
      PROVE  Spec => [](c \notin holds /\ ProofAhead(r, c) =>
                          [](pc[r] \in {"savePending", "issue", "startTro", "startFsp"} =>
                               c \notin {conn[r].fsp, conn[r].tro}))
  <2>1. BaseInv /\ c \notin holds /\ ProofAhead(r, c) => Blocked(r, c)
    BY InHand, TransactionConstants DEF ProofAhead, Blocked, Proved, Bound, Fsps, Tros
  <2>2. BaseInv /\ Blocked(r, c) /\ [Next]_vars => Blocked(r, c)'
    BY BlockedStep
  <2>3. Blocked(r, c) => (pc[r] \in {"savePending", "issue", "startTro", "startFsp"} =>
                            c \notin {conn[r].fsp, conn[r].tro})
    BY DEF Blocked, Proved
  <2> QED
    BY <2>1, <2>2, <2>3, BaseAlways, PTL DEF Spec
<1> QED
  BY <1>1 DEF RevokedStopsTransactions
=============================================================================
