-------------------------- MODULE TransactionReports --------------------------
(***************************************************************************)
(* A transaction report from the bank's request to its copy:               *)
(*                                                                         *)
(*   FSP controller  -- POST report -->  TDC createTransactionReport       *)
(*   TDC  -- 'started' -->  TRO, then FSP                                  *)
(*   TRO  -- 'completed' and its history -->  TDC ReportMessageHandler     *)
(*   TDC  -- 'completed', history, verification items -->  FSP, which      *)
(*           saves the report until its interface asks for it              *)
(*                                                                         *)
(* Basic messages may be lost, delayed, reordered and delivered more than  *)
(* once, as in CreditTransactions.  A history is the number of its         *)
(* transactions, for they are only appended to; transaction k of t has     *)
(* order k and hash <<t, k>>.  A report id is a hash of the bank's id and  *)
(* the clock in milliseconds and is modelled by these two.                 *)
(***************************************************************************)
EXTENDS Naturals, Sequences

CONSTANTS
  Pairs,         \* what fsp_tro_connection may hold: [fsp, tro, fspId, troId]
  Requests,      \* POST report requests, retries included, each used once
  MaxNow,        \* bound: milliseconds the clock runs for
  MaxLength,     \* bound: transactions a citizen has
  MaxDeliveries, \* bound: how often one completed message reaches the TDC
  Faulty,        \* requests that may fail
  MayFault,      \* whether the handler of a delivery may fail
  MayCrash,      \* whether the TDC may stop and restart
  MayRevoke,     \* whether a grant credential may be revoked
  Null

Fsps      == {p.fsp : p \in Pairs}
Tros      == {p.tro : p \in Pairs}
FspIds    == {p.fspId : p \in Pairs}
Lengths   == 0 .. MaxLength
Clock     == 1 .. MaxNow

(* generateTransactionId(fspTdcId + Date.now()).                           *)
ReportIds == [fspId : FspIds, at : Clock]

(* Mutant: the clock is not part of the id.                                *)
MutNoClock(p, a) == [fspId |-> p.fspId, at |-> 1]

IdOf(p, a) == [fspId |-> p.fspId, at |-> a]

AskRecords    == [pair : Pairs, seen : Lengths]
Labels        == {"idle", "findConn", "proveFsp", "proveTro", "startTro", "startFsp", "done",
                  "failed"}
HandlerLabels == {"idle", "findRec", "send", "done", "cut"}

(* The webhook calls that bring the citizens' completed messages.          *)
Slots == [tro : Tros, id : ReportIds, n : Lengths, k : 1 .. MaxDeliveries]

ASSUME ReportConstants ==
  /\ \A p, q \in Pairs : p.fspId = q.fspId <=> p.fsp = q.fsp
  /\ \A p, q \in Pairs : p.troId = q.troId <=> p.tro = q.tro
  /\ Fsps \cap Tros = {}
  /\ Faulty \subseteq Requests
  /\ {MaxNow, MaxLength, MaxDeliveries} \subseteq Nat /\ 1 \in Clock
  /\ {MayFault, MayCrash, MayRevoke} \subseteq BOOLEAN
  /\ Null \notin Pairs /\ Null \notin ReportIds /\ Null \notin AskRecords

VARIABLES
  paired,     \* the fsp_tro_connection rows, a subset of Pairs
  holds,      \* connections whose grant credential is not revoked
  now,        \* Date.now()
  history,    \* per citizen, how many transactions it has accepted
  before,     \* the same when this millisecond began
  started,    \* 'started' messages sent, [to, id]
  disclosed,  \* the citizens' 'completed' messages, [tro, id, n]
  reports,    \* the TDC's 'completed' messages, [fsp, tro, id, n, items]
  saved,      \* the FSPs' requested_reports tables, rows as in reports
  pc, ask, conn, reportId, \* per request: step, [pair, seen], rec, id made
  hpc, hconn              \* per delivery: step, rec

world    == <<paired, holds, now, history, before>>
messages == <<started, disclosed, reports>>
requests == <<pc, ask, conn, reportId>>
handlers == <<hpc, hconn>>
vars == <<paired, holds, now, history, before, started, disclosed, reports, saved,
          pc, ask, conn, reportId, hpc, hconn>>

Init ==
  /\ paired = {}
  /\ holds = Fsps \cup Tros
  /\ now = 1
  /\ history = [t \in Tros |-> 0]
  /\ before = history
  /\ started = {} /\ disclosed = {} /\ reports = {}
  /\ saved = {}
  /\ pc = [r \in Requests |-> "idle"]
  /\ ask = [r \in Requests |-> Null]
  /\ conn = [r \in Requests |-> Null]
  /\ reportId = [r \in Requests |-> Null]
  /\ hpc = [s \in Slots |-> "idle"]
  /\ hconn = [s \in Slots |-> Null]

InFlight(r) == pc[r] \notin {"idle", "done", "failed"}
Handling(s) == hpc[s] \in {"findRec", "send"}

-----------------------------------------------------------------------------
(* createTransactionReport                                                 *)

Goto(r, l) == pc' = [pc EXCEPT ![r] = l]

(* The request ends with an exception.                                     *)
Fail(r) ==
  /\ Goto(r, "failed")
  /\ conn' = [conn EXCEPT ![r] = Null]
  /\ UNCHANGED reportId

(* Mutant: the pair is looked up by the bank's id alone.                   *)
MutFoundByFspOnly(p) == {q \in paired : q.fspId = p.fspId}

(* getFspTroConnection.                                                    *)
FoundByIds(p) == {q \in paired : q.fspId = p.fspId /\ q.troId = p.troId}

(* The bank's POST, passed on by its controller to the TDC's.              *)
Create(r, p) ==
  /\ pc[r] = "idle"
  /\ ask' = [ask EXCEPT ![r] = [pair |-> p, seen |-> before[p.tro]]]
  /\ Goto(r, "findConn")
  /\ UNCHANGED <<world, messages, saved, conn, reportId, handlers>>

(* 0 - the record of both ids, or 'record not found'.                      *)
FindConn(r) ==
  /\ pc[r] = "findConn"
  /\ \/ /\ \E p \in FoundByIds(ask[r].pair) : conn' = [conn EXCEPT ![r] = p]
        /\ Goto(r, "proveFsp")
        /\ UNCHANGED reportId
     \/ /\ FoundByIds(ask[r].pair) = {}
        /\ Fail(r)
  /\ UNCHANGED <<world, messages, saved, ask, handlers>>

(* 1, 2 - each party in turn proves its grant credential.                  *)
ProveCredential(r, c, next) ==
  /\ \/ c \in holds /\ Goto(r, next) /\ UNCHANGED <<conn, reportId>>
     \/ c \notin holds /\ Fail(r)
  /\ UNCHANGED <<world, messages, saved, ask, handlers>>

ProveFsp(r) == pc[r] = "proveFsp" /\ ProveCredential(r, conn[r].fsp, "proveTro")

(* Mutant: the bank's credential is proved twice.                          *)
MutProveFspTwice(r) == pc[r] = "proveTro" /\ ProveCredential(r, conn[r].fsp, "startTro")

ProveTro(r) == pc[r] = "proveTro" /\ ProveCredential(r, conn[r].tro, "startTro")

NewId(r) == IdOf(ask[r].pair, now)

(* Mutant: the citizen's message goes to the bank.                         *)
MutStartFspTwice(r) ==
  /\ pc[r] = "startTro"
  /\ reportId' = [reportId EXCEPT ![r] = NewId(r)]
  /\ started' = started \cup {[to |-> conn[r].fsp, id |-> NewId(r)]}
  /\ Goto(r, "startFsp")
  /\ UNCHANGED <<world, disclosed, reports, saved, ask, conn, handlers>>

(* Mutant: the bank is told before the id is made.                         *)
MutStartFspFirst(r) ==
  /\ pc[r] = "startTro"
  /\ started' = started \cup {[to |-> conn[r].fsp, id |-> reportId[r]]}
  /\ Goto(r, "startFsp")
  /\ UNCHANGED <<world, disclosed, reports, saved, ask, conn, reportId, handlers>>

(* 3, 4 - the report id is made and the citizen told.                      *)
StartTro(r) ==
  /\ pc[r] = "startTro"
  /\ reportId' = [reportId EXCEPT ![r] = NewId(r)]
  /\ started' = started \cup {[to |-> conn[r].tro, id |-> NewId(r)]}
  /\ Goto(r, "startFsp")
  /\ UNCHANGED <<world, disclosed, reports, saved, ask, conn, handlers>>

(* 5 - the bank is told and answered.                                      *)
StartFsp(r) ==
  /\ pc[r] = "startFsp"
  /\ started' = started \cup {[to |-> conn[r].fsp, id |-> reportId[r]]}
  /\ Goto(r, "done")
  /\ conn' = [conn EXCEPT ![r] = Null]
  /\ UNCHANGED <<world, disclosed, reports, saved, ask, reportId, handlers>>

-----------------------------------------------------------------------------
(* The citizen's agent accepts one more transaction.                       *)
TroAccepts(t) ==
  /\ history[t] < MaxLength
  /\ history' = [history EXCEPT ![t] = @ + 1]
  /\ UNCHANGED <<paired, holds, now, before, messages, saved, requests, handlers>>

(* It answers a 'started' message with all it has.                         *)
TroReports(m) ==
  /\ m.to \in Tros
  /\ disclosed' = disclosed \cup {[tro |-> m.to, id |-> m.id, n |-> history[m.to]]}
  /\ UNCHANGED <<world, started, reports, saved, requests, handlers>>

-----------------------------------------------------------------------------
(* ReportMessageHandler.respond                                            *)

TxRecord(t, k) == [order |-> k, hash |-> <<t, k>>]

NoHash == <<>>

(* Mutant: the loop does not pass the hash on.                             *)
MutItemsUnchained(t, n) ==
  [k \in 1 .. n |-> [previousHash |-> NoHash, hash |-> TxRecord(t, k).hash,
                     reHash |-> <<k, TxRecord(t, k).hash, NoHash>>]]

(* The loop over the records: included items and the hash passed on.  No   *)
(* record counts as expired.                                               *)
Items(t, n) ==
  LET loop[k \in 0 .. n] ==
        IF k = 0 THEN [included |-> <<>>, previousHash |-> NoHash]
        ELSE LET rec  == TxRecord(t, k)
                 prev == loop[k - 1].previousHash
             IN  [included |-> Append(loop[k - 1].included,
                                 [previousHash |-> prev, hash |-> rec.hash,
                                  reHash |-> <<rec.order, rec.hash, prev>>]),
                  previousHash |-> rec.hash]
  IN  loop[n].included

HGoto(s, l) == hpc' = [hpc EXCEPT ![s] = l]

Message(s) == [tro |-> s.tro, id |-> s.id, n |-> s.n]

Deliver(s) ==
  /\ hpc[s] = "idle"
  /\ Message(s) \in disclosed
  /\ HGoto(s, "findRec")
  /\ UNCHANGED <<world, messages, saved, requests, hconn>>

(* Mutant: the wrong column.                                               *)
MutFoundByTroId(id) == {p \in paired : p.troId = id}

(* getFspTroConnectionByFspId.                                             *)
FoundByFspId(id) == {p \in paired : p.fspId = id}

(* What the lookup returns is not tested; ReportFindsItsRow says that it   *)
(* never fails.                                                            *)
FindRec(s) ==
  /\ hpc[s] = "findRec"
  /\ \E p \in FoundByFspId(s.id.fspId) : hconn' = [hconn EXCEPT ![s] = p]
  /\ HGoto(s, "send")
  /\ UNCHANGED <<world, messages, saved, requests>>

HEnd(s, l) ==
  /\ HGoto(s, l)
  /\ hconn' = [hconn EXCEPT ![s] = Null]

Report(f, s) == [fsp |-> f, tro |-> s.tro, id |-> s.id, n |-> s.n, items |-> Items(s.tro, s.n)]

(* Mutant: every bank gets the report.                                     *)
MutSendToAll(s) ==
  /\ hpc[s] = "send"
  /\ reports' = reports \cup {Report(f, s) : f \in Fsps}
  /\ HEnd(s, "done")
  /\ UNCHANGED <<world, started, disclosed, saved, requests>>

(* Mutant: an empty report is not sent.                                    *)
MutSkipEmpty(s) ==
  /\ hpc[s] = "send"
  /\ reports' = IF s.n = 0 THEN reports ELSE reports \cup {Report(hconn[s].fsp, s)}
  /\ HEnd(s, "done")
  /\ UNCHANGED <<world, started, disclosed, saved, requests>>

SendReport(s) ==
  /\ hpc[s] = "send"
  /\ reports' = reports \cup {Report(hconn[s].fsp, s)}
  /\ HEnd(s, "done")
  /\ UNCHANGED <<world, started, disclosed, saved, requests>>

Respond(s) == FindRec(s) \/ SendReport(s)

-----------------------------------------------------------------------------
(* The FSP controller's basicMessageHandler on a completed report.         *)
FspSave(m) ==
  /\ saved' = saved \cup {m}
  /\ UNCHANGED <<world, messages, requests, handlers>>

(* getReportStatus may return any of these rows.                           *)
ReportRows(f, id) == {t \in saved : t.fsp = f /\ t.id = id}

ReportState(f, id) == IF ReportRows(f, id) # {} THEN "completed" ELSE "error"

-----------------------------------------------------------------------------
Tick ==
  /\ now < MaxNow
  /\ now' = now + 1
  /\ before' = history
  /\ UNCHANGED <<paired, holds, history, messages, saved, requests, handlers>>

(* issueGrantCredentials saves a pair.                                     *)
SavePair(p) ==
  /\ paired' = paired \cup {p}
  /\ UNCHANGED <<holds, now, history, before, messages, saved, requests, handlers>>

(* A grant credential expires or is revoked.                               *)
Revoke(c) ==
  /\ MayRevoke
  /\ holds' = holds \ {c}
  /\ UNCHANGED <<paired, now, history, before, messages, saved, requests, handlers>>

(* A call that fails or times out; evaluateAndThrow ends the request.      *)
Fault(r) ==
  /\ r \in Faulty
  /\ InFlight(r)
  /\ Fail(r)
  /\ UNCHANGED <<world, messages, saved, ask, handlers>>

(* respond throws: the webhook call fails.                                 *)
HandlerFault(s) ==
  /\ MayFault
  /\ Handling(s)
  /\ HEnd(s, "cut")
  /\ UNCHANGED <<world, messages, saved, requests>>

(* The TDC restarts: requests and handlers in flight are lost.             *)
Crash ==
  /\ MayCrash
  /\ \/ \E r \in Requests : InFlight(r)
     \/ \E s \in Slots : Handling(s)
  /\ pc' = [r \in Requests |-> IF InFlight(r) THEN "failed" ELSE pc[r]]
  /\ conn' = [r \in Requests |-> Null]
  /\ hpc' = [s \in Slots |-> IF Handling(s) THEN "cut" ELSE hpc[s]]
  /\ hconn' = [s \in Slots |-> Null]
  /\ UNCHANGED <<world, messages, saved, ask, reportId>>

CreateTransactionReport(r) ==
  FindConn(r) \/ ProveFsp(r) \/ ProveTro(r) \/ StartTro(r) \/ StartFsp(r)

Next ==
  \/ \E r \in Requests, p \in Pairs : Create(r, p)
  \/ \E r \in Requests : CreateTransactionReport(r) \/ Fault(r)
  \/ \E t \in Tros : TroAccepts(t)
  \/ \E m \in started : TroReports(m)
  \/ \E s \in Slots : Deliver(s) \/ Respond(s) \/ HandlerFault(s)
  \/ \E m \in reports : FspSave(m)
  \/ Tick
  \/ \E p \in Pairs \ paired : SavePair(p)
  \/ \E c \in holds : Revoke(c)
  \/ Crash

Spec == Init /\ [][Next]_vars

(* Requests and handlers go on when their awaits return; an agent delivers *)
(* every message at least once.  No TRO is obliged to answer.              *)
FairSpec ==
  /\ Spec
  /\ \A r \in Requests : WF_vars(CreateTransactionReport(r))
  /\ \A s \in Slots : WF_vars(Deliver(s) \/ Respond(s))
  /\ \A p \in Pairs, a \in Clock :
        WF_vars(\E m \in reports : m.fsp = p.fsp /\ m.id = IdOf(p, a) /\ FspSave(m))
-----------------------------------------------------------------------------
(* Properties                                                              *)

ItemLists == {Items(t, n) : t \in Tros, n \in Lengths}

ReportSet == [fsp : Fsps, tro : Tros, id : ReportIds, n : Lengths, items : ItemLists]

TypeOK ==
  /\ paired \subseteq Pairs
  /\ holds \subseteq Fsps \cup Tros
  /\ now \in Clock
  /\ {history, before} \subseteq [Tros -> Lengths]
  /\ started \subseteq [to : Fsps \cup Tros, id : ReportIds]
  /\ disclosed \subseteq [tro : Tros, id : ReportIds, n : Lengths]
  /\ reports \subseteq ReportSet
  /\ saved \subseteq reports
  /\ pc \in [Requests -> Labels]
  /\ ask \in [Requests -> AskRecords \cup {Null}]
  /\ conn \in [Requests -> Pairs \cup {Null}]
  /\ reportId \in [Requests -> ReportIds \cup {Null}]
  /\ hpc \in [Slots -> HandlerLabels]
  /\ hconn \in [Slots -> Pairs \cup {Null}]

Answered(r) == pc[r] = "done"

(* The report a bank reads under the id it was answered is about a citizen *)
(* that it named in a request which got this id: the one it means, unless  *)
(* two requests were made in one millisecond, and then at most the other's *)
(* (createTransactionReport and the FSP's getReportStatus).                *)
ReportIsOfNamedTro ==
  \A r \in Requests : Answered(r) =>
    \A t \in ReportRows(ask[r].pair.fsp, reportId[r]) :
      \E q \in Requests :
        /\ reportId[q] = reportId[r]
        /\ ask[q].pair.fsp = ask[r].pair.fsp
        /\ ask[q].pair.tro = t.tro

(* It holds every transaction the citizen had accepted before the          *)
(* millisecond of the request, however late or often messages arrive: an   *)
(* id is not made again later.                                             *)
ReportIsFresh ==
  \A r \in Requests : Answered(r) =>
    \A t \in ReportRows(ask[r].pair.fsp, reportId[r]) :
      t.tro = ask[r].pair.tro => ask[r].seen <= t.n

(* The verification items of a saved report cover its transactions, each   *)
(* chained to the hash before it (the loop of ReportMessageHandler.respond *)
(* against what it is to compute).                                         *)
ItemsChainTheReport ==
  \A t \in saved :
    /\ Len(t.items) = t.n
    /\ \A k \in 1 .. t.n :
         LET prev == IF k = 1 THEN NoHash ELSE t.items[k - 1].hash
         IN  t.items[k] = [previousHash |-> prev, hash |-> TxRecord(t.tro, k).hash,
                           reHash |-> <<k, TxRecord(t.tro, k).hash, prev>>]

(* respond finds the row of the bank a citizen answers, restarts and failed *)
(* requests included.                                                      *)
ReportFindsItsRow ==
  \A s \in Slots : hpc[s] = "findRec" => FoundByFspId(s.id.fspId) # {}

(* A report id answered to a bank is known to the citizen and to the bank. *)
AnsweredMeansBothTold ==
  \A r \in Requests : Answered(r) =>
    {[to |-> ask[r].pair.tro, id |-> reportId[r]],
     [to |-> ask[r].pair.fsp, id |-> reportId[r]]} \subseteq started

(* The request has yet to ask c for its grant credential.                  *)
ProofAhead(r, c) ==
  \/ pc[r] \in {"idle", "findConn", "proveFsp"}
  \/ pc[r] = "proveTro" /\ conn[r].tro = c

(* Whatever was proved before: once a grant is revoked, no request that    *)
(* has yet to ask for it, one between its two proofs say, starts a report  *)
(* on it (steps 1 and 2 of createTransactionReport).                       *)
RevokedStopsReports ==
  \A r \in Requests, c \in Fsps \cup Tros :
    [](c \notin holds /\ ProofAhead(r, c) =>
         [](pc[r] \in {"startTro", "startFsp"} => c \notin {conn[r].fsp, conn[r].tro}))

(* Liveness: what a citizen disclosed can in the end be retrieved by the   *)
(* bank, unless every delivery of it was cut off.                          *)
DisclosedIsRetrievable ==
  \A p \in Pairs, a \in Clock, n \in Lengths :
    [tro |-> p.tro, id |-> IdOf(p, a), n |-> n] \in disclosed ~>
      \/ ReportState(p.fsp, IdOf(p, a)) = "completed"
      \/ \A k \in 1 .. MaxDeliveries :
            hpc[[tro |-> p.tro, id |-> IdOf(p, a), n |-> n, k |-> k]] = "cut"

(* The steps implement the abstract ledger of reports.                     *)
Opened ==
  {o \in [fsp : Fsps, tro : Tros, id : ReportIds] :
     /\ [to |-> o.tro, id |-> o.id] \in started
     /\ \E p \in Pairs : p.fsp = o.fsp /\ p.tro = o.tro /\ p.fspId = o.id.fspId}

Received == {[fsp |-> t.fsp, tro |-> t.tro, id |-> t.id, n |-> t.n] : t \in saved}

Reporting == INSTANCE ReportLedger WITH
  Ids <- ReportIds, opened <- Opened, received <- Received

ImplementsReports == Reporting!ReportSpec
=============================================================================
