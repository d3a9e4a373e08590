----------------------- MODULE TransactionReportsProofs -----------------------
(***************************************************************************)
(* Proofs about TransactionReports, for any pairs, requests, clock, length *)
(* of histories, deliveries and failures.  Tables and message sets only    *)
(* grow, ids once made stay, the clock and the histories only advance:     *)
(* Growth, and the lemmas that cite it, carry what stands behind a         *)
(* request, a message or a handler call over every step but the few that   *)
(* add something.                                                          *)
(***************************************************************************)
EXTENDS TransactionReports, WellFoundedInduction, TLAPS

(* What a request has behind it at each step.                              *)
Bound == {"proveFsp", "proveTro", "startTro", "startFsp"}

ToldTro(r) == [to |-> ask[r].pair.tro, id |-> reportId[r]]
ToldFsp(r) == [to |-> ask[r].pair.fsp, id |-> reportId[r]]

RequestOK(r) ==
  /\ pc[r] = "idle" => ask[r] = Null
  /\ pc[r] # "idle" => ask[r] \in AskRecords
  /\ pc[r] \in {"idle", "findConn", "proveFsp", "proveTro", "startTro"} => reportId[r] = Null
  /\ pc[r] \in Bound => conn[r] \in FoundByIds(ask[r].pair)
  /\ pc[r] \in {"startFsp", "done"} =>
       /\ reportId[r] \in ReportIds
       /\ reportId[r].fspId = ask[r].pair.fspId
       /\ ToldTro(r) \in started
  /\ pc[r] = "done" => ToldFsp(r) \in started

RequestInv == \A r \in Requests : RequestOK(r)

(* What a call of respond has behind it.                                   *)
HandlerOK(s) ==
  /\ Handling(s) => Message(s) \in disclosed
  /\ hpc[s] = "send" => hconn[s] \in FoundByFspId(s.id.fspId)

HandlerInv == \A s \in Slots : HandlerOK(s)

BaseInv == TypeOK /\ RequestInv /\ HandlerInv

Growth ==
  /\ paired \subseteq paired' /\ started \subseteq started'
  /\ disclosed \subseteq disclosed' /\ reports \subseteq reports'
  /\ now <= now'
  /\ \A t \in Tros : history[t] <= history'[t]
  /\ \A r \in Requests : ask[r] # Null => ask'[r] = ask[r]
  /\ \A r \in Requests : reportId[r] # Null => reportId'[r] = reportId[r]

LocalsOf(r) == <<pc[r], ask[r], conn[r], reportId[r]>>

(* The steps of a request touch its own locals only.                       *)
OthersKept(r) == \A q \in Requests \ {r} : UNCHANGED LocalsOf(q)

-----------------------------------------------------------------------------
(* Frames: who stands still keeps what it relies on.                       *)

LEMMA RequestKept ==
  ASSUME Growth, NEW r \in Requests, RequestOK(r), UNCHANGED LocalsOf(r)
  PROVE  RequestOK(r)'
  BY DEF Growth, RequestOK, LocalsOf, FoundByIds, ToldTro, ToldFsp

LEMMA OneRequestMoves ==
  ASSUME Growth, RequestInv, NEW r \in Requests, OthersKept(r), RequestOK(r)'
  PROVE  RequestInv'
<1> SUFFICES ASSUME NEW q \in Requests PROVE RequestOK(q)'
  BY DEF RequestInv
<1>1. CASE q = r
  BY <1>1
<1>2. CASE q # r
  BY <1>2, RequestKept DEF OthersKept, RequestInv
<1> QED
  BY <1>1, <1>2

LEMMA NoRequestMoves ==
  ASSUME Growth, RequestInv, UNCHANGED requests
  PROVE  RequestInv'
<1> SUFFICES ASSUME NEW q \in Requests PROVE RequestOK(q)'
  BY DEF RequestInv
<1> QED
  BY RequestKept DEF requests, LocalsOf, RequestInv

LEMMA HandlerKept ==
  ASSUME Growth, NEW s \in Slots, HandlerOK(s), UNCHANGED <<hpc[s], hconn[s]>>
  PROVE  HandlerOK(s)'
  BY DEF Growth, HandlerOK, Handling, Message, FoundByFspId

LEMMA OneHandlerMoves ==
  ASSUME Growth, HandlerInv, NEW s \in Slots, HandlerOK(s)',
         \A t \in Slots \ {s} : UNCHANGED <<hpc[t], hconn[t]>>
  PROVE  HandlerInv'
<1> SUFFICES ASSUME NEW t \in Slots PROVE HandlerOK(t)'
  BY DEF HandlerInv
<1>1. CASE t = s
  BY <1>1
<1>2. CASE t # s
  BY <1>2, HandlerKept DEF HandlerInv
<1> QED
  BY <1>1, <1>2

LEMMA NoHandlerMoves ==
  ASSUME Growth, HandlerInv, UNCHANGED handlers
  PROVE  HandlerInv'
<1> SUFFICES ASSUME NEW t \in Slots PROVE HandlerOK(t)'
  BY DEF HandlerInv
<1> QED
  BY HandlerKept DEF handlers, HandlerInv

(* A request that has failed relies on nothing.                            *)
LEMMA FailedOK ==
  ASSUME NEW r \in Requests, RequestOK(r), pc[r] # "idle", pc'[r] = "failed", ask'[r] = ask[r]
  PROVE  RequestOK(r)'
  BY DEF RequestOK, Bound

(* What is counted is a natural number.                                    *)
LEMMA Numbers ==
  ASSUME TypeOK
  PROVE  /\ now \in Nat
         /\ \A t \in Tros : history[t] \in Nat /\ before[t] \in Nat
         /\ \A m \in disclosed : m.n \in Nat /\ m.id.at \in Nat
         /\ \A m \in started : m.id.at \in Nat
  BY ReportConstants DEF TypeOK, Clock, Lengths, ReportIds

-----------------------------------------------------------------------------
(* Type correctness, with what the steps rely on: one lemma per action.    *)

LEMMA BaseInit == Init => BaseInv
<1> SUFFICES ASSUME Init PROVE BaseInv
  OBVIOUS
<1>1. 0 \in Lengths /\ 1 \in Clock
  BY ReportConstants DEF Lengths
<1> QED
  BY <1>1 DEF Init, BaseInv, TypeOK, RequestInv, RequestOK, HandlerInv, HandlerOK, Handling,
     Labels, HandlerLabels, Bound

LEMMA CreateStep ==
  ASSUME BaseInv, NEW r \in Requests, NEW p \in Pairs, Create(r, p)
  PROVE  BaseInv' /\ Growth
<1> DEFINE new == [pair |-> p, seen |-> before[p.tro]]
<1>1. new \in AskRecords
  BY DEF AskRecords, BaseInv, TypeOK, Tros
<1>2. ask[r] = Null /\ reportId[r] = Null /\ ask' = [ask EXCEPT ![r] = new]
  BY DEF Create, BaseInv, RequestInv, RequestOK
<1>3. Growth
  BY <1>2, Numbers DEF Create, world, messages, Growth, BaseInv, TypeOK
<1>4. TypeOK'
  BY <1>1, <1>2 DEF Create, Goto, world, messages, handlers, BaseInv, TypeOK, Labels
<1>5. OthersKept(r)
  BY <1>2 DEF Create, Goto, OthersKept, LocalsOf, BaseInv, TypeOK
<1>6. RequestOK(r)'
  BY <1>1, <1>2 DEF Create, Goto, RequestOK, Bound, BaseInv, TypeOK
<1> QED
  BY <1>3, <1>4, <1>5, <1>6, OneRequestMoves, NoHandlerMoves DEF Create, BaseInv

(* A request that fails.                                                   *)
LEMMA FailStep ==
  ASSUME BaseInv, NEW r \in Requests, Fail(r), pc[r] # "idle",
         UNCHANGED <<world, messages, saved, ask, handlers>>
  PROVE  BaseInv' /\ Growth
<1>1. Growth
  BY Numbers DEF Fail, world, messages, Growth, BaseInv
<1>2. TypeOK'
  BY DEF Fail, Goto, world, messages, handlers, BaseInv, TypeOK, Labels
<1>3. OthersKept(r) /\ pc'[r] = "failed" /\ ask'[r] = ask[r]
  BY DEF Fail, Goto, OthersKept, LocalsOf, BaseInv, TypeOK
<1>4. RequestOK(r)'
  BY <1>3, FailedOK DEF BaseInv, RequestInv
<1> QED
  BY <1>1, <1>2, <1>3, <1>4, OneRequestMoves, NoHandlerMoves DEF BaseInv

LEMMA FindConnStep ==
  ASSUME BaseInv, NEW r \in Requests, FindConn(r)
  PROVE  BaseInv' /\ Growth
<1>1. CASE Fail(r)
  BY <1>1, FailStep DEF FindConn
<1>2. ASSUME NEW p \in FoundByIds(ask[r].pair), conn' = [conn EXCEPT ![r] = p],
             Goto(r, "proveFsp"), UNCHANGED reportId
      PROVE  BaseInv' /\ Growth
  <2>1. Growth
    BY <1>2, Numbers DEF FindConn, world, messages, Growth, BaseInv
  <2>2. p \in Pairs
    BY DEF FoundByIds, BaseInv, TypeOK
  <2>3. TypeOK'
    BY <1>2, <2>2 DEF FindConn, Goto, world, messages, handlers, BaseInv, TypeOK, Labels
  <2>4. OthersKept(r)
    BY <1>2 DEF FindConn, Goto, OthersKept, LocalsOf, BaseInv, TypeOK
  <2>5. RequestOK(r)'
    BY <1>2 DEF FindConn, Goto, world, RequestOK, Bound, BaseInv, RequestInv, TypeOK, FoundByIds
  <2> QED
    BY <2>1, <2>3, <2>4, <2>5, OneRequestMoves, NoHandlerMoves DEF FindConn, BaseInv
<1> QED
  BY <1>1, <1>2 DEF FindConn

LEMMA ProveStep ==
  ASSUME BaseInv, NEW r \in Requests, ProveFsp(r) \/ ProveTro(r)
  PROVE  BaseInv' /\ Growth
<1> USE DEF ProveFsp, ProveTro, ProveCredential
<1>1. CASE Fail(r)
  BY <1>1, FailStep
<1>2. ASSUME NEW l \in {"proveTro", "startTro"}, Goto(r, l), UNCHANGED <<conn, reportId>>
      PROVE  BaseInv' /\ Growth
  <2>1. Growth
    BY <1>2, Numbers DEF world, messages, Growth, BaseInv
  <2>2. TypeOK'
    BY <1>2 DEF Goto, world, messages, handlers, BaseInv, TypeOK, Labels
  <2>3. OthersKept(r)
    BY <1>2 DEF Goto, OthersKept, LocalsOf, BaseInv, TypeOK
  <2>4. RequestOK(r)'
    BY <1>2 DEF Goto, world, RequestOK, Bound, BaseInv, RequestInv, TypeOK, FoundByIds
  <2> QED
    BY <2>1, <2>2, <2>3, <2>4, OneRequestMoves, NoHandlerMoves DEF BaseInv
<1> QED
  BY <1>1, <1>2

(* What a request that was let through has in hand: the pair it named.     *)
LEMMA InHand ==
  ASSUME BaseInv, NEW r \in Requests, pc[r] \in Bound
  PROVE  /\ ask[r] \in AskRecords /\ ask[r].pair \in Pairs
         /\ conn[r] \in Pairs /\ conn[r] \in paired
         /\ conn[r].fsp = ask[r].pair.fsp /\ conn[r].tro = ask[r].pair.tro
         /\ conn[r].fspId = ask[r].pair.fspId
         /\ conn[r].fsp \in Fsps /\ conn[r].tro \in Tros
         /\ NewId(r) \in ReportIds /\ NewId(r).fspId = ask[r].pair.fspId /\ NewId(r).at = now
<1>1. ask[r] \in AskRecords /\ conn[r] \in FoundByIds(ask[r].pair)
  BY DEF BaseInv, RequestInv, RequestOK, Bound
<1>2. ask[r].pair \in Pairs /\ conn[r] \in paired /\ conn[r] \in Pairs
  BY <1>1 DEF AskRecords, FoundByIds, BaseInv, TypeOK
<1>3. /\ conn[r].fspId = ask[r].pair.fspId
      /\ conn[r].fsp = ask[r].pair.fsp /\ conn[r].tro = ask[r].pair.tro
  BY <1>1, <1>2, ReportConstants DEF FoundByIds
<1>4. conn[r].fsp \in Fsps /\ conn[r].tro \in Tros
  BY <1>2 DEF Fsps, Tros
<1>5. NewId(r) \in ReportIds /\ NewId(r).fspId = ask[r].pair.fspId /\ NewId(r).at = now
  BY <1>2 DEF NewId, IdOf, ReportIds, FspIds, BaseInv, TypeOK
<1> QED
  BY <1>1, <1>2, <1>3, <1>4, <1>5

LEMMA StartTroStep ==
  ASSUME BaseInv, NEW r \in Requests, StartTro(r)
  PROVE  BaseInv' /\ Growth
<1>1. pc[r] \in Bound /\ reportId[r] = Null
  BY DEF StartTro, Bound, BaseInv, RequestInv, RequestOK
<1>2. Growth
  BY <1>1, Numbers DEF StartTro, world, Growth, BaseInv, TypeOK
<1>3. [to |-> conn[r].tro, id |-> NewId(r)] \in [to : Fsps \cup Tros, id : ReportIds]
  BY <1>1, InHand
<1>4. TypeOK'
  BY <1>1, <1>3, InHand DEF StartTro, Goto, world, handlers, BaseInv, TypeOK, Labels
<1>5. OthersKept(r)
  BY DEF StartTro, Goto, OthersKept, LocalsOf, BaseInv, TypeOK
<1>6. /\ pc'[r] = "startFsp" /\ ask'[r] = ask[r] /\ conn'[r] = conn[r]
      /\ reportId'[r] = NewId(r) /\ UNCHANGED paired
  BY DEF StartTro, Goto, world, BaseInv, TypeOK
<1>7. ToldTro(r)' \in started'
  BY <1>1, <1>6, InHand DEF StartTro, ToldTro
<1>8. RequestOK(r)'
  BY <1>1, <1>6, <1>7, InHand DEF RequestOK, Bound, BaseInv, RequestInv, FoundByIds
<1> QED
  BY <1>2, <1>4, <1>5, <1>8, OneRequestMoves, NoHandlerMoves DEF StartTro, BaseInv

LEMMA StartFspStep ==
  ASSUME BaseInv, NEW r \in Requests, StartFsp(r)
  PROVE  BaseInv' /\ Growth
<1>1. pc[r] \in Bound
  BY DEF StartFsp, Bound
<1>2. reportId[r] \in ReportIds /\ reportId[r].fspId = ask[r].pair.fspId /\ ToldTro(r) \in started
  BY DEF StartFsp, BaseInv, RequestInv, RequestOK
<1>3. Growth
  BY Numbers DEF StartFsp, world, Growth, BaseInv, TypeOK
<1>4. [to |-> conn[r].fsp, id |-> reportId[r]] \in [to : Fsps \cup Tros, id : ReportIds]
  BY <1>1, <1>2, InHand
<1>5. TypeOK'
  BY <1>4 DEF StartFsp, Goto, world, handlers, BaseInv, TypeOK, Labels
<1>6. OthersKept(r)
  BY DEF StartFsp, Goto, OthersKept, LocalsOf, BaseInv, TypeOK
<1>7. pc'[r] = "done" /\ ask'[r] = ask[r] /\ reportId'[r] = reportId[r]
  BY DEF StartFsp, Goto, BaseInv, TypeOK
<1>8. ToldTro(r)' \in started' /\ ToldFsp(r)' \in started'
  BY <1>1, <1>2, <1>7, InHand DEF StartFsp, ToldTro, ToldFsp
<1>9. RequestOK(r)'
  BY <1>1, <1>2, <1>7, <1>8, InHand DEF RequestOK, Bound
<1> QED
  BY <1>3, <1>5, <1>6, <1>9, OneRequestMoves, NoHandlerMoves DEF StartFsp, BaseInv

(* The citizens' agents, the clock, the pairing and the bank's store leave *)
(* requests and handlers as they are.                                      *)
LEMMA WorldSteps ==
  ASSUME BaseInv,
         \/ \E t \in Tros : TroAccepts(t)
         \/ \E m \in started : TroReports(m)
         \/ \E m \in reports : FspSave(m)
         \/ Tick
         \/ \E p \in Pairs \ paired : SavePair(p)
         \/ \E c \in holds : Revoke(c)
         \/ UNCHANGED vars
  PROVE  BaseInv' /\ Growth
<1> USE Numbers DEF BaseInv
<1>1. ASSUME NEW t \in Tros, TroAccepts(t) PROVE TypeOK' /\ Growth
  <2>1. history[t] + 1 \in Lengths
    BY <1>1, ReportConstants DEF TroAccepts, Lengths
  <2>2. history' \in [Tros -> Lengths] /\ \A u \in Tros : history[u] <= history'[u]
    BY <1>1, <2>1 DEF TroAccepts, TypeOK
  <2> QED
    BY <1>1, <2>2 DEF TroAccepts, messages, requests, handlers, TypeOK, Growth
<1>2. ASSUME NEW m \in started, TroReports(m) PROVE TypeOK' /\ Growth
  <2>1. [tro |-> m.to, id |-> m.id, n |-> history[m.to]] \in [tro : Tros, id : ReportIds, n : Lengths]
    BY <1>2 DEF TroReports, TypeOK
  <2> QED
    BY <1>2, <2>1 DEF TroReports, world, requests, handlers, TypeOK, Growth
<1>3. ASSUME NEW m \in reports, FspSave(m) PROVE TypeOK' /\ Growth
  BY <1>3 DEF FspSave, world, messages, requests, handlers, TypeOK, Growth
<1>4. ASSUME Tick PROVE TypeOK' /\ Growth
  <2>1. now' \in Clock /\ now <= now'
    BY <1>4, ReportConstants DEF Tick, TypeOK, Clock
  <2>2. TypeOK'
    BY <1>4, <2>1 DEF Tick, messages, requests, handlers, TypeOK
  <2> QED
    BY <1>4, <2>1, <2>2 DEF Tick, messages, requests, Growth
<1>5. ASSUME NEW p \in Pairs, SavePair(p) PROVE TypeOK' /\ Growth
  BY <1>5 DEF SavePair, messages, requests, handlers, TypeOK, Growth
<1>6. ASSUME NEW c \in holds, Revoke(c) PROVE TypeOK' /\ Growth
  BY <1>6 DEF Revoke, messages, requests, handlers, TypeOK, Growth
<1>7. ASSUME UNCHANGED vars PROVE TypeOK' /\ Growth
  BY <1>7 DEF vars, TypeOK, Growth
<1>8. UNCHANGED <<requests, handlers>>
  BY DEF TroAccepts, TroReports, FspSave, Tick, SavePair, Revoke, vars, requests, handlers
<1> QED
  BY <1>1, <1>2, <1>3, <1>4, <1>5, <1>6, <1>7, <1>8, NoRequestMoves, NoHandlerMoves

LEMMA HandlerSteps ==
  ASSUME BaseInv, NEW s \in Slots, Deliver(s) \/ FindRec(s) \/ SendReport(s) \/ HandlerFault(s)
  PROVE  BaseInv' /\ Growth
<1>1. Growth /\ UNCHANGED requests
  BY Numbers DEF Deliver, FindRec, SendReport, HandlerFault, world, messages, requests, Growth, BaseInv
<1>2. \A t \in Slots \ {s} : UNCHANGED <<hpc[t], hconn[t]>>
  BY DEF Deliver, FindRec, SendReport, HandlerFault, HEnd, HGoto, BaseInv, TypeOK
<1>3. TypeOK' /\ HandlerOK(s)'
  <2>1. CASE Deliver(s)
    BY <2>1 DEF Deliver, HGoto, world, messages, requests, BaseInv, TypeOK, HandlerLabels,
                HandlerOK, Handling, Message
  <2>2. CASE FindRec(s)
    <3>1. PICK p \in FoundByFspId(s.id.fspId) : hconn' = [hconn EXCEPT ![s] = p]
      BY <2>2 DEF FindRec
    <3>2. p \in Pairs
      BY <3>1 DEF FoundByFspId, BaseInv, TypeOK
    <3>3. Message(s) \in disclosed
      BY <2>2 DEF FindRec, BaseInv, HandlerInv, HandlerOK, Handling
    <3>4. hpc' = [hpc EXCEPT ![s] = "send"] /\ UNCHANGED <<world, messages, saved, requests>>
      BY <2>2 DEF FindRec, HGoto
    <3>5. TypeOK'
      BY <3>1, <3>2, <3>4 DEF world, messages, requests, BaseInv, TypeOK, HandlerLabels
    <3>6. hconn'[s] = p /\ hpc'[s] = "send"
      BY <3>1, <3>4 DEF BaseInv, TypeOK
    <3> QED
      BY <3>1, <3>3, <3>4, <3>5, <3>6 DEF world, messages, HandlerOK, Message, FoundByFspId
  <2>3. CASE SendReport(s)
    <3>1. hconn[s] \in Pairs
      BY <2>3 DEF SendReport, BaseInv, TypeOK, HandlerInv, HandlerOK, FoundByFspId
    <3>2. s.tro \in Tros /\ s.id \in ReportIds /\ s.n \in Lengths
      BY DEF Slots
    <3>3. Report(hconn[s].fsp, s) \in ReportSet
      BY <3>1, <3>2 DEF Report, ReportSet, ItemLists, Fsps
    <3>4. TypeOK'
      BY <2>3, <3>3 DEF SendReport, HEnd, HGoto, world, requests, BaseInv, TypeOK, HandlerLabels
    <3>5. hpc'[s] = "done"
      BY <2>3 DEF SendReport, HEnd, HGoto, BaseInv, TypeOK
    <3> QED
      BY <3>4, <3>5 DEF HandlerOK, Handling
  <2>4. CASE HandlerFault(s)
    BY <2>4 DEF HandlerFault, HEnd, HGoto, world, messages, requests, BaseInv, TypeOK,
                HandlerLabels, HandlerOK, Handling
  <2> QED
    BY <2>1, <2>2, <2>3, <2>4
<1> QED
  BY <1>1, <1>2, <1>3, NoRequestMoves, OneHandlerMoves DEF BaseInv

LEMMA CrashStep ==
  ASSUME BaseInv, Crash
  PROVE  BaseInv' /\ Growth
<1>1. Growth
  BY Numbers DEF Crash, world, messages, Growth, BaseInv
<1>2. TypeOK'
  BY DEF Crash, world, messages, InFlight, Handling, BaseInv, TypeOK, Labels, HandlerLabels
<1>3. ASSUME NEW r \in Requests PROVE RequestOK(r)'
  <2>1. CASE InFlight(r)
    <3>1. pc[r] # "idle" /\ pc'[r] = "failed" /\ ask'[r] = ask[r]
      BY <2>1 DEF Crash, InFlight, BaseInv, TypeOK
    <3> QED
      BY <3>1, FailedOK DEF BaseInv, RequestInv
  <2>2. CASE ~InFlight(r)
    <3>1. pc'[r] = pc[r] /\ pc[r] \in {"idle", "done", "failed"}
      BY <2>2 DEF Crash, InFlight, BaseInv, TypeOK
    <3> QED
      BY <3>1 DEF Crash, messages, BaseInv, RequestInv, RequestOK, Bound, ToldTro, ToldFsp
  <2> QED
    BY <2>1, <2>2
<1>4. ASSUME NEW s \in Slots PROVE HandlerOK(s)'
  BY DEF Crash, Handling, HandlerOK, BaseInv, TypeOK
<1> QED
  BY <1>1, <1>2, <1>3, <1>4 DEF BaseInv, RequestInv, HandlerInv

LEMMA BaseStep ==
  ASSUME BaseInv, [Next]_vars
  PROVE  BaseInv' /\ Growth
<1>1. ASSUME NEW r \in Requests, CreateTransactionReport(r) PROVE BaseInv' /\ Growth
  BY <1>1, FindConnStep, ProveStep, StartTroStep, StartFspStep DEF CreateTransactionReport
<1>2. ASSUME NEW r \in Requests, Fault(r) PROVE BaseInv' /\ Growth
  BY <1>2, FailStep DEF Fault, InFlight
<1> QED
  BY <1>1, <1>2, CreateStep, HandlerSteps, WorldSteps, CrashStep DEF Next, Respond

THEOREM BaseInvariant == Spec => []BaseInv
  BY BaseInit, BaseStep, PTL DEF Spec

(* The tables, the messages and the locals of requests and handlers always *)
(* have their types.                                                       *)
THEOREM TypeCorrect == Spec => []TypeOK
<1>1. BaseInv => TypeOK
  BY DEF BaseInv
<1> QED
  BY <1>1, BaseInvariant, PTL

(* createTransactionReport sends both started messages before it answers.  *)
THEOREM BothAreTold == Spec => []AnsweredMeansBothTold
<1>1. BaseInv => AnsweredMeansBothTold
  BY DEF BaseInv, RequestInv, RequestOK, AnsweredMeansBothTold, Answered, ToldTro, ToldFsp
<1> QED
  BY <1>1, BaseInvariant, PTL

-----------------------------------------------------------------------------
(* Where what is in the message sets and tables comes from.                *)

StartedFor(m) ==
  /\ \E p \in paired : p.tro = m.to /\ p.fspId = m.id.fspId
  /\ \E r \in Requests : /\ ask[r] # Null /\ reportId[r] = m.id
                         /\ ask[r].pair.tro = m.to /\ ask[r].pair.fspId = m.id.fspId
  /\ m.id.at <= now

(* A citizen was told of a report because of a request about it, over a    *)
(* saved pair of it and the bank of the id.                                *)
StartedInv == \A m \in started : m.to \in Tros => StartedFor(m)

(* A citizen answers what it was told.                                     *)
DisclosedInv == \A d \in disclosed : [to |-> d.tro, id |-> d.id] \in started

(* A report is the copy of an answer, for the bank of the id.              *)
ReportsInv ==
  \A m \in reports :
    /\ [tro |-> m.tro, id |-> m.id, n |-> m.n] \in disclosed
    /\ \E p \in paired : p.fsp = m.fsp /\ p.fspId = m.id.fspId
    /\ m.items = Items(m.tro, m.n)

OriginInv == StartedInv /\ DisclosedInv /\ ReportsInv

LEMMA StartedKept ==
  ASSUME BaseInv, BaseInv', Growth, NEW m \in started, StartedFor(m)
  PROVE  StartedFor(m)'
<1>1. PICK r \in Requests : /\ ask[r] # Null /\ reportId[r] = m.id
                           /\ ask[r].pair.tro = m.to /\ ask[r].pair.fspId = m.id.fspId
  BY DEF StartedFor
<1>2. reportId[r] # Null
  BY <1>1, ReportConstants DEF BaseInv, TypeOK
<1>3. ask'[r] = ask[r] /\ reportId'[r] = reportId[r]
  BY <1>1, <1>2 DEF Growth
<1>4. m.id.at <= now'
  <2>1. now \in Nat /\ now' \in Nat /\ m.id.at \in Nat
    BY Numbers, ReportConstants DEF BaseInv, TypeOK, Clock
  <2> QED
    BY <2>1 DEF Growth, StartedFor
<1> QED
  BY <1>1, <1>3, <1>4 DEF Growth, StartedFor

(* What each step adds to the message sets.                                *)
LEMMA Additions ==
  ASSUME BaseInv, [Next]_vars
  PROVE  /\ \/ started' = started
            \/ \E r \in Requests : StartTro(r) \/ StartFsp(r)
         /\ \/ disclosed' = disclosed
            \/ \E m \in started : TroReports(m)
         /\ \/ reports' = reports
            \/ \E s \in Slots : SendReport(s)
<1>1. ASSUME NEW r \in Requests,
             FindConn(r) \/ ProveFsp(r) \/ ProveTro(r) \/ Fault(r) \/ \E p \in Pairs : Create(r, p)
      PROVE  UNCHANGED messages
  BY <1>1 DEF FindConn, ProveFsp, ProveTro, ProveCredential, Fault, Create
<1>2. ASSUME NEW r \in Requests, StartTro(r) \/ StartFsp(r)
      PROVE  UNCHANGED <<disclosed, reports>>
  BY <1>2 DEF StartTro, StartFsp
<1>3. ASSUME NEW m \in started, TroReports(m) PROVE UNCHANGED <<started, reports>>
  BY <1>3 DEF TroReports
<1>4. ASSUME NEW s \in Slots, Deliver(s) \/ FindRec(s) \/ HandlerFault(s) PROVE UNCHANGED messages
  BY <1>4 DEF Deliver, FindRec, HandlerFault
<1>5. ASSUME NEW s \in Slots, SendReport(s) PROVE UNCHANGED <<started, disclosed>>
  BY <1>5 DEF SendReport
<1>6. ASSUME \/ \E t \in Tros : TroAccepts(t)
             \/ \E m \in reports : FspSave(m)
             \/ Tick
             \/ \E p \in Pairs \ paired : SavePair(p)
             \/ \E c \in holds : Revoke(c)
             \/ Crash
             \/ UNCHANGED vars
      PROVE  UNCHANGED messages
  BY <1>6 DEF TroAccepts, FspSave, Tick, SavePair, Revoke, Crash, vars, messages
<1> QED
  BY <1>1, <1>2, <1>3, <1>4, <1>5, <1>6 DEF Next, CreateTransactionReport, Respond, messages

LEMMA StartedStep ==
  ASSUME BaseInv, StartedInv, [Next]_vars
  PROVE  StartedInv'
<1> SUFFICES ASSUME NEW m \in started', m.to \in Tros PROVE StartedFor(m)'
  BY DEF StartedInv
<1>0. BaseInv' /\ Growth
  BY BaseStep
<1>1. CASE m \in started
  BY <1>0, <1>1, StartedKept DEF StartedInv
<1>2. ASSUME m \notin started, NEW r \in Requests, StartTro(r) PROVE StartedFor(m)'
  <2>1. pc[r] \in Bound /\ m = [to |-> conn[r].tro, id |-> NewId(r)]
    BY <1>2 DEF StartTro, Bound
  <2>2. ask'[r] = ask[r] /\ ask[r] # Null /\ reportId'[r] = NewId(r)
        /\ UNCHANGED <<paired, now>>
    BY <1>2, <2>1, InHand, ReportConstants DEF StartTro, world, BaseInv, TypeOK
  <2>3. conn[r] \in paired /\ conn[r].tro = m.to /\ conn[r].fspId = m.id.fspId
        /\ ask[r].pair.tro = m.to /\ ask[r].pair.fspId = m.id.fspId /\ m.id.at = now
    BY <2>1, InHand
  <2>4. now \in Nat
    BY Numbers DEF BaseInv
  <2> QED
    BY <2>1, <2>2, <2>3, <2>4 DEF StartedFor
<1>3. ASSUME m \notin started, NEW r \in Requests, StartFsp(r) PROVE FALSE
  <2>1. pc[r] \in Bound /\ m = [to |-> conn[r].fsp, id |-> reportId[r]]
    BY <1>3 DEF StartFsp, Bound
  <2> QED
    BY <2>1, InHand, ReportConstants
<1> QED
  BY <1>1, <1>2, <1>3, Additions

LEMMA DisclosedStep ==
  ASSUME BaseInv, DisclosedInv, [Next]_vars
  PROVE  DisclosedInv'
<1> SUFFICES ASSUME NEW d \in disclosed' PROVE [to |-> d.tro, id |-> d.id] \in started'
  BY DEF DisclosedInv
<1>1. CASE d \in disclosed
  BY <1>1, BaseStep DEF DisclosedInv, Growth
<1>2. CASE d \notin disclosed
  <2>1. PICK m \in started : TroReports(m)
    BY <1>2, Additions
  <2>2. d.tro = m.to /\ d.id = m.id /\ started' = started
    BY <1>2, <2>1 DEF TroReports
  <2>3. m = [to |-> m.to, id |-> m.id]
    BY DEF BaseInv, TypeOK
  <2> QED
    BY <2>2, <2>3
<1> QED
  BY <1>1, <1>2

LEMMA ReportsStep ==
  ASSUME BaseInv, ReportsInv, [Next]_vars
  PROVE  ReportsInv'
<1> SUFFICES ASSUME NEW m \in reports'
             PROVE  /\ [tro |-> m.tro, id |-> m.id, n |-> m.n] \in disclosed'
                    /\ \E p \in paired' : p.fsp = m.fsp /\ p.fspId = m.id.fspId
                    /\ m.items = Items(m.tro, m.n)
  BY DEF ReportsInv
<1>1. CASE m \in reports
  BY <1>1, BaseStep DEF ReportsInv, Growth
<1>2. CASE m \notin reports
  <2>1. PICK s \in Slots : SendReport(s)
    BY <1>2, Additions
  <2>2. m = Report(hconn[s].fsp, s) /\ UNCHANGED <<disclosed, paired>>
    BY <1>2, <2>1 DEF SendReport, world
  <2>3. Message(s) \in disclosed /\ hconn[s] \in FoundByFspId(s.id.fspId)
    BY <2>1 DEF SendReport, BaseInv, HandlerInv, HandlerOK, Handling
  <2> QED
    BY <2>2, <2>3 DEF Report, Message, FoundByFspId
<1> QED
  BY <1>1, <1>2

THEOREM OriginInvariant == Spec => [](BaseInv /\ OriginInv)
<1>1. Init => BaseInv /\ OriginInv
  BY BaseInit DEF Init, OriginInv, StartedInv, DisclosedInv, ReportsInv
<1>2. BaseInv /\ OriginInv /\ [Next]_vars => (BaseInv /\ OriginInv)'
  BY BaseStep, StartedStep, DisclosedStep, ReportsStep DEF OriginInv
<1> QED
  BY <1>1, <1>2, PTL DEF Spec

(* The handler finds the row of the bank a citizen answers: the citizen    *)
(* was told of the id over a saved pair, and rows stay.                    *)
THEOREM LookupFinds == Spec => []ReportFindsItsRow
<1>1. BaseInv /\ OriginInv => ReportFindsItsRow
  <2> SUFFICES ASSUME BaseInv, OriginInv, NEW s \in Slots, hpc[s] = "findRec"
               PROVE  FoundByFspId(s.id.fspId) # {}
    BY DEF ReportFindsItsRow
  <2>1. Message(s) \in disclosed
    BY DEF BaseInv, HandlerInv, HandlerOK, Handling
  <2>2. [to |-> s.tro, id |-> s.id] \in started /\ s.tro \in Tros
    BY <2>1 DEF OriginInv, DisclosedInv, Message, Slots
  <2>3. PICK p \in paired : p.fspId = s.id.fspId
    BY <2>2 DEF OriginInv, StartedInv, StartedFor
  <2> QED
    BY <2>3 DEF FoundByFspId
<1> QED
  BY <1>1, OriginInvariant, PTL

(* What a saved report was told for: a request about its citizen.          *)
LEMMA SavedOrigin ==
  ASSUME BaseInv, OriginInv, NEW t \in saved
  PROVE  /\ t.tro \in Tros
         /\ [tro |-> t.tro, id |-> t.id, n |-> t.n] \in disclosed
         /\ [to |-> t.tro, id |-> t.id] \in started
         /\ \E q \in Requests : /\ ask[q] # Null /\ reportId[q] = t.id
                                /\ ask[q].pair.tro = t.tro /\ ask[q].pair.fspId = t.id.fspId
<1>1. t \in reports /\ t.tro \in Tros
  BY DEF BaseInv, TypeOK, ReportSet
<1>2. [tro |-> t.tro, id |-> t.id, n |-> t.n] \in disclosed
  BY <1>1 DEF OriginInv, ReportsInv
<1>3. [to |-> t.tro, id |-> t.id] \in started
  BY <1>2 DEF OriginInv, DisclosedInv
<1> QED
  BY <1>1, <1>2, <1>3 DEF OriginInv, StartedInv, StartedFor

(* Whatever ids collide, a bank reads about a citizen that it named in a   *)
(* request which got this id (createTransactionReport, getReportStatus).   *)
THEOREM ReportsNameTheMeant == Spec => []ReportIsOfNamedTro
<1>1. BaseInv /\ OriginInv => ReportIsOfNamedTro
  <2> SUFFICES ASSUME BaseInv, OriginInv, NEW r \in Requests, Answered(r),
                      NEW t \in ReportRows(ask[r].pair.fsp, reportId[r])
               PROVE  \E q \in Requests : /\ reportId[q] = reportId[r]
                                          /\ ask[q].pair.fsp = ask[r].pair.fsp
                                          /\ ask[q].pair.tro = t.tro
    BY DEF ReportIsOfNamedTro
  <2>1. t \in saved /\ t.id = reportId[r]
    BY DEF ReportRows
  <2>2. PICK q \in Requests : /\ ask[q] # Null /\ reportId[q] = t.id
                             /\ ask[q].pair.tro = t.tro /\ ask[q].pair.fspId = t.id.fspId
    BY <2>1, SavedOrigin
  <2>3. ask[r] \in AskRecords /\ reportId[r].fspId = ask[r].pair.fspId
    BY DEF Answered, BaseInv, RequestInv, RequestOK
  <2>4. ask[q] \in AskRecords
    BY <2>2 DEF BaseInv, TypeOK
  <2>5. ask[q].pair.fsp = ask[r].pair.fsp
    BY <2>1, <2>2, <2>3, <2>4, ReportConstants DEF AskRecords
  <2> QED
    BY <2>1, <2>2, <2>5
<1> QED
  BY <1>1, OriginInvariant, PTL

-----------------------------------------------------------------------------
(* Revocation.                                                             *)

Proved == {"startTro", "startFsp"}

(* What is known of request r once c's grant was revoked before r asked    *)
(* for it.                                                                 *)
Blocked(r, c) ==
  /\ c \notin holds
  /\ pc[r] = "proveTro" => conn[r].fsp # c
  /\ pc[r] \in Proved => c \notin {conn[r].fsp, conn[r].tro}

Kept(r) == pc'[r] = pc[r] /\ (InFlight(r) => conn'[r] = conn[r])

LEMMA HoldsShrinks ==
  ASSUME [Next]_vars
  PROVE  \A c \in holds' : c \in holds
<1>1. ASSUME NEW r \in Requests,
             CreateTransactionReport(r) \/ Fault(r) \/ \E p \in Pairs : Create(r, p)
      PROVE  holds' = holds
  BY <1>1 DEF CreateTransactionReport, FindConn, ProveFsp, ProveTro, ProveCredential, StartTro,
     StartFsp, Fault, Create, world
<1>2. ASSUME NEW s \in Slots, Deliver(s) \/ Respond(s) \/ HandlerFault(s)
      PROVE  holds' = holds
  BY <1>2 DEF Deliver, Respond, FindRec, SendReport, HandlerFault, world
<1> QED
  BY <1>1, <1>2 DEF Next, TroAccepts, TroReports, FspSave, Tick, SavePair, Revoke, Crash, world, vars

(* A step leaves a request alone, ends it, asks it, or is a step of its    *)
(* own.                                                                    *)
LEMMA RequestSources ==
  ASSUME BaseInv, NEW r \in Requests, [Next]_vars
  PROVE  \/ Kept(r)
         \/ pc'[r] = "failed"
         \/ \E p \in Pairs : Create(r, p)
         \/ CreateTransactionReport(r) /\ ~Fail(r)
<1>1. ASSUME NEW q \in Requests, q # r, Fail(q) PROVE Kept(r)
  BY <1>1 DEF Fail, Goto, Kept, BaseInv, TypeOK
<1>2. ASSUME NEW q \in Requests, q # r, CreateTransactionReport(q) PROVE Kept(r)
  <2>1. CASE FindConn(q)
    BY <1>1, <1>2, <2>1 DEF FindConn, Goto, Kept, BaseInv, TypeOK
  <2>2. CASE ProveFsp(q) \/ ProveTro(q)
    BY <1>1, <1>2, <2>2 DEF ProveFsp, ProveTro, ProveCredential, Goto, Kept, BaseInv, TypeOK
  <2>3. CASE StartTro(q) \/ StartFsp(q)
    BY <1>2, <2>3 DEF StartTro, StartFsp, Goto, Kept, BaseInv, TypeOK
  <2> QED
    BY <1>2, <2>1, <2>2, <2>3 DEF CreateTransactionReport
<1>3. ASSUME Fail(r) PROVE pc'[r] = "failed"
  BY <1>3 DEF Fail, Goto, BaseInv, TypeOK
<1>4. ASSUME NEW q \in Requests, NEW p \in Pairs, Create(q, p), q # r PROVE Kept(r)
  BY <1>4 DEF Create, Goto, Kept, BaseInv, TypeOK
<1>5. ASSUME NEW q \in Requests, Fault(q) PROVE Kept(r) \/ pc'[r] = "failed"
  BY <1>1, <1>3, <1>5 DEF Fault
<1>6. ASSUME NEW s \in Slots, Deliver(s) \/ Respond(s) \/ HandlerFault(s) PROVE Kept(r)
  BY <1>6 DEF Deliver, Respond, FindRec, SendReport, HandlerFault, requests, Kept
<1>7. CASE Crash
  BY <1>7 DEF Crash, Kept, BaseInv, TypeOK
<1>8. CASE \/ \E t \in Tros : TroAccepts(t)
           \/ \E m \in started : TroReports(m)
           \/ \E m \in reports : FspSave(m)
           \/ Tick
           \/ \E p \in Pairs \ paired : SavePair(p)
           \/ \E c \in holds : Revoke(c)
           \/ UNCHANGED vars
  BY <1>8 DEF TroAccepts, TroReports, FspSave, Tick, SavePair, Revoke, requests, vars, Kept
<1> QED
  BY <1>2, <1>3, <1>4, <1>5, <1>6, <1>7, <1>8 DEF Next

LEMMA BlockedStep ==
  ASSUME BaseInv, NEW r \in Requests, NEW c, Blocked(r, c), [Next]_vars
  PROVE  Blocked(r, c)'
<1>1. c \notin holds'
  BY HoldsShrinks DEF Blocked
<1>2. CASE Kept(r)
  BY <1>1, <1>2 DEF Kept, Blocked, InFlight, Proved
<1>3. CASE pc'[r] = "failed"
  BY <1>1, <1>3 DEF Blocked, Proved
<1>4. ASSUME NEW p \in Pairs, Create(r, p) PROVE Blocked(r, c)'
  BY <1>1, <1>4 DEF Create, Goto, Blocked, Proved, BaseInv, TypeOK
<1>5. CASE CreateTransactionReport(r) /\ ~Fail(r)
  <2>1. CASE FindConn(r)
    BY <1>1, <1>5, <2>1 DEF FindConn, Goto, Blocked, Proved, BaseInv, TypeOK
  <2>2. CASE ProveFsp(r)
    BY <1>1, <1>5, <2>2 DEF ProveFsp, ProveCredential, Goto, Blocked, Proved, BaseInv, TypeOK
  <2>3. CASE ProveTro(r)
    BY <1>1, <1>5, <2>3 DEF ProveTro, ProveCredential, Goto, Blocked, Proved, BaseInv, TypeOK
  <2>4. CASE StartTro(r) \/ StartFsp(r)
    BY <1>1, <2>4 DEF StartTro, StartFsp, Goto, Blocked, Proved, BaseInv, TypeOK
  <2> QED
    BY <1>5, <2>1, <2>2, <2>3, <2>4 DEF CreateTransactionReport
<1> QED
  BY <1>2, <1>3, <1>4, <1>5, RequestSources

(* Once a grant is revoked, no request that has yet to ask for it starts a *)
(* report on it (createTransactionReport, steps 1 and 2).                  *)
THEOREM RevocationStops == Spec => RevokedStopsReports
<1>1. ASSUME NEW r \in Requests, NEW c \in Fsps \cup Tros
      PROVE  Spec => [](c \notin holds /\ ProofAhead(r, c) =>
                          [](pc[r] \in {"startTro", "startFsp"} => c \notin {conn[r].fsp, conn[r].tro}))
  <2>1. BaseInv /\ c \notin holds /\ ProofAhead(r, c) => Blocked(r, c)
    BY InHand, ReportConstants DEF ProofAhead, Blocked, Proved, Bound, Fsps, Tros
  <2>2. BaseInv /\ Blocked(r, c) /\ [Next]_vars => Blocked(r, c)'
    BY BlockedStep
  <2>3. Blocked(r, c) => (pc[r] \in {"startTro", "startFsp"} => c \notin {conn[r].fsp, conn[r].tro})
    BY DEF Blocked, Proved
  <2> QED
    BY <2>1, <2>2, <2>3, BaseInvariant, PTL DEF Spec
<1> QED
  BY <1>1 DEF RevokedStopsReports

-----------------------------------------------------------------------------
(* Freshness.  An id is of one millisecond: whoever discloses under it     *)
(* does so in that millisecond or later, with all that was accepted before *)
(* that millisecond, and so before any request that got the id.            *)

Known(r) == ask[r] # Null => ask[r].seen <= before[ask[r].pair.tro]

Enough(r, d) ==
  (reportId[r] # Null /\ d.id = reportId[r] /\ d.tro = ask[r].pair.tro) => ask[r].seen <= d.n

FreshInv ==
  /\ \A t \in Tros : before[t] <= history[t]
  /\ \A r \in Requests : Known(r)
  /\ \A d \in disclosed : d.id.at = now => before[d.tro] <= d.n
  /\ \A r \in Requests, d \in disclosed : Enough(r, d)

(* The steps that touch what FreshInv speaks of.                           *)
LEMMA FreshChanges ==
  ASSUME [Next]_vars
  PROVE  \/ UNCHANGED <<now, history, before, ask, reportId, disclosed>>
         \/ \E r \in Requests, p \in Pairs : Create(r, p)
         \/ \E r \in Requests : StartTro(r)
         \/ \E t \in Tros : TroAccepts(t)
         \/ \E m \in started : TroReports(m)
         \/ Tick
<1> USE DEF world, messages, requests
<1>1. ASSUME NEW r \in Requests, FindConn(r) \/ ProveFsp(r) \/ ProveTro(r) \/ StartFsp(r) \/ Fault(r)
      PROVE  UNCHANGED <<now, history, before, ask, reportId, disclosed>>
  BY <1>1 DEF FindConn, ProveFsp, ProveTro, ProveCredential, StartFsp, Fault, Fail
<1>2. ASSUME NEW s \in Slots, Deliver(s) \/ Respond(s) \/ HandlerFault(s)
      PROVE  UNCHANGED <<now, history, before, ask, reportId, disclosed>>
  BY <1>2 DEF Deliver, Respond, FindRec, SendReport, HandlerFault
<1>3. ASSUME \/ \E m \in reports : FspSave(m)
             \/ \E p \in Pairs \ paired : SavePair(p)
             \/ \E c \in holds : Revoke(c)
             \/ Crash
             \/ UNCHANGED vars
      PROVE  UNCHANGED <<now, history, before, ask, reportId, disclosed>>
  BY <1>3 DEF FspSave, SavePair, Revoke, Crash, vars
<1> QED
  BY <1>1, <1>2, <1>3 DEF Next, CreateTransactionReport

LEMMA AskedNumbers ==
  ASSUME BaseInv, NEW r \in Requests, ask[r] # Null
  PROVE  ask[r].seen \in Nat /\ ask[r].pair.tro \in Tros
  BY ReportConstants DEF BaseInv, TypeOK, AskRecords, Lengths, Tros

LEMMA FreshStep ==
  ASSUME BaseInv, OriginInv, FreshInv, [Next]_vars
  PROVE  FreshInv'
<1>1. \A t \in Tros : history[t] \in Nat /\ before[t] \in Nat
  BY Numbers DEF BaseInv
<1>2. \A d \in disclosed : d.tro \in Tros /\ d.n \in Nat /\ d.id.at \in Nat /\ d.id.at <= now
  BY Numbers DEF BaseInv, TypeOK, OriginInv, DisclosedInv, StartedInv, StartedFor
<1>3. now \in Nat
  BY Numbers DEF BaseInv
<1>4. CASE UNCHANGED <<now, history, before, ask, reportId, disclosed>>
  BY <1>4 DEF FreshInv, Known, Enough
<1>5. ASSUME NEW r \in Requests, NEW p \in Pairs, Create(r, p) PROVE FreshInv'
  <2>1. \A q \in Requests \ {r} : ask'[q] = ask[q]
    BY <1>5 DEF Create, BaseInv, TypeOK
  <2>2. ask'[r].pair = p /\ ask'[r].seen = before[p.tro] /\ reportId[r] = Null
        /\ p.tro \in Tros
    BY <1>5 DEF Create, BaseInv, TypeOK, RequestInv, RequestOK, Tros
  <2>3. UNCHANGED <<now, history, before, reportId, disclosed>>
    BY <1>5 DEF Create, world, messages
  <2>4. \A q \in Requests : Known(q)'
    BY <1>1, <2>1, <2>2, <2>3 DEF Known, FreshInv
  <2>5. \A q \in Requests, d \in disclosed : Enough(q, d)'
    BY <2>1, <2>2, <2>3 DEF Enough, FreshInv
  <2> QED
    BY <2>3, <2>4, <2>5 DEF FreshInv
<1>6. ASSUME NEW r \in Requests, StartTro(r) PROVE FreshInv'
  <2>1. reportId'[r] = NewId(r) /\ \A q \in Requests \ {r} : reportId'[q] = reportId[q]
    BY <1>6 DEF StartTro, BaseInv, TypeOK
  <2>2. UNCHANGED <<now, history, before, ask, disclosed>>
    BY <1>6 DEF StartTro, world
  <2>3. NewId(r).at = now /\ ask[r] # Null
    BY <1>6, InHand, ReportConstants DEF StartTro, Bound
  <2>4. \A d \in disclosed : Enough(r, d)'
    <3> SUFFICES ASSUME NEW d \in disclosed, d.id = NewId(r), d.tro = ask[r].pair.tro
                 PROVE  ask[r].seen <= d.n
      BY <2>1, <2>2 DEF Enough
    <3>1. ask[r].seen <= before[d.tro]
      BY <2>3 DEF FreshInv, Known
    <3>2. before[d.tro] <= d.n
      BY <2>3 DEF FreshInv
    <3> QED
      BY <1>1, <1>2, <2>3, <3>1, <3>2, AskedNumbers
  <2>5. \A q \in Requests \ {r}, d \in disclosed : Enough(q, d)'
    BY <2>1, <2>2 DEF Enough, FreshInv
  <2> QED
    BY <2>2, <2>4, <2>5 DEF FreshInv, Known
<1>7. ASSUME NEW t \in Tros, TroAccepts(t) PROVE FreshInv'
  <2>1. UNCHANGED <<now, before, ask, reportId, disclosed>>
    BY <1>7 DEF TroAccepts, messages, requests
  <2>2. \A u \in Tros : before[u] <= history'[u]
    BY <1>1, <1>7 DEF TroAccepts, FreshInv, BaseInv, TypeOK
  <2> QED
    BY <2>1, <2>2 DEF FreshInv, Known, Enough
<1>8. ASSUME NEW m \in started, TroReports(m) PROVE FreshInv'
  <2> DEFINE new == [tro |-> m.to, id |-> m.id, n |-> history[m.to]]
  <2>1. disclosed' = disclosed \cup {new} /\ m.to \in Tros
        /\ UNCHANGED <<now, history, before, ask, reportId>>
    BY <1>8 DEF TroReports, world, requests
  <2>2. before[m.to] <= history[m.to]
    BY <2>1 DEF FreshInv
  <2>3. \A r \in Requests : Enough(r, new)
    <3> SUFFICES ASSUME NEW r \in Requests, reportId[r] # Null, m.to = ask[r].pair.tro
                 PROVE  ask[r].seen <= history[m.to]
      BY DEF Enough
    <3>1. ask[r] # Null
      BY ReportConstants DEF BaseInv, RequestInv, RequestOK
    <3>2. ask[r].seen <= before[m.to]
      BY <3>1 DEF FreshInv, Known
    <3> QED
      BY <1>1, <2>1, <2>2, <3>1, <3>2, AskedNumbers
  <2> QED
    BY <2>1, <2>2, <2>3 DEF FreshInv, Known, Enough
<1>9. ASSUME Tick PROVE FreshInv'
  <2>1. now' = now + 1 /\ before' = history /\ UNCHANGED <<history, ask, reportId, disclosed>>
    BY <1>9 DEF Tick, messages, requests
  <2>2. \A r \in Requests : Known(r)'
    <3> SUFFICES ASSUME NEW r \in Requests, ask[r] # Null
                 PROVE  ask[r].seen <= history[ask[r].pair.tro]
      BY <2>1 DEF Known
    <3>1. ask[r].seen <= before[ask[r].pair.tro] /\ ask[r].pair.tro \in Tros
      BY AskedNumbers DEF FreshInv, Known
    <3>2. before[ask[r].pair.tro] <= history[ask[r].pair.tro]
      BY <3>1 DEF FreshInv
    <3> QED
      BY <1>1, <3>1, <3>2, AskedNumbers
  <2>3. \A d \in disclosed : d.id.at # now'
    BY <1>2, <1>3, <2>1
  <2>4. \A t \in Tros : before'[t] <= history'[t]
    BY <1>1, <2>1
  <2> QED
    BY <2>1, <2>2, <2>3, <2>4 DEF FreshInv, Enough
<1> QED
  BY <1>4, <1>5, <1>6, <1>7, <1>8, <1>9, FreshChanges

(* A report holds all that was accepted before the millisecond of the      *)
(* request.                                                                *)
THEOREM ReportsAreFresh == Spec => []ReportIsFresh
<1>1. Init => FreshInv
  <2> SUFFICES ASSUME Init PROVE FreshInv
    OBVIOUS
  <2>1. \A t \in Tros : before[t] <= history[t]
    BY DEF Init
  <2> QED
    BY <2>1 DEF Init, FreshInv, Known, Enough
<1>2. (BaseInv /\ OriginInv) /\ FreshInv /\ [Next]_vars => FreshInv'
  BY FreshStep
<1>3. (BaseInv /\ OriginInv) /\ FreshInv => ReportIsFresh
  <2> SUFFICES ASSUME BaseInv, OriginInv, FreshInv, NEW r \in Requests, Answered(r),
                      NEW t \in ReportRows(ask[r].pair.fsp, reportId[r]), t.tro = ask[r].pair.tro
               PROVE  ask[r].seen <= t.n
    BY DEF ReportIsFresh
  <2> DEFINE d == [tro |-> t.tro, id |-> t.id, n |-> t.n]
  <2>1. t \in saved /\ t.id = reportId[r]
    BY DEF ReportRows
  <2>2. reportId[r] # Null
    BY ReportConstants DEF Answered, BaseInv, RequestInv, RequestOK
  <2>3. d \in disclosed
    BY <2>1, SavedOrigin
  <2>4. Enough(r, d)
    BY <2>3 DEF FreshInv
  <2> QED
    BY <2>1, <2>2, <2>4 DEF Enough
<1> QED
  BY <1>1, <1>2, <1>3, OriginInvariant, PTL DEF Spec

-----------------------------------------------------------------------------
(* TransactionReports implements ReportLedger.                             *)

(* Telling the citizen of the row found opens the report for its bank.     *)
LEMMA OpenedByStartTro ==
  ASSUME BaseInv, NEW r \in Requests, StartTro(r)
  PROVE  Opened' = Opened \cup {[fsp |-> conn[r].fsp, tro |-> conn[r].tro, id |-> NewId(r)]}
<1> DEFINE o == [fsp |-> conn[r].fsp, tro |-> conn[r].tro, id |-> NewId(r)]
           m == [to |-> conn[r].tro, id |-> NewId(r)]
           all == [fsp : Fsps, tro : Tros, id : ReportIds]
<1>1. started' = started \cup {m} /\ pc[r] \in Bound
  BY DEF StartTro, Bound
<1>2. o \in all /\ conn[r] \in Pairs /\ conn[r].fspId = o.id.fspId
  BY <1>1, InHand
<1>3. ASSUME NEW x \in all, [to |-> x.tro, id |-> x.id] = m,
             NEW p \in Pairs, p.fsp = x.fsp, p.tro = x.tro, p.fspId = x.id.fspId
      PROVE  x = o
  BY <1>2, <1>3, ReportConstants
<1>4. ASSUME NEW x \in all PROVE x \in Opened' <=> x \in Opened \/ x = o
  BY <1>1, <1>2, <1>3 DEF Opened
<1>5. Opened \subseteq all /\ Opened' \subseteq all
  BY DEF Opened
<1> QED
  BY <1>2, <1>4, <1>5

LEMMA OpenedOtherwise ==
  ASSUME BaseInv, started' = started \/ \E r \in Requests : StartFsp(r)
  PROVE  Opened' = Opened
<1>1. ASSUME NEW r \in Requests, StartFsp(r) PROVE Opened' = Opened
  <2>1. started' = started \cup {[to |-> conn[r].fsp, id |-> reportId[r]]} /\ conn[r].fsp \in Fsps
    BY <1>1, InHand DEF StartFsp, Bound
  <2>2. conn[r].fsp \notin Tros
    BY <2>1, ReportConstants
  <2> QED
    BY <2>1, <2>2 DEF Opened
<1> QED
  BY <1>1 DEF Opened

(* What was disclosed had been opened, for every bank of the id.           *)
LEMMA DisclosedWasOpened ==
  ASSUME BaseInv, OriginInv, NEW p \in Pairs, NEW i \in ReportIds, p.fspId = i.fspId,
         [to |-> p.tro, id |-> i] \in started
  PROVE  [fsp |-> p.fsp, tro |-> p.tro, id |-> i] \in Opened
  BY DEF Opened, Fsps, Tros

LEMMA ReceivedBySave ==
  ASSUME NEW m, saved' = saved \cup {m}
  PROVE  Received' = Received \cup {[fsp |-> m.fsp, tro |-> m.tro, id |-> m.id, n |-> m.n]}
  BY DEF Received

LEMMA SavedUnchanged ==
  ASSUME BaseInv, [Next]_vars
  PROVE  saved' = saved \/ \E m \in reports : FspSave(m)
<1>1. ASSUME NEW r \in Requests,
             CreateTransactionReport(r) \/ Fault(r) \/ \E p \in Pairs : Create(r, p)
      PROVE  saved' = saved
  BY <1>1 DEF CreateTransactionReport, FindConn, ProveFsp, ProveTro, ProveCredential, StartTro,
     StartFsp, Fault, Create
<1>2. ASSUME NEW s \in Slots, Deliver(s) \/ Respond(s) \/ HandlerFault(s)
      PROVE  saved' = saved
  BY <1>2 DEF Deliver, Respond, FindRec, SendReport, HandlerFault
<1> QED
  BY <1>1, <1>2 DEF Next, TroAccepts, TroReports, Tick, SavePair, Revoke, Crash, vars

THEOREM Refinement == Spec => ImplementsReports
<1>1. Init => Reporting!ReportInit
  BY DEF Init, Reporting!ReportInit, Opened, Received
<1>2. (BaseInv /\ OriginInv) /\ [Next]_vars => [Reporting!ReportNext]_(Reporting!reportVars)
  <2> SUFFICES ASSUME BaseInv, OriginInv, [Next]_vars, ~UNCHANGED Reporting!reportVars
               PROVE  Reporting!ReportNext
    OBVIOUS
  <2> USE DEF Reporting!reportVars
  <2>1. ASSUME NEW r \in Requests, StartTro(r) PROVE Reporting!ReportNext
    <3>1. conn[r] \in Pairs /\ NewId(r) \in ReportIds
      BY <2>1, InHand DEF StartTro, Bound
    <3>2. Reporting!Open(conn[r], NewId(r))
      BY <2>1, OpenedByStartTro DEF StartTro, Reporting!Open, Received
    <3> QED
      BY <3>1, <3>2 DEF Reporting!ReportNext
  <2>2. ASSUME NEW m \in started, TroReports(m) PROVE Reporting!ReportNext
    <3>1. PICK p \in paired : p.tro = m.to /\ p.fspId = m.id.fspId
      BY <2>2 DEF TroReports, OriginInv, StartedInv, StartedFor
    <3>2. p \in Pairs /\ m.id \in ReportIds /\ history[p.tro] \in Lengths
          /\ [to |-> p.tro, id |-> m.id] \in started
      BY <2>2, <3>1 DEF TroReports, BaseInv, TypeOK
    <3>3. Opened' = Opened /\ Received' = Received
      BY <2>2, OpenedOtherwise DEF TroReports, Received
    <3>4. Reporting!Disclose(p, m.id, history[p.tro])
      BY <2>2, <3>1, <3>2, <3>3, DisclosedWasOpened DEF TroReports, Reporting!Disclose
    <3> QED
      BY <3>2, <3>4 DEF Reporting!ReportNext
  <2>3. ASSUME NEW m \in reports, FspSave(m) PROVE Reporting!ReportNext
    <3>1. [tro |-> m.tro, id |-> m.id, n |-> m.n] \in disclosed
          /\ [to |-> m.tro, id |-> m.id] \in started
      BY DEF OriginInv, ReportsInv, DisclosedInv
    <3>2. m.tro \in Tros /\ m.id \in ReportIds /\ m.n \in Lengths
      BY DEF BaseInv, TypeOK, ReportSet
    <3>3. PICK p \in paired : p.tro = m.tro /\ p.fspId = m.id.fspId
      BY <3>1, <3>2 DEF OriginInv, StartedInv, StartedFor
    <3>4. p \in Pairs /\ p.fsp = m.fsp
      <4>1. PICK q \in paired : q.fsp = m.fsp /\ q.fspId = m.id.fspId
        BY DEF OriginInv, ReportsInv
      <4>2. p \in Pairs /\ q \in Pairs
        BY DEF BaseInv, TypeOK
      <4> QED
        BY <3>3, <4>1, <4>2, ReportConstants
    <3>5. Opened' = Opened /\ UNCHANGED disclosed
      BY <2>3, OpenedOtherwise DEF FspSave, messages
    <3>6. Received' = Received \cup {[fsp |-> p.fsp, tro |-> p.tro, id |-> m.id, n |-> m.n]}
      BY <2>3, <3>3, <3>4, ReceivedBySave DEF FspSave
    <3>7. Reporting!Receive(p, m.id, m.n)
      BY <3>1, <3>2, <3>3, <3>4, <3>5, <3>6, DisclosedWasOpened DEF Reporting!Receive
    <3> QED
      BY <3>2, <3>4, <3>7 DEF Reporting!ReportNext
  <2>4. CASE started' = started \/ \E r \in Requests : StartFsp(r)
    <3>1. Opened' = Opened
      BY <2>4, OpenedOtherwise
    <3>2. saved' # saved \/ disclosed' # disclosed
      BY <3>1 DEF Received
    <3> QED
      BY <2>2, <2>3, <3>2, Additions, SavedUnchanged
  <2> QED
    BY <2>1, <2>4, Additions
<1> QED
  BY <1>1, <1>2, OriginInvariant, PTL DEF Spec, ImplementsReports, Reporting!ReportSpec

-----------------------------------------------------------------------------
(* The loop of respond, for a history of any length.  The provers have no  *)
(* induction principle of their own; a least counterexample serves.        *)

Below == {p \in Nat \X Nat : p[1] < p[2]}

LEMMA BelowIsWellFounded == IsWellFoundedOn(Below, Nat)
<1>1. Below = OpToRel(<, Nat)
  BY DEF Below, OpToRel
<1> QED
  BY <1>1, NatLessThanWellFounded

LEMMA LeastNumber ==
  ASSUME NEW T \in SUBSET Nat, T # {}
  PROVE  \E n \in T : \A m \in T : n <= m
<1>1. PICK n \in T : \A m \in T : <<m, n>> \notin Below
  BY BelowIsWellFounded, WFMin
<1>2. ASSUME NEW m \in T PROVE n <= m
  <2>1. m \in Nat /\ n \in Nat
    OBVIOUS
  <2>2. m < n => <<m, n>> \in Below
    BY <2>1 DEF Below
  <2> QED
    BY <1>1, <2>1, <2>2
<1> QED
  BY <1>2

(* The item of the kth transaction of t, and the loop's state after k.     *)
HashBefore(t, k) == IF k = 1 THEN NoHash ELSE TxRecord(t, k - 1).hash

Item(t, k) ==
  [previousHash |-> HashBefore(t, k), hash |-> TxRecord(t, k).hash,
   reHash |-> <<k, TxRecord(t, k).hash, HashBefore(t, k)>>]

Start == [included |-> <<>>, previousHash |-> NoHash]

Turn(t, k, done) ==
  [included |-> Append(done.included,
                  [previousHash |-> done.previousHash, hash |-> TxRecord(t, k).hash,
                   reHash |-> <<TxRecord(t, k).order, TxRecord(t, k).hash, done.previousHash>>]),
   previousHash |-> TxRecord(t, k).hash]

After(t, k) ==
  [included |-> [j \in 1 .. k |-> Item(t, j)], previousHash |-> HashBefore(t, k + 1)]

IsLoop(f, t, n) == f = [k \in 0 .. n |-> IF k = 0 THEN Start ELSE Turn(t, k, f[k - 1])]

LEMMA ItemsIsLoop ==
  ASSUME NEW t, NEW n
  PROVE  Items(t, n) = (CHOOSE f : IsLoop(f, t, n))[n].included
  BY DEF Items, IsLoop, Start, Turn, TxRecord

LEMMA TurnGoesOn ==
  ASSUME NEW t, NEW k \in Nat \ {0}
  PROVE  Turn(t, k, After(t, k - 1)) = After(t, k)
<1> DEFINE s == [j \in 1 .. (k - 1) |-> Item(t, j)]
           S == {Item(t, j) : j \in 1 .. k}
<1>1. s \in Seq(S) /\ Len(s) = k - 1 /\ Item(t, k) \in S
  OBVIOUS
<1>2. Append(s, Item(t, k)) = [j \in 1 .. k |-> Item(t, j)]
  <2>1. /\ Append(s, Item(t, k)) \in Seq(S) /\ Len(Append(s, Item(t, k))) = k
        /\ \A j \in 1 .. k : Append(s, Item(t, k))[j] = IF j = k THEN Item(t, k) ELSE s[j]
    BY <1>1
  <2>2. Append(s, Item(t, k)) = [j \in 1 .. k |-> Append(s, Item(t, k))[j]]
    BY <2>1
  <2>3. \A j \in 1 .. k : Append(s, Item(t, k))[j] = Item(t, j)
    BY <2>1
  <2> QED
    BY <2>2, <2>3
<1>3. /\ After(t, k - 1).included = s
      /\ After(t, k - 1).previousHash = HashBefore(t, k)
  BY DEF After
<1>4. HashBefore(t, k + 1) = TxRecord(t, k).hash /\ TxRecord(t, k).order = k
  BY DEF HashBefore, TxRecord
<1> QED
  BY <1>2, <1>3, <1>4 DEF Turn, After, Item

LEMMA NothingBefore ==
  ASSUME NEW t
  PROVE  After(t, 0) = Start
<1>1. [j \in 1 .. 0 |-> Item(t, j)] = <<>>
  OBVIOUS
<1>2. HashBefore(t, 0 + 1) = NoHash
  BY DEF HashBefore
<1> QED
  BY <1>1, <1>2 DEF After, Start

LEMMA LoopExists ==
  ASSUME NEW t, NEW n \in Nat
  PROVE  IsLoop([k \in 0 .. n |-> After(t, k)], t, n)
<1> DEFINE f == [k \in 0 .. n |-> After(t, k)]
<1>1. ASSUME NEW k \in 0 .. n, k # 0 PROVE f[k] = Turn(t, k, f[k - 1])
  BY <1>1, TurnGoesOn
<1>2. f[0] = Start
  BY NothingBefore
<1> QED
  BY <1>1, <1>2 DEF IsLoop

LEMMA LoopIsUnique ==
  ASSUME NEW t, NEW n \in Nat, NEW f, IsLoop(f, t, n)
  PROVE  \A k \in 0 .. n : f[k] = After(t, k)
<1> DEFINE T == {k \in 0 .. n : f[k] # After(t, k)}
<1> SUFFICES ASSUME T # {} PROVE FALSE
  OBVIOUS
<1>1. PICK k \in T : \A m \in T : k <= m
  <2>1. T \in SUBSET Nat
    OBVIOUS
  <2> HIDE DEF T
  <2> QED
    BY <2>1, LeastNumber
<1>2. CASE k = 0
  BY <1>2, NothingBefore DEF IsLoop
<1>3. CASE k # 0
  <2>1. k \in 0 .. n /\ k - 1 \in 0 .. n /\ ~(k <= k - 1)
    BY <1>3
  <2>2. f[k - 1] = After(t, k - 1)
    BY <1>1, <2>1
  <2>3. f[k] = Turn(t, k, f[k - 1])
    BY <1>3, <2>1 DEF IsLoop
  <2>4. k \in Nat \ {0}
    BY <1>3
  <2> QED
    BY <2>2, <2>3, <2>4, TurnGoesOn
<1> QED
  BY <1>2, <1>3

(* The list respond builds has one item per transaction, in order.         *)
LEMMA ItemsAre ==
  ASSUME NEW t, NEW n \in Nat
  PROVE  Items(t, n) = [j \in 1 .. n |-> Item(t, j)]
<1> DEFINE f == CHOOSE g : IsLoop(g, t, n)
<1>1. IsLoop(f, t, n)
  BY LoopExists
<1> HIDE DEF f
<1>2. f[n] = After(t, n)
  BY <1>1, LoopIsUnique
<1>3. f[n].included = [j \in 1 .. n |-> Item(t, j)]
  BY <1>2 DEF After
<1> QED
  BY <1>3, ItemsIsLoop DEF f

(* The items of a saved report cover its transactions in one hash chain.   *)
THEOREM ItemsAreChained == Spec => []ItemsChainTheReport
<1>1. BaseInv /\ OriginInv => ItemsChainTheReport
  <2> SUFFICES ASSUME BaseInv, OriginInv, NEW m \in saved
               PROVE  /\ Len(m.items) = m.n
                      /\ \A k \in 1 .. m.n :
                           LET prev == IF k = 1 THEN NoHash ELSE m.items[k - 1].hash
                           IN  m.items[k] = [previousHash |-> prev, hash |-> TxRecord(m.tro, k).hash,
                                             reHash |-> <<k, TxRecord(m.tro, k).hash, prev>>]
    BY DEF ItemsChainTheReport
  <2>0. m \in reports /\ m \in ReportSet
    BY DEF BaseInv, TypeOK
  <2>1. m.items = Items(m.tro, m.n) /\ m.n \in Nat
    <3>1. m.n \in Lengths
      BY <2>0 DEF ReportSet
    <3>2. m.n \in Nat
      BY <3>1 DEF Lengths
    <3>3. m.items = Items(m.tro, m.n)
      BY <2>0 DEF OriginInv, ReportsInv
    <3> QED
      BY <3>2, <3>3
  <2>2. m.items = [j \in 1 .. m.n |-> Item(m.tro, j)]
    BY <2>1, ItemsAre
  <2>3. Len(m.items) = m.n
    BY <2>1, <2>2
  <2>4. ASSUME NEW k \in 1 .. m.n
        PROVE  HashBefore(m.tro, k) = IF k = 1 THEN NoHash ELSE m.items[k - 1].hash
    BY <2>1, <2>2 DEF HashBefore, Item
  <2>5. ASSUME NEW k \in 1 .. m.n
        PROVE  LET prev == IF k = 1 THEN NoHash ELSE m.items[k - 1].hash
               IN  m.items[k] = [previousHash |-> prev, hash |-> TxRecord(m.tro, k).hash,
                                 reHash |-> <<k, TxRecord(m.tro, k).hash, prev>>]
    <3> DEFINE prev == IF k = 1 THEN NoHash ELSE m.items[k - 1].hash
    <3>1. m.items[k] = Item(m.tro, k)
      BY <2>2
    <3>2. prev = HashBefore(m.tro, k)
      BY <2>4
    <3> HIDE DEF prev
    <3>3. m.items[k] = [previousHash |-> prev, hash |-> TxRecord(m.tro, k).hash,
                        reHash |-> <<k, TxRecord(m.tro, k).hash, prev>>]
      BY <3>1, <3>2 DEF Item
    <3> QED
      BY <3>3 DEF prev
  <2> QED
    BY <2>3, <2>5
<1> QED
  BY <1>1, OriginInvariant, PTL
=============================================================================
