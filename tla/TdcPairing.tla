------------------------------ MODULE TdcPairing ------------------------------
(***************************************************************************)
(* The TDC's pairing of a bank (FSP) with a citizen (TRO) over a one-time  *)
(* key: FspService.registerOneTimeKey, RegisterService.registerOneTimeKey, *)
(* TransactionsService.issueGrantCredentials and getConnectionIds, the     *)
(* one_time_key and fsp_tro_connection tables and the typeorm saves into   *)
(* them.                                                                   *)
(*                                                                         *)
(* The controllers run every HTTP request as one async function.  Requests *)
(* interleave at each await, so a step of the model is what one request    *)
(* does from one await to the next; pc[r] names the await it is about to   *)
(* return from.  The process may stop between two steps: the in-memory     *)
(* state goes, the tables stay.                                            *)
(***************************************************************************)
EXTENDS FiniteSets

CONSTANTS
  Keys,        \* one-time keys
  Conns,       \* connection ids of the TDC's agent
  Holders,     \* [Sides -> SUBSET Conns]: who holds credit-<side>-auth-Id
  Hash,        \* SecurityUtility.hash32 and substr on connection ids
  Requests,    \* the HTTP requests of a behaviour, each used once
  Ops,         \* the endpoints the clients call
  Serial,      \* whether clients send one request at a time
  Faulty,      \* requests whose external calls may fail
  MayCrash,    \* whether the process may stop and restart
  Null,        \* SQL NULL, an absent row, no value
  Undefined    \* a column an entity object never had assigned

Sides    == {"fsp", "tro"}
QueryOps == {"ids", "ids/tro"}
AllOps   == Sides \cup QueryOps \cup {"issueGrantCreds"}

Columns  == Conns \cup {Null}
(* A one_time_key row: the two connection columns and sent.  expires_at    *)
(* and delete_at are never read.                                           *)
OneTimeKeyRow == [conn : [Sides -> Columns], sent : BOOLEAN]
(* An OneTimeKey object in memory: a column may also be undefined.         *)
OneTimeKeyEntity == [conn : [Sides -> Columns \cup {Undefined}], sent : BOOLEAN]

Calls == [op : Sides, conn : Conns, key : Keys]
           \cup [op : AllOps \ Sides, conn : {Null}, key : Keys]

ASSUME PairingConstants ==
  /\ Holders \in [Sides -> SUBSET Conns]
  /\ Null \notin Conns /\ Undefined \notin Conns /\ Null # Undefined
  /\ Null \notin OneTimeKeyEntity /\ Null \notin Calls
  /\ Ops \subseteq AllOps
  /\ Faulty \subseteq Requests
  /\ Serial \in BOOLEAN /\ MayCrash \in BOOLEAN

VARIABLES
  oneTimeKey,        \* [Keys -> row or Null], the one_time_key table
  fspTroConnection,  \* the fsp_tro_connection rows, serial ids left out
  credentials,       \* [side, to, id]: grant credentials issued
  sent,              \* [to, state, key, ids]: grant basic messages sent
  registered,        \* history: [side, conn, key] a proven connection gave
  pc, call,          \* per request: next step, what was asked
  rec, snap,         \* per request: the entity, what save() loaded
  reply              \* per request: the answer

tables  == <<oneTimeKey, fspTroConnection>>
outputs == <<credentials, sent>>
local   == <<rec, snap>>
vars    == <<oneTimeKey, fspTroConnection, credentials, sent, registered,
             pc, call, rec, snap, reply>>

(* generateTdcTroId: the prefix of the side and the hash of the connection *)
(* id; nothing of the pairing itself goes into it.                         *)
Id(s, c) == <<s, Hash[c]>>

Ids == {Id(s, c) : s \in Sides, c \in Conns}

Pair(fn) == [conn |-> fn, id |-> [s \in Sides |-> Id(s, fn[s])]]

-----------------------------------------------------------------------------
(* typeorm's Repository.save: a SELECT by primary key, then an INSERT when *)
(* it found no row, or an UPDATE of the columns that are not undefined and *)
(* differ from what was selected.                                          *)

InsertedRow(e) ==
  [conn |-> [s \in Sides |-> IF e.conn[s] = Undefined THEN Null ELSE e.conn[s]],
   sent |-> e.sent]

(* Mutant: undefined columns are written too.                              *)
MutUpdateUndefined(e, loaded, current) ==
  [conn |-> [s \in Sides |-> IF e.conn[s] = loaded.conn[s]
                               THEN current.conn[s] ELSE e.conn[s]],
   sent |-> e.sent]

UpdatedRow(e, loaded, current) ==
  [conn |-> [s \in Sides |-> IF e.conn[s] \in {Undefined, loaded.conn[s]}
                               THEN current.conn[s] ELSE e.conn[s]],
   sent |-> IF e.sent = loaded.sent THEN current.sent ELSE e.sent]

-----------------------------------------------------------------------------
Registering == {"prove", "find", "saveLoad", "saveWrite", "msgStarted"}
Issuing     == {"issueTro", "issueFsp", "saveConn", "msgFsp", "msgTro"}

InFlight(r) == pc[r] \notin {"idle", "done"}

Goto(r, l) == pc' = [pc EXCEPT ![r] = l]

(* The request ends: its locals go out of scope, the answer stays.         *)
Finish(r, state, ids) ==
  /\ Goto(r, "done")
  /\ rec' = [rec EXCEPT ![r] = Null]
  /\ snap' = [snap EXCEPT ![r] = Null]
  /\ reply' = [reply EXCEPT ![r] = [state |-> state, ids |-> ids]]
  /\ UNCHANGED call

Throw(r) == Finish(r, "error", Null)

Init ==
  /\ oneTimeKey = [k \in Keys |-> Null]
  /\ fspTroConnection = {}
  /\ credentials = {}
  /\ sent = {}
  /\ registered = {}
  /\ pc = [r \in Requests |-> "idle"]
  /\ call = [r \in Requests |-> Null]
  /\ rec = [r \in Requests |-> Null]
  /\ snap = [r \in Requests |-> Null]
  /\ reply = [r \in Requests |-> Null]

(* The clients send one request at a time or any way they like, retries    *)
(* included.                                                               *)
MaySend == Serial => \A q \in Requests : ~InFlight(q)

FirstStep(op) == CASE op \in Sides -> "prove"
                   [] op = "issueGrantCreds" -> "grantFind"
                   [] OTHER -> "ids"

Arrive(r, c) ==
  /\ pc[r] = "idle"
  /\ c.op \in Ops
  /\ MaySend
  /\ call' = [call EXCEPT ![r] = c]
  /\ Goto(r, FirstStep(c.op))
  /\ UNCHANGED <<oneTimeKey, fspTroConnection, credentials, sent, registered, rec, snap, reply>>

-----------------------------------------------------------------------------
(* registerOneTimeKey, the FSP's and the TRO's.                            *)

(* Mutant: the result of the proof is not looked at.                       *)
MutProveIgnored(r) ==
  /\ pc[r] = "prove"
  /\ registered' = registered \cup
       {[side |-> call[r].op, conn |-> call[r].conn, key |-> call[r].key]}
  /\ Goto(r, "find")
  /\ UNCHANGED <<oneTimeKey, fspTroConnection, credentials, sent, call, rec, snap, reply>>

(* 1 - the connection proves its auth credential; a failed proof throws.   *)
Prove(r) ==
  /\ pc[r] = "prove"
  /\ \/ /\ call[r].conn \in Holders[call[r].op]
        /\ registered' = registered \cup
             {[side |-> call[r].op, conn |-> call[r].conn, key |-> call[r].key]}
        /\ Goto(r, "find")
        /\ UNCHANGED <<call, rec, snap, reply>>
     \/ /\ call[r].conn \notin Holders[call[r].op]
        /\ Throw(r)
        /\ UNCHANGED registered
  /\ UNCHANGED <<oneTimeKey, fspTroConnection, credentials, sent>>

(* Mutant: the connection is put in the other side's column.               *)
MutSwappedColumn(s, c) ==
  [conn |-> [t \in Sides |-> IF t = s THEN Undefined ELSE c], sent |-> FALSE]

(* Mutant: the other side's column is set to null.                         *)
MutForgetOther(row, s, c) ==
  [conn |-> [t \in Sides |-> IF t = s THEN c ELSE Null], sent |-> row.sent]

(* The new OneTimeKey object of the first side: the other is undefined.    *)
NewEntity(s, c) ==
  [conn |-> [t \in Sides |-> IF t = s THEN c ELSE Undefined], sent |-> FALSE]

WithConn(row, s, c) ==
  [conn |-> [t \in Sides |-> IF t = s THEN c ELSE row.conn[t]], sent |-> row.sent]

(* 2 - getOneTimeKeyRecord; the object to save is made before the next     *)
(* await.                                                                  *)
Find(r) ==
  /\ pc[r] = "find"
  /\ LET row == oneTimeKey[call[r].key]
     IN  rec' = [rec EXCEPT ![r] =
                   IF row = Null THEN NewEntity(call[r].op, call[r].conn)
                                 ELSE WithConn(row, call[r].op, call[r].conn)]
  /\ Goto(r, "saveLoad")
  /\ UNCHANGED <<oneTimeKey, fspTroConnection, credentials, sent, registered, call, snap, reply>>

SaveLoad(r) ==
  /\ pc[r] = "saveLoad"
  /\ snap' = [snap EXCEPT ![r] = oneTimeKey[call[r].key]]
  /\ Goto(r, "saveWrite")
  /\ UNCHANGED <<oneTimeKey, fspTroConnection, credentials, sent, registered, call, rec, reply>>

(* Mutants: the columns are not checked; the sent check is inverted.       *)
MutGrantUnlessSent(e) == ~e.sent

MutGrantIfSent(e) == (\A s \in Sides : e.conn[s] \in Conns) /\ e.sent

(* 3 - the request goes on to the grant only if the object it read (and    *)
(* not the one it made) has both sides and is not sent.                    *)
GoesOnToGrant(e) == (\A s \in Sides : e.conn[s] \in Conns) /\ ~e.sent

SaveWrite(r) ==
  /\ pc[r] = "saveWrite"
  /\ LET k == call[r].key
         duplicateKey == snap[r] = Null /\ oneTimeKey[k] # Null
     IN \/ /\ duplicateKey
           /\ Throw(r)
           /\ UNCHANGED oneTimeKey
        \/ /\ ~duplicateKey
           /\ oneTimeKey' = [oneTimeKey EXCEPT ![k] =
                IF snap[r] = Null THEN InsertedRow(rec[r])
                                  ELSE UpdatedRow(rec[r], snap[r], oneTimeKey[k])]
           /\ Goto(r, IF GoesOnToGrant(rec[r]) THEN "grantFind" ELSE "msgStarted")
           /\ UNCHANGED <<call, rec, snap, reply>>
  /\ UNCHANGED <<fspTroConnection, credentials, sent, registered>>

MsgStarted(r) ==
  /\ pc[r] = "msgStarted"
  /\ sent' = sent \cup {[to |-> call[r].conn, state |-> "started",
                         key |-> call[r].key, ids |-> Null]}
  /\ Finish(r, "started", Null)
  /\ UNCHANGED <<oneTimeKey, fspTroConnection, credentials, registered>>

-----------------------------------------------------------------------------
(* issueGrantCredentials, from a registration or from POST issueGrantCreds *)

MayIssue(row) == row # Null /\ ~row.sent

GrantFind(r) ==
  /\ pc[r] = "grantFind"
  /\ LET row == oneTimeKey[call[r].key]
     IN \/ /\ ~MayIssue(row)
           /\ Throw(r)
        \/ /\ MayIssue(row)
           /\ rec' = [rec EXCEPT ![r] = row]
           /\ snap' = [snap EXCEPT ![r] = Null]
           /\ Goto(r, "issueTro")
           /\ UNCHANGED <<call, reply>>
  /\ UNCHANGED <<oneTimeKey, fspTroConnection, credentials, sent, registered>>

(* Mutant: the request goes on without the credential being issued.        *)
MutIssueNotAwaited(r, s, next) ==
  /\ \/ rec[r].conn[s] = Null /\ Throw(r)
     \/ rec[r].conn[s] # Null /\ Goto(r, next) /\ UNCHANGED <<call, rec, snap, reply>>
  /\ UNCHANGED <<oneTimeKey, fspTroConnection, credentials, sent, registered>>

(* issueCredential for one side; a null connection id makes it throw.      *)
IssueCredential(r, s, next) ==
  /\ LET c == rec[r].conn[s]
     IN \/ /\ c = Null
           /\ Throw(r)
           /\ UNCHANGED credentials
        \/ /\ c # Null
           /\ credentials' = credentials \cup {[side |-> s, to |-> c, id |-> Id(s, c)]}
           /\ Goto(r, next)
           /\ UNCHANGED <<call, rec, snap, reply>>
  /\ UNCHANGED <<oneTimeKey, fspTroConnection, sent, registered>>

IssueTro(r) == pc[r] = "issueTro" /\ IssueCredential(r, "tro", "issueFsp")

(* Mutant: the pair is not saved.                                          *)
MutNoSave(r) == pc[r] = "issueFsp" /\ IssueCredential(r, "fsp", "msgFsp")

IssueFsp(r) == pc[r] = "issueFsp" /\ IssueCredential(r, "fsp", "saveConn")

(* saveFspTroConnection: an insert, for the primary key is generated.      *)
SaveConn(r) ==
  /\ pc[r] = "saveConn"
  /\ fspTroConnection' = fspTroConnection \cup {Pair(rec[r].conn)}
  /\ Goto(r, "msgFsp")
  /\ UNCHANGED <<oneTimeKey, credentials, sent, registered, call, rec, snap, reply>>

CompletedMsg(r, s) ==
  [to |-> rec[r].conn[s], state |-> "completed", key |-> call[r].key,
   ids |-> Pair(rec[r].conn).id]

(* Mutant: returns after the first of the two messages.                    *)
MutOneMessage(r) ==
  /\ pc[r] = "msgFsp"
  /\ sent' = sent \cup {CompletedMsg(r, "fsp")}
  /\ Finish(r, "completed", Pair(rec[r].conn).id)
  /\ UNCHANGED <<oneTimeKey, fspTroConnection, credentials, registered>>

MsgFsp(r) ==
  /\ pc[r] = "msgFsp"
  /\ sent' = sent \cup {CompletedMsg(r, "fsp")}
  /\ Goto(r, "msgTro")
  /\ UNCHANGED <<oneTimeKey, fspTroConnection, credentials, registered, call, rec, snap, reply>>

MsgTro(r) ==
  /\ pc[r] = "msgTro"
  /\ sent' = sent \cup {CompletedMsg(r, "tro")}
  /\ Finish(r, "completed", Pair(rec[r].conn).id)
  /\ UNCHANGED <<oneTimeKey, fspTroConnection, credentials, registered>>

-----------------------------------------------------------------------------
(* getConnectionIds, GET ids/:key and ids/:key/tro.                        *)

IdsFindKey(r) ==
  /\ pc[r] = "ids"
  /\ LET row == oneTimeKey[call[r].key]
         both == row # Null /\ \A s \in Sides : row.conn[s] # Null
     IN \/ /\ ~both
           /\ Finish(r, "waiting", Null)
        \/ /\ both
           /\ call[r].op = "ids"
           /\ Finish(r, "accepted", Null)
        \/ /\ both
           /\ call[r].op = "ids/tro"
           /\ rec' = [rec EXCEPT ![r] = row]
           /\ Goto(r, "idsFindConn")
           /\ UNCHANGED <<call, snap, reply>>
  /\ UNCHANGED <<oneTimeKey, fspTroConnection, credentials, sent, registered>>

(* Any row of the TRO's connection may be found; none makes the code       *)
(* dereference undefined, which it catches and answers with 'error'.       *)
IdsFindConn(r) ==
  /\ pc[r] = "idsFindConn"
  /\ LET found == {p \in fspTroConnection : p.conn["tro"] = rec[r].conn["tro"]}
     IN \/ /\ found = {}
           /\ Throw(r)
        \/ \E p \in found : Finish(r, "accepted", p.id)
  /\ UNCHANGED <<oneTimeKey, fspTroConnection, credentials, sent, registered>>

-----------------------------------------------------------------------------
(* An external call of r fails: proof, database or agent.                  *)
Fault(r) ==
  /\ r \in Faulty
  /\ InFlight(r)
  /\ Throw(r)
  /\ UNCHANGED <<oneTimeKey, fspTroConnection, credentials, sent, registered>>

(* The process stops and restarts: every request in flight is lost.        *)
Crash ==
  /\ MayCrash
  /\ \E r \in Requests : InFlight(r)
  /\ pc' = [r \in Requests |-> IF InFlight(r) THEN "done" ELSE pc[r]]
  /\ rec' = [r \in Requests |-> Null]
  /\ snap' = [r \in Requests |-> Null]
  /\ UNCHANGED <<oneTimeKey, fspTroConnection, credentials, sent, registered, call, reply>>

(* What r's own continuation does when its await returns, by the method it *)
(* runs: the two registerOneTimeKey differ only in the side they write.    *)
RegisterStep(r) ==
  \/ Prove(r) \/ Find(r) \/ SaveLoad(r) \/ SaveWrite(r) \/ MsgStarted(r)

FspRegisterOneTimeKey(r) ==
  pc[r] \in Registering /\ call[r].op = "fsp" /\ RegisterStep(r)

TroRegisterOneTimeKey(r) ==
  pc[r] \in Registering /\ call[r].op = "tro" /\ RegisterStep(r)

IssueGrantCredentials(r) ==
  \/ GrantFind(r) \/ IssueTro(r) \/ IssueFsp(r) \/ SaveConn(r)
  \/ MsgFsp(r) \/ MsgTro(r)

GetConnectionIds(r) == IdsFindKey(r) \/ IdsFindConn(r)

Step(r) ==
  \/ FspRegisterOneTimeKey(r) \/ TroRegisterOneTimeKey(r)
  \/ IssueGrantCredentials(r) \/ GetConnectionIds(r)

Next ==
  \/ \E r \in Requests, c \in Calls : Arrive(r, c)
  \/ \E r \in Requests : Step(r) \/ Fault(r)
  \/ Crash

Spec == Init /\ [][Next]_vars
-----------------------------------------------------------------------------
(* Properties.                                                             *)

PCs == {"idle", "prove", "find", "saveLoad", "saveWrite", "msgStarted",
        "grantFind", "issueTro", "issueFsp", "saveConn", "msgFsp", "msgTro",
        "ids", "idsFindConn", "done"}

IdPairs == [Sides -> Ids]
PairRows == [conn : [Sides -> Conns], id : IdPairs]
Replies ==
  [state : {"started", "completed", "accepted", "waiting", "error"},
   ids : IdPairs \cup {Null}]

(* Types of the tables, of what left the process and of the requests'      *)
(* locals; in particular no stored row holds an undefined column.          *)
TypeOK ==
  /\ oneTimeKey \in [Keys -> OneTimeKeyRow \cup {Null}]
  /\ fspTroConnection \subseteq PairRows
  /\ credentials \subseteq [side : Sides, to : Conns, id : Ids]
  /\ sent \subseteq [to : Conns, state : {"started", "completed"}, key : Keys,
                     ids : IdPairs \cup {Null}]
  /\ registered \subseteq [side : Sides, conn : Conns, key : Keys]
  /\ pc \in [Requests -> PCs]
  /\ call \in [Requests -> Calls \cup {Null}]
  /\ rec \in [Requests -> OneTimeKeyEntity \cup {Null}]
  /\ snap \in [Requests -> OneTimeKeyRow \cup {Null}]
  /\ reply \in [Requests -> Replies \cup {Null}]

(* What a request knows at each of its steps: the strengthening TypeOK     *)
(* needs to be inductive.                                                  *)
LocalsInv ==
  \A r \in Requests :
     /\ pc[r] # "idle" => call[r] \in Calls
     /\ pc[r] \in {"idle", "done"} => rec[r] = Null
     /\ pc[r] # "done" => reply[r] = Null
     /\ pc[r] \in Registering => call[r].op \in Sides
     /\ pc[r] \in {"saveLoad", "saveWrite"} => rec[r] \in OneTimeKeyEntity
     /\ pc[r] \in Issuing \cup {"idsFindConn"} => rec[r] \in OneTimeKeyRow
     /\ pc[r] \in Issuing \ {"issueTro"} => rec[r].conn["tro"] \in Conns
     /\ pc[r] \in Issuing \ {"issueTro", "issueFsp"} => rec[r].conn["fsp"] \in Conns
     /\ snap[r] # Null =>
          /\ pc[r] \in {"saveWrite", "msgStarted", "grantFind"}
          /\ oneTimeKey[call[r].key] # Null

(* Every connection in a row, or in a request's hands, gave the row's key  *)
(* on the side of its column, after it proved the credential of that side. *)
RegisteredInv ==
  /\ \A g \in registered : g.conn \in Holders[g.side]
  /\ \A k \in Keys, s \in Sides :
        (oneTimeKey[k] # Null /\ oneTimeKey[k].conn[s] # Null) =>
           [side |-> s, conn |-> oneTimeKey[k].conn[s], key |-> k] \in registered
  /\ \A r \in Requests, s \in Sides :
        (rec[r] # Null /\ rec[r].conn[s] \in Conns) =>
           [side |-> s, conn |-> rec[r].conn[s], key |-> call[r].key] \in registered
  /\ \A r \in Requests :
        pc[r] \in Registering \ {"prove"} =>
           [side |-> call[r].op, conn |-> call[r].conn, key |-> call[r].key] \in registered

HoldsGrant(s, c) == [side |-> s, to |-> c, id |-> Id(s, c)] \in credentials

(* How far issueGrantCredentials has come is visible outside the request.  *)
IssuingInv ==
  /\ \A r \in Requests :
        /\ pc[r] \in Issuing \ {"issueTro"} =>
              HoldsGrant("tro", rec[r].conn["tro"])
        /\ pc[r] \in Issuing \ {"issueTro", "issueFsp"} =>
              HoldsGrant("fsp", rec[r].conn["fsp"])
        /\ pc[r] \in {"msgFsp", "msgTro"} => Pair(rec[r].conn) \in fspTroConnection
        /\ pc[r] = "msgTro" => CompletedMsg(r, "fsp") \in sent
  /\ \A p \in fspTroConnection : p = Pair(p.conn)

Completed == {m \in sent : m.state = "completed"}

(* However requests interleave, fail, repeat or are cut off by a restart,  *)
(* a fsp_tro_connection row joins two connections that proved their auth   *)
(* credentials and gave one and the same key, each through the endpoint of *)
(* its side (fsp.service.ts registerOneTimeKey, saves that merge columns). *)
GrantMatchesRegistration ==
  \A p \in fspTroConnection : \E k \in Keys : \A s \in Sides :
      /\ [side |-> s, conn |-> p.conn[s], key |-> k] \in registered
      /\ p.conn[s] \in Holders[s]

(* A party is told 'completed' only of a pair that is in the table and     *)
(* that it belongs to, so the ids in the notice can be used at once        *)
(* (issueGrantCredentials saves before it sends).                          *)
CompletedIsPersisted ==
  \A m \in Completed : \E p \in fspTroConnection :
      /\ p.id = m.ids
      /\ \E s \in Sides : p.conn[s] = m.to

(* A row exists only once both of its parties hold the grant credential    *)
(* carrying the row's id, which createTransaction later asks them to prove.*)
RowMeansBothCredentials ==
  \A p \in fspTroConnection : \A s \in Sides :
      [side |-> s, to |-> p.conn[s], id |-> p.id[s]] \in credentials

(* Whoever is answered 'completed' may rely on both parties having been    *)
(* told, with the very ids of the answer (issueGrantCredentials).          *)
CompletedMeansBothTold ==
  \A r \in Requests :
     (reply[r] # Null /\ reply[r].state = "completed") =>
        \E p \in fspTroConnection :
           /\ p.id = reply[r].ids
           /\ \A s \in Sides : \E m \in Completed :
                 m.to = p.conn[s] /\ m.ids = p.id /\ m.key = call[r].key

(* A saved connection of one side is never erased: the row keeps it while  *)
(* the other side registers (one.time.key.ts: "We save the record so that  *)
(* connection isn't lost").                                                *)
RegistrationKept ==
  [][\A k \in Keys, s \in Sides :
        (oneTimeKey[k] # Null /\ oneTimeKey[k].conn[s] # Null) =>
           oneTimeKey'[k].conn[s] # Null]_vars

(* Each side gives k at most once and nobody asks for its grants again.    *)
GivenOnce(k) ==
  LET about == {r \in Requests : call[r] # Null /\ call[r].key = k}
  IN  /\ \A q, r \in about : (call[q].op = call[r].op /\ call[q].op \in Sides) => q = r
      /\ \A r \in about : call[r].op # "issueGrantCreds"

(* When each side gives a key once, at most one of the two racing requests *)
(* goes on to issue the grants of that key.                                *)
OneIssuerPerKey ==
  \A q, r \in Requests :
     LET issues(x) == \/ pc[x] \in Issuing
                      \/ reply[x] # Null /\ reply[x].state = "completed"
     IN  (issues(q) /\ issues(r) /\ call[q].key = call[r].key /\ GivenOnce(call[q].key))
           => q = r

BothSides(k) ==
  oneTimeKey[k] # Null /\ \A s \in Sides : oneTimeKey[k].conn[s] # Null

(* A registration is answered 'started' only while the other side is still *)
(* missing: the caller is told to wait only for a party that has yet to    *)
(* come (fsp.service.ts, comments before the two 'started' returns).       *)
StartedMeansOtherSideMissing ==
  [][\A r \in Requests :
        (pc[r] = "msgStarted" /\ pc'[r] = "done" /\ reply'[r] # Null /\ reply'[r].state = "started")
           => ~BothSides(call[r].key)]_vars

CutShort(k) ==
  \E r \in Requests :
     /\ pc[r] = "done" /\ call[r].key = k /\ call[r].op \in Sides
     /\ reply[r] = Null \/ reply[r].state = "error"

(* When requests come one at a time: once both sides of a key are in and   *)
(* no request is running, the pair has its row, unless a registration of   *)
(* the key failed or was cut off.                                          *)
PairedIsGranted ==
  (\A r \in Requests : ~InFlight(r)) =>
     \A k \in Keys : (BothSides(k) /\ ~CutShort(k)) =>
         Pair(oneTimeKey[k].conn) \in fspTroConnection

(* When requests come one at a time, a query for ids that meets no fault   *)
(* is not answered with 'error' (getConnectionIds would dereference a pair *)
(* that is not there), unless a registration of the key was cut short.     *)
QueriesNeverError ==
  \A r \in Requests \ Faulty :
     (call[r] # Null /\ call[r].op \in QueryOps /\ reply[r] # Null /\ ~CutShort(call[r].key))
        => reply[r].state # "error"

(* When requests come one at a time, two connections that gave the same    *)
(* key are in the end both told of their pair, unless a registration of    *)
(* the key failed or was cut off by a restart.                             *)
PairIsAnnounced ==
  \A k \in Keys, f, t \in Conns :
     LET conns == [s \in Sides |-> IF s = "fsp" THEN f ELSE t]
     IN (BothSides(k) /\ oneTimeKey[k].conn = conns)
          ~> \/ CutShort(k)
             \/ \A s \in Sides : \E m \in Completed :
                   m.to = conns[s] /\ m.key = k /\ m.ids = Pair(conns).id

(* one.time.key.ts says of sent that it keeps another actor from being     *)
(* connected over a key that was used: all completed notices of a key name *)
(* one pair.                                                               *)
NoOtherActorSameKey ==
  \A m, n \in Completed : m.key = n.key => m.ids = n.ids

(* The abstract ledger this module implements.                             *)
Ledger == INSTANCE GrantLedger WITH
  IdOf <- Id,
  granted <- fspTroConnection,
  announced <- {[to |-> m.to, ids |-> m.ids] : m \in Completed}

ImplementsLedger == Ledger!LedgerSpec
=============================================================================
