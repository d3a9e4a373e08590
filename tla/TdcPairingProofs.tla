--------------------------- MODULE TdcPairingProofs ---------------------------
(***************************************************************************)
(* Proofs about TdcPairing for any number of requests, keys and            *)
(* connections, any way clients send, any faults and any restarts.         *)
(***************************************************************************)
EXTENDS TdcPairing, TLAPS

TypeInv == TypeOK /\ LocalsInv

-----------------------------------------------------------------------------
(* The operators on entities, rows and pairs.                              *)

LEMMA PairType ==
  ASSUME NEW fn \in [Sides -> Conns]
  PROVE  Pair(fn) \in PairRows
  BY DEF Pair, PairRows, IdPairs, Ids

LEMMA NewEntityType ==
  ASSUME NEW s \in Sides, NEW c \in Conns
  PROVE  /\ NewEntity(s, c) \in OneTimeKeyEntity
         /\ \A t \in Sides : NewEntity(s, c).conn[t] \in {c, Undefined}
         /\ NewEntity(s, c).conn[s] = c
  BY DEF NewEntity, OneTimeKeyEntity, Columns

LEMMA WithConnType ==
  ASSUME NEW row \in OneTimeKeyRow, NEW s \in Sides, NEW c \in Conns
  PROVE  WithConn(row, s, c) \in OneTimeKeyEntity
  BY DEF WithConn, OneTimeKeyEntity, OneTimeKeyRow, Columns

LEMMA InsertedRowType ==
  ASSUME NEW e \in OneTimeKeyEntity
  PROVE  InsertedRow(e) \in OneTimeKeyRow
  BY DEF InsertedRow, OneTimeKeyEntity, OneTimeKeyRow, Columns

LEMMA UpdatedRowType ==
  ASSUME NEW e \in OneTimeKeyEntity,
         NEW loaded \in OneTimeKeyRow, NEW current \in OneTimeKeyRow
  PROVE  UpdatedRow(e, loaded, current) \in OneTimeKeyRow
  BY DEF UpdatedRow, OneTimeKeyEntity, OneTimeKeyRow, Columns

LEMMA RowIsEntity == OneTimeKeyRow \subseteq OneTimeKeyEntity
  BY DEF OneTimeKeyRow, OneTimeKeyEntity

LEMMA NullIsNoRow == Null \notin OneTimeKeyRow
  BY RowIsEntity, PairingConstants

-----------------------------------------------------------------------------
(* Type correctness.                                                       *)

(* An answer, or an error, that leaves the tables as they are keeps the    *)
(* types of everything else.                                               *)
LEMMA FinishType ==
  ASSUME TypeInv, NEW r \in Requests, NEW state, NEW ids,
         [state |-> state, ids |-> ids] \in Replies,
         InFlight(r), Finish(r, state, ids),
         UNCHANGED <<oneTimeKey, fspTroConnection, credentials, sent, registered>>
  PROVE  TypeInv'
  BY DEF TypeInv, TypeOK, LocalsInv, Finish, Goto, InFlight, PCs, Registering, Issuing

LEMMA ThrowType ==
  ASSUME TypeInv, NEW r \in Requests, InFlight(r), Throw(r),
         UNCHANGED <<oneTimeKey, fspTroConnection, credentials, sent, registered>>
  PROVE  TypeInv'
  BY FinishType DEF Throw, Replies

(* The first query of getConnectionIds answers or reads the row it found.  *)
LEMMA IdsFindKeyCases ==
  ASSUME NEW r \in Requests, IdsFindKey(r)
  PROVE  \/ Finish(r, "waiting", Null)
         \/ Finish(r, "accepted", Null)
         \/ /\ oneTimeKey[call[r].key] # Null
            /\ rec' = [rec EXCEPT ![r] = oneTimeKey[call[r].key]]
            /\ Goto(r, "idsFindConn")
            /\ UNCHANGED <<call, snap, reply>>
  BY Zenon DEF IdsFindKey

(* TypeOK with what each request knows at its step is inductive.           *)
THEOREM TypeInvariant == Spec => []TypeInv
<1>1. Init => TypeInv
  BY DEF Init, TypeInv, TypeOK, LocalsInv, PCs, Registering, Issuing
<1>2. TypeInv /\ [Next]_vars => TypeInv'
  <2> SUFFICES ASSUME TypeInv, [Next]_vars PROVE TypeInv'
    OBVIOUS
  <2> USE PairingConstants DEF TypeInv
  <2>1. CASE UNCHANGED vars
    BY <2>1 DEF vars, TypeOK, LocalsInv
  <2>2. ASSUME NEW r \in Requests, NEW c \in Calls, Arrive(r, c) PROVE TypeInv'
    BY <2>2 DEF Arrive, TypeOK, LocalsInv, PCs, Goto, FirstStep, Registering, Issuing, Calls, AllOps, Sides, QueryOps
  <2>3. ASSUME NEW r \in Requests, Prove(r) PROVE TypeInv'
    BY <2>3 DEF Prove, TypeOK, LocalsInv, PCs, Goto, Throw, Finish, Replies, Registering, Issuing, Calls
  <2>4. ASSUME NEW r \in Requests, Find(r) PROVE TypeInv'
    <3>1. call[r] \in Calls /\ call[r].op \in Sides /\ call[r].conn \in Conns /\ call[r].key \in Keys
      BY <2>4 DEF Find, TypeOK, LocalsInv, Registering, Calls
    <3>2. rec' \in [Requests -> OneTimeKeyEntity \cup {Null}] /\ rec'[r] \in OneTimeKeyEntity
      BY <2>4, <3>1, NewEntityType, WithConnType DEF Find, TypeOK
    <3> QED
      BY <2>4, <3>1, <3>2 DEF Find, TypeOK, LocalsInv, PCs, Goto, Registering, Issuing
  <2>5. ASSUME NEW r \in Requests, SaveLoad(r) PROVE TypeInv'
    BY <2>5 DEF SaveLoad, TypeOK, LocalsInv, PCs, Goto, Registering, Issuing, Calls
  <2>6. ASSUME NEW r \in Requests, SaveWrite(r) PROVE TypeInv'
    <3>1. call[r].key \in Keys /\ rec[r] \in OneTimeKeyEntity
      BY <2>6 DEF SaveWrite, TypeOK, LocalsInv, Registering, Calls
    <3>2. /\ oneTimeKey' \in [Keys -> OneTimeKeyRow \cup {Null}]
          /\ \A k \in Keys : oneTimeKey[k] # Null => oneTimeKey'[k] # Null
      BY <2>6, <3>1, InsertedRowType, UpdatedRowType, NullIsNoRow DEF SaveWrite, TypeOK, LocalsInv
    <3> QED
      <4>1. CASE Throw(r) /\ UNCHANGED oneTimeKey
        BY <2>6, <4>1, ThrowType DEF SaveWrite, InFlight
      <4>2. CASE /\ \E l \in {"grantFind", "msgStarted"} : pc' = [pc EXCEPT ![r] = l]
                 /\ UNCHANGED <<call, rec, snap, reply>>
        <5>1. \A q \in Requests : snap[q] # Null => oneTimeKey'[call[q].key] # Null
          BY <3>2 DEF TypeOK, LocalsInv, Calls
        <5>3. TypeOK'
          BY <2>6, <3>2, <4>2 DEF SaveWrite, TypeOK, PCs
        <5>4. LocalsInv'
          BY <2>6, <4>2, <5>1 DEF SaveWrite, TypeOK, LocalsInv, Registering, Issuing
        <5> QED
          BY <5>3, <5>4
      <4> QED
        BY <2>6, <4>1, <4>2 DEF SaveWrite, Goto
  <2>7. ASSUME NEW r \in Requests, MsgStarted(r) PROVE TypeInv'
    BY <2>7 DEF MsgStarted, TypeOK, LocalsInv, PCs, Goto, Finish, Replies, Registering, Issuing, Calls
  <2>8. ASSUME NEW r \in Requests, GrantFind(r) PROVE TypeInv'
    <3>1. CASE ~MayIssue(oneTimeKey[call[r].key])
      BY <2>8, <3>1, ThrowType DEF GrantFind, InFlight
    <3>2. CASE MayIssue(oneTimeKey[call[r].key])
      <4>1. oneTimeKey[call[r].key] \in OneTimeKeyRow
        BY <2>8, <3>2 DEF GrantFind, MayIssue, TypeOK, LocalsInv, Calls
      <4> QED
        BY <2>8, <3>2, <4>1, RowIsEntity DEF GrantFind, TypeOK, LocalsInv, PCs, Goto, Registering, Issuing
    <3> QED
      BY <3>1, <3>2
  <2>9. ASSUME NEW r \in Requests, IssueTro(r) PROVE TypeInv'
    <3>1. CASE rec[r].conn["tro"] = Null
      BY <2>9, <3>1, ThrowType DEF IssueTro, IssueCredential, InFlight
    <3>2. CASE rec[r].conn["tro"] # Null
      <4>1. rec[r].conn["tro"] \in Conns
        BY <2>9, <3>2 DEF IssueTro, TypeOK, LocalsInv, Issuing, OneTimeKeyRow, Columns, Sides
      <4> QED
        BY <2>9, <3>2, <4>1 DEF IssueTro, IssueCredential, TypeOK, LocalsInv, PCs, Goto, Registering, Issuing, Ids, Sides
    <3> QED
      BY <3>1, <3>2
  <2>10. ASSUME NEW r \in Requests, IssueFsp(r) PROVE TypeInv'
    <3>1. CASE rec[r].conn["fsp"] = Null
      BY <2>10, <3>1, ThrowType DEF IssueFsp, IssueCredential, InFlight
    <3>2. CASE rec[r].conn["fsp"] # Null
      <4>1. rec[r].conn["fsp"] \in Conns
        BY <2>10, <3>2 DEF IssueFsp, TypeOK, LocalsInv, Issuing, OneTimeKeyRow, Columns, Sides
      <4> QED
        BY <2>10, <3>2, <4>1 DEF IssueFsp, IssueCredential, TypeOK, LocalsInv, PCs, Goto, Registering, Issuing, Ids, Sides
    <3> QED
      BY <3>1, <3>2
  <2>11. ASSUME NEW r \in Requests, pc[r] \in {"saveConn", "msgFsp", "msgTro"}
         PROVE  rec[r].conn \in [Sides -> Conns] /\ Pair(rec[r].conn) \in PairRows
    <3>1. rec[r].conn \in [Sides -> Conns]
      BY <2>11 DEF TypeOK, LocalsInv, Issuing, OneTimeKeyRow, Sides
    <3> QED
      BY <3>1, PairType
  <2>12. ASSUME NEW r \in Requests, SaveConn(r) PROVE TypeInv'
    BY <2>11, <2>12 DEF SaveConn, TypeOK, LocalsInv, PCs, Goto, Registering, Issuing
  <2>13. ASSUME NEW r \in Requests, MsgFsp(r) PROVE TypeInv'
    BY <2>11, <2>13 DEF MsgFsp, CompletedMsg, TypeOK, LocalsInv, PCs, Goto, Registering, Issuing, PairRows, Calls, Sides
  <2>14. ASSUME NEW r \in Requests, MsgTro(r) PROVE TypeInv'
    BY <2>11, <2>14 DEF MsgTro, CompletedMsg, TypeOK, LocalsInv, PCs, Goto, Finish, Replies, Registering, Issuing, PairRows, Calls, Sides
  <2>15. ASSUME NEW r \in Requests, IdsFindKey(r) PROVE TypeInv'
    <3>1. ASSUME NEW state \in {"waiting", "accepted"}, Finish(r, state, Null)
          PROVE  TypeInv'
      <4>1. [state |-> state, ids |-> Null] \in Replies
        BY DEF Replies
      <4> QED
        BY <2>15, <3>1, <4>1, FinishType DEF IdsFindKey, InFlight
    <3>2. CASE /\ oneTimeKey[call[r].key] # Null
               /\ rec' = [rec EXCEPT ![r] = oneTimeKey[call[r].key]]
               /\ Goto(r, "idsFindConn")
               /\ UNCHANGED <<call, snap, reply>>
      <4>1. oneTimeKey[call[r].key] \in OneTimeKeyRow
        BY <2>15, <3>2 DEF IdsFindKey, TypeOK, LocalsInv, Calls
      <4> QED
        BY <2>15, <3>2, <4>1, RowIsEntity DEF IdsFindKey, TypeOK, LocalsInv, PCs, Goto, Registering, Issuing
    <3> QED
      BY <2>15, <3>1, <3>2, IdsFindKeyCases
  <2>16. ASSUME NEW r \in Requests, IdsFindConn(r) PROVE TypeInv'
    <3>1. ASSUME NEW p \in fspTroConnection
          PROVE  [state |-> "accepted", ids |-> p.id] \in Replies
      BY DEF TypeOK, PairRows, Replies
    <3> QED
      BY <2>16, <3>1, FinishType, ThrowType DEF IdsFindConn, InFlight
  <2>17. ASSUME NEW r \in Requests, Fault(r) PROVE TypeInv'
    BY <2>17, ThrowType DEF Fault
  <2>18. CASE Crash
    BY <2>18 DEF Crash, InFlight, TypeOK, LocalsInv, PCs, Registering, Issuing
  <2> QED
    BY <2>1, <2>2, <2>3, <2>4, <2>5, <2>6, <2>7, <2>8, <2>9, <2>10, <2>12, <2>13,
       <2>14, <2>15, <2>16, <2>17, <2>18 DEF Next, Step, FspRegisterOneTimeKey, TroRegisterOneTimeKey,
    RegisterStep, IssueGrantCredentials, GetConnectionIds
<1> QED
  BY <1>1, <1>2, PTL DEF Spec

(* The tables, messages and locals always have their types.                *)
THEOREM TypeCorrect == Spec => []TypeOK
<1>1. TypeInv => TypeOK
  BY DEF TypeInv
<1> QED
  BY <1>1, TypeInvariant, PTL

-----------------------------------------------------------------------------
(* Who is in a row has registered for it.                                  *)

LEMMA NewEntityConn ==
  ASSUME NEW s \in Sides, NEW c \in Conns, NEW t \in Sides,
         NewEntity(s, c).conn[t] \in Conns
  PROVE  t = s /\ NewEntity(s, c).conn[t] = c
  BY PairingConstants DEF NewEntity

LEMMA InsertedRowConn ==
  ASSUME NEW e \in OneTimeKeyEntity, NEW t \in Sides,
         InsertedRow(e).conn[t] # Null
  PROVE  e.conn[t] \in Conns /\ InsertedRow(e).conn[t] = e.conn[t]
  BY DEF InsertedRow, OneTimeKeyEntity, Columns

(* A save writes only connections of the entity or leaves the row's own.   *)
LEMMA UpdatedRowConn ==
  ASSUME NEW e \in OneTimeKeyEntity, NEW loaded, NEW current, NEW t \in Sides,
         UpdatedRow(e, loaded, current).conn[t] # Null
  PROVE  \/ UpdatedRow(e, loaded, current).conn[t] = current.conn[t]
         \/ /\ e.conn[t] \in Conns
            /\ UpdatedRow(e, loaded, current).conn[t] = e.conn[t]
  BY DEF UpdatedRow, OneTimeKeyEntity, Columns

(* A request that ends lets go of its row and leaves the others alone.     *)
LEMMA FinishRegistered ==
  ASSUME TypeInv, RegisteredInv, NEW r \in Requests, NEW state, NEW ids,
         Finish(r, state, ids), UNCHANGED <<oneTimeKey, registered>>
  PROVE  RegisteredInv'
  BY DEF Finish, RegisteredInv, Goto, TypeInv, TypeOK, Registering

(* Registrations are only ever added, by Prove; the lemma is about every   *)
(* step that does not touch the tables of keys.                            *)
LEMMA RegisteredStep ==
  ASSUME TypeInv, RegisteredInv, [Next]_vars
  PROVE  RegisteredInv'
<1> USE PairingConstants
<1>1. CASE UNCHANGED vars
  BY <1>1 DEF vars, RegisteredInv
<1>2. ASSUME NEW r \in Requests, NEW c \in Calls, Arrive(r, c) PROVE RegisteredInv'
  <2>1. rec[r] = Null
    BY <1>2 DEF Arrive, TypeInv, LocalsInv
  <2> QED
    BY <1>2, <2>1 DEF Arrive, RegisteredInv, Goto, FirstStep, TypeInv, TypeOK, PCs, Registering
<1>3. ASSUME NEW r \in Requests, Prove(r) PROVE RegisteredInv'
  BY <1>3 DEF Prove, Throw, Finish, RegisteredInv, Goto, TypeInv, TypeOK, LocalsInv, Registering, Calls
<1>4. ASSUME NEW r \in Requests, Find(r) PROVE RegisteredInv'
  <2>1. call[r] \in Calls /\ call[r].op \in Sides /\ call[r].conn \in Conns /\ call[r].key \in Keys
    BY <1>4 DEF Find, TypeInv, TypeOK, LocalsInv, Registering, Calls
  <2>2. \A s \in Sides : rec'[r].conn[s] \in Conns =>
          [side |-> s, conn |-> rec'[r].conn[s], key |-> call[r].key] \in registered
    <3> DEFINE own == [side |-> call[r].op, conn |-> call[r].conn, key |-> call[r].key]
               row == oneTimeKey[call[r].key]
    <3>1. own \in registered
      BY <1>4 DEF Find, RegisteredInv, Registering
    <3>2. CASE row = Null
      <4>1. rec'[r] = NewEntity(call[r].op, call[r].conn)
        BY <1>4, <3>2 DEF Find, TypeInv, TypeOK
      <4> QED
        BY <2>1, <3>1, <4>1, NewEntityConn
    <3>3. CASE row # Null
      <4>1. rec'[r] = WithConn(row, call[r].op, call[r].conn)
        BY <1>4, <3>3 DEF Find, TypeInv, TypeOK
      <4>2. \A s \in Sides : rec'[r].conn[s] = IF s = call[r].op THEN call[r].conn ELSE row.conn[s]
        BY <4>1 DEF WithConn
      <4>3. \A s \in Sides : row.conn[s] \in Conns =>
               [side |-> s, conn |-> row.conn[s], key |-> call[r].key] \in registered
        BY <2>1, <3>3 DEF RegisteredInv
      <4> QED
        BY <2>1, <3>1, <4>2, <4>3
    <3> QED
      BY <3>2, <3>3
  <2> QED
    BY <1>4, <2>1, <2>2 DEF Find, Goto, TypeInv, TypeOK, RegisteredInv, Registering
<1>5. ASSUME NEW r \in Requests, SaveLoad(r) PROVE RegisteredInv'
  BY <1>5 DEF SaveLoad, RegisteredInv, Goto, TypeInv, TypeOK, Registering
<1>6. ASSUME NEW r \in Requests, SaveWrite(r) PROVE RegisteredInv'
  <2>1. call[r].key \in Keys /\ rec[r] \in OneTimeKeyEntity /\ rec[r] # Null
    BY <1>6 DEF SaveWrite, TypeInv, TypeOK, LocalsInv, Registering, Calls
  <2>2. CASE oneTimeKey' = oneTimeKey
    BY <1>6, <2>2 DEF SaveWrite, RegisteredInv, Goto, Throw, Finish, TypeInv, TypeOK, Registering
  <2>3. CASE /\ oneTimeKey' = [oneTimeKey EXCEPT ![call[r].key] =
                IF snap[r] = Null THEN InsertedRow(rec[r])
                                  ELSE UpdatedRow(rec[r], snap[r], oneTimeKey[call[r].key])]
             /\ UNCHANGED <<call, rec, snap, reply, registered>>
    <3>1. snap[r] # Null => oneTimeKey[call[r].key] # Null
      BY DEF TypeInv, LocalsInv
    <3>2. ASSUME NEW k \in Keys, NEW s \in Sides, oneTimeKey'[k] # Null, oneTimeKey'[k].conn[s] # Null
          PROVE  [side |-> s, conn |-> oneTimeKey'[k].conn[s], key |-> k] \in registered
      <4>1. CASE k # call[r].key
        BY <2>1, <2>3, <3>2, <4>1 DEF RegisteredInv, TypeInv, TypeOK
      <4>2. CASE k = call[r].key /\ snap[r] = Null
        <5>1. oneTimeKey'[k] = InsertedRow(rec[r])
          BY <2>1, <2>3, <4>2 DEF TypeInv, TypeOK
        <5>2. rec[r].conn[s] \in Conns /\ oneTimeKey'[k].conn[s] = rec[r].conn[s]
          BY <2>1, <3>2, <5>1, InsertedRowConn
        <5> QED
          BY <2>1, <4>2, <5>2 DEF RegisteredInv
      <4>3. CASE k = call[r].key /\ snap[r] # Null
        <5>1. oneTimeKey'[k] = UpdatedRow(rec[r], snap[r], oneTimeKey[k])
          BY <2>1, <2>3, <4>3 DEF TypeInv, TypeOK
        <5>2. \/ oneTimeKey'[k].conn[s] = oneTimeKey[k].conn[s]
              \/ /\ rec[r].conn[s] \in Conns
                 /\ oneTimeKey'[k].conn[s] = rec[r].conn[s]
          BY <2>1, <3>2, <5>1, UpdatedRowConn
        <5> QED
          BY <2>1, <3>1, <3>2, <4>3, <5>2 DEF RegisteredInv
      <4> QED
        BY <4>1, <4>2, <4>3
    <3> QED
      BY <1>6, <2>1, <2>3, <3>2 DEF SaveWrite, RegisteredInv, Goto, Throw, Finish, TypeInv, TypeOK, Registering
  <2> QED
    BY <1>6, <2>2, <2>3 DEF SaveWrite
<1>7. ASSUME NEW r \in Requests, MsgStarted(r) PROVE RegisteredInv'
  BY <1>7, FinishRegistered DEF MsgStarted
<1>8. ASSUME NEW r \in Requests, GrantFind(r) PROVE RegisteredInv'
  <2>1. call[r].key \in Keys
    BY <1>8 DEF GrantFind, TypeInv, LocalsInv, Calls
  <2> QED
    BY <1>8, <2>1 DEF GrantFind, MayIssue, Throw, Finish, RegisteredInv, Goto, TypeInv, TypeOK, Registering
<1>9. ASSUME NEW r \in Requests, IssueTro(r) PROVE RegisteredInv'
  BY <1>9 DEF IssueTro, IssueCredential, Throw, Finish, RegisteredInv, Goto, TypeInv, TypeOK, Registering
<1>10. ASSUME NEW r \in Requests, IssueFsp(r) PROVE RegisteredInv'
  BY <1>10 DEF IssueFsp, IssueCredential, Throw, Finish, RegisteredInv, Goto, TypeInv, TypeOK, Registering
<1>11. ASSUME NEW r \in Requests, SaveConn(r) PROVE RegisteredInv'
  BY <1>11 DEF SaveConn, RegisteredInv, Goto, TypeInv, TypeOK, Registering
<1>12. ASSUME NEW r \in Requests, MsgFsp(r) PROVE RegisteredInv'
  BY <1>12 DEF MsgFsp, RegisteredInv, Goto, TypeInv, TypeOK, Registering
<1>13. ASSUME NEW r \in Requests, MsgTro(r) PROVE RegisteredInv'
  BY <1>13, FinishRegistered DEF MsgTro
<1>14. ASSUME NEW r \in Requests, IdsFindKey(r) PROVE RegisteredInv'
  <2>1. call[r].key \in Keys
    BY <1>14 DEF IdsFindKey, TypeInv, LocalsInv, Calls
  <2> QED
    <3>1. ASSUME NEW state \in {"waiting", "accepted"}, Finish(r, state, Null)
          PROVE  RegisteredInv'
      BY <1>14, <3>1, FinishRegistered DEF IdsFindKey
    <3>2. CASE /\ oneTimeKey[call[r].key] # Null
               /\ rec' = [rec EXCEPT ![r] = oneTimeKey[call[r].key]]
               /\ Goto(r, "idsFindConn")
               /\ UNCHANGED <<call, snap, reply>>
      BY <1>14, <2>1, <3>2 DEF IdsFindKey, RegisteredInv, Goto, TypeInv, TypeOK, Registering
    <3> QED
      BY <1>14, <3>1, <3>2, IdsFindKeyCases
<1>15. ASSUME NEW r \in Requests, IdsFindConn(r) PROVE RegisteredInv'
  BY <1>15, FinishRegistered DEF IdsFindConn, Throw
<1>16. ASSUME NEW r \in Requests, Fault(r) PROVE RegisteredInv'
  BY <1>16, FinishRegistered DEF Fault, Throw
<1>17. CASE Crash
  BY <1>17 DEF Crash, RegisteredInv, TypeInv, TypeOK, Registering
<1> QED
  BY <1>1, <1>2, <1>3, <1>4, <1>5, <1>6, <1>7, <1>8, <1>9, <1>10, <1>11, <1>12, <1>13,
     <1>14, <1>15, <1>16, <1>17 DEF Next, Step, FspRegisterOneTimeKey, TroRegisterOneTimeKey,
    RegisterStep, IssueGrantCredentials, GetConnectionIds

-----------------------------------------------------------------------------
(* How far a grant has come.                                               *)

LEMMA PairConn ==
  ASSUME NEW fn
  PROVE  Pair(fn).conn = fn /\ Pair(Pair(fn).conn) = Pair(fn)
  BY DEF Pair

(* A request that is not between the first credential and the last message *)
(* after its step asks nothing of the outputs, and the others lose nothing.*)
LEMMA IssuingFrame ==
  ASSUME IssuingInv, NEW r \in Requests,
         \A q \in Requests \ {r} :
            pc'[q] = pc[q] /\ rec'[q] = rec[q] /\ call'[q] = call[q],
         pc'[r] \notin Issuing \ {"issueTro"},
         credentials \subseteq credentials', sent \subseteq sent',
         fspTroConnection' = fspTroConnection
  PROVE  IssuingInv'
  BY DEF IssuingInv, Issuing, HoldsGrant, CompletedMsg

LEMMA IssuingStep ==
  ASSUME TypeInv, IssuingInv, [Next]_vars
  PROVE  IssuingInv'
<1>1. CASE UNCHANGED vars
  BY <1>1 DEF vars, IssuingInv, Issuing, HoldsGrant, CompletedMsg, TypeInv, TypeOK, LocalsInv
<1>2. ASSUME NEW r \in Requests, NEW c \in Calls, Arrive(r, c) PROVE IssuingInv'
  BY <1>2 DEF Arrive, Goto, FirstStep, IssuingInv, Issuing, HoldsGrant, CompletedMsg, TypeInv, TypeOK, LocalsInv
<1>3. ASSUME NEW r \in Requests, Prove(r) PROVE IssuingInv'
  BY <1>3, IssuingFrame DEF Prove, Goto, Throw, Finish, Issuing, TypeInv, TypeOK
<1>4. ASSUME NEW r \in Requests, Find(r) PROVE IssuingInv'
  BY <1>4 DEF Find, Goto, IssuingInv, Issuing, HoldsGrant, CompletedMsg, TypeInv, TypeOK, LocalsInv
<1>5. ASSUME NEW r \in Requests, SaveLoad(r) PROVE IssuingInv'
  BY <1>5 DEF SaveLoad, Goto, IssuingInv, Issuing, HoldsGrant, CompletedMsg, TypeInv, TypeOK, LocalsInv
<1>6. ASSUME NEW r \in Requests, SaveWrite(r) PROVE IssuingInv'
  BY <1>6, IssuingFrame DEF SaveWrite, Goto, Throw, Finish, Issuing, TypeInv, TypeOK
<1>7. ASSUME NEW r \in Requests, MsgStarted(r) PROVE IssuingInv'
  BY <1>7 DEF MsgStarted, Goto, Finish, IssuingInv, Issuing, HoldsGrant, CompletedMsg, TypeInv, TypeOK, LocalsInv
<1>8. ASSUME NEW r \in Requests, GrantFind(r) PROVE IssuingInv'
  BY <1>8, IssuingFrame DEF GrantFind, Goto, Throw, Finish, Issuing, TypeInv, TypeOK
<1>9. ASSUME NEW r \in Requests, IssueTro(r) PROVE IssuingInv'
  <2>1. CASE rec[r].conn["tro"] = Null
    BY <1>9, <2>1, IssuingFrame DEF IssueTro, IssueCredential, Goto, Throw, Finish, Issuing, TypeInv, TypeOK
  <2>2. CASE rec[r].conn["tro"] # Null
    <3>1. /\ credentials \subseteq credentials'
          /\ HoldsGrant("tro", rec[r].conn["tro"])'
          /\ pc' = [pc EXCEPT ![r] = "issueFsp"]
          /\ UNCHANGED <<rec, call, sent, fspTroConnection>>
      BY <1>9, <2>2 DEF IssueTro, IssueCredential, Goto, HoldsGrant
    <3> QED
      BY <1>9, <3>1 DEF IssueTro, IssuingInv, Issuing, HoldsGrant, CompletedMsg, TypeInv, TypeOK
  <2> QED
    BY <2>1, <2>2
<1>10. ASSUME NEW r \in Requests, IssueFsp(r) PROVE IssuingInv'
  <2>1. CASE rec[r].conn["fsp"] = Null
    BY <1>10, <2>1, IssuingFrame DEF IssueFsp, IssueCredential, Goto, Throw, Finish, Issuing, TypeInv, TypeOK
  <2>2. CASE rec[r].conn["fsp"] # Null
    <3>1. /\ credentials \subseteq credentials'
          /\ HoldsGrant("fsp", rec[r].conn["fsp"])'
          /\ pc' = [pc EXCEPT ![r] = "saveConn"]
          /\ UNCHANGED <<rec, call, sent, fspTroConnection>>
      BY <1>10, <2>2 DEF IssueFsp, IssueCredential, Goto, HoldsGrant
    <3> QED
      BY <1>10, <3>1 DEF IssueFsp, IssuingInv, Issuing, HoldsGrant, CompletedMsg, TypeInv, TypeOK
  <2> QED
    BY <2>1, <2>2
<1>11. ASSUME NEW r \in Requests, SaveConn(r) PROVE IssuingInv'
  BY <1>11, PairConn DEF SaveConn, Goto, IssuingInv, Issuing, HoldsGrant, CompletedMsg, TypeInv, TypeOK, LocalsInv
<1>12. ASSUME NEW r \in Requests, MsgFsp(r) PROVE IssuingInv'
  BY <1>12 DEF MsgFsp, Goto, IssuingInv, Issuing, HoldsGrant, CompletedMsg, TypeInv, TypeOK, LocalsInv
<1>13. ASSUME NEW r \in Requests, MsgTro(r) PROVE IssuingInv'
  BY <1>13 DEF MsgTro, Goto, Finish, IssuingInv, Issuing, HoldsGrant, CompletedMsg, TypeInv, TypeOK, LocalsInv
<1>14. ASSUME NEW r \in Requests, IdsFindKey(r) PROVE IssuingInv'
  BY <1>14, IssuingFrame DEF IdsFindKey, Goto, Finish, Issuing, TypeInv, TypeOK
<1>15. ASSUME NEW r \in Requests, IdsFindConn(r) PROVE IssuingInv'
  BY <1>15 DEF IdsFindConn, Throw, Goto, Finish, IssuingInv, Issuing, HoldsGrant, CompletedMsg, TypeInv, TypeOK, LocalsInv
<1>16. ASSUME NEW r \in Requests, Fault(r) PROVE IssuingInv'
  BY <1>16 DEF Fault, Throw, Goto, Finish, IssuingInv, Issuing, HoldsGrant, CompletedMsg, TypeInv, TypeOK, LocalsInv
<1>17. CASE Crash
  BY <1>17 DEF Crash, InFlight, IssuingInv, Issuing, HoldsGrant, CompletedMsg, TypeInv, TypeOK, LocalsInv
<1> QED
  BY <1>1, <1>2, <1>3, <1>4, <1>5, <1>6, <1>7, <1>8, <1>9, <1>10, <1>11, <1>12, <1>13, <1>14, <1>15, <1>16, <1>17 DEF Next, Step, FspRegisterOneTimeKey, TroRegisterOneTimeKey,
    RegisterStep, IssueGrantCredentials, GetConnectionIds

PairingInv == TypeInv /\ RegisteredInv /\ IssuingInv

THEOREM PairingInvariant == Spec => []PairingInv
<1>1. Init => RegisteredInv /\ IssuingInv
  BY DEF Init, RegisteredInv, IssuingInv, Registering, Issuing
<1>2. TypeInv /\ RegisteredInv /\ IssuingInv /\ [Next]_vars => RegisteredInv' /\ IssuingInv'
  BY RegisteredStep, IssuingStep
<1> QED
  BY <1>1, <1>2, TypeInvariant, PTL DEF Spec, PairingInv

-----------------------------------------------------------------------------
(* What the outputs promise.                                               *)

(* The steps that add to the pairs, the credentials or the notices.        *)
LEMMA OutputSteps ==
  ASSUME PairingInv, [Next]_vars
  PROVE  /\ registered \subseteq registered'
         /\ credentials \subseteq credentials'
         /\ \/ fspTroConnection' = fspTroConnection
            \/ \E r \in Requests : pc[r] = "saveConn" /\ SaveConn(r)
         /\ \/ Completed' = Completed
            \/ \E r \in Requests, s \in Sides :
                 /\ pc[r] = IF s = "fsp" THEN "msgFsp" ELSE "msgTro"
                 /\ Completed' = Completed \cup {CompletedMsg(r, s)}
                 /\ fspTroConnection' = fspTroConnection
<1> USE DEF Completed
<1>1. CASE UNCHANGED vars
  BY <1>1 DEF vars
<1>2. ASSUME NEW r \in Requests, NEW c \in Calls, Arrive(r, c)
      PROVE  UNCHANGED <<registered, credentials, fspTroConnection, sent>>
  BY <1>2 DEF Arrive
<1>3. ASSUME NEW r \in Requests,
             \/ Prove(r) \/ Find(r) \/ SaveLoad(r) \/ SaveWrite(r) \/ GrantFind(r)
             \/ IssueTro(r) \/ IssueFsp(r) \/ IdsFindKey(r) \/ IdsFindConn(r) \/ Fault(r)
      PROVE  /\ registered \subseteq registered' /\ credentials \subseteq credentials'
             /\ UNCHANGED <<fspTroConnection, sent>>
  BY <1>3 DEF Prove, Find, SaveLoad, SaveWrite, GrantFind, IssueTro, IssueFsp, IssueCredential,
              IdsFindKey, IdsFindConn, Fault
<1>4. ASSUME NEW r \in Requests, MsgStarted(r)
      PROVE  UNCHANGED <<registered, credentials, fspTroConnection, Completed>>
  BY <1>4 DEF MsgStarted
<1>5. ASSUME NEW r \in Requests, SaveConn(r)
      PROVE  UNCHANGED <<registered, credentials, sent>> /\ pc[r] = "saveConn"
  BY <1>5 DEF SaveConn
<1>6. ASSUME NEW r \in Requests, MsgFsp(r)
      PROVE  /\ UNCHANGED <<registered, credentials, fspTroConnection>>
             /\ pc[r] = "msgFsp" /\ Completed' = Completed \cup {CompletedMsg(r, "fsp")}
  BY <1>6 DEF MsgFsp, CompletedMsg
<1>7. ASSUME NEW r \in Requests, MsgTro(r)
      PROVE  /\ UNCHANGED <<registered, credentials, fspTroConnection>>
             /\ pc[r] = "msgTro" /\ Completed' = Completed \cup {CompletedMsg(r, "tro")}
  BY <1>7 DEF MsgTro, CompletedMsg
<1>8. CASE Crash
  BY <1>8 DEF Crash
<1> HIDE DEF Completed
<1> QED
  <2>1. CASE \E r \in Requests, c \in Calls : Arrive(r, c)
    BY <1>2, <2>1 DEF Completed
  <2>2. CASE \E r \in Requests : Step(r) \/ Fault(r)
    <3> PICK r \in Requests : Step(r) \/ Fault(r)
      BY <2>2
    <3>1. CASE Prove(r) \/ Find(r) \/ SaveLoad(r) \/ SaveWrite(r) \/ GrantFind(r)
             \/ IssueTro(r) \/ IssueFsp(r) \/ IdsFindKey(r) \/ IdsFindConn(r) \/ Fault(r)
      BY <1>3, <3>1 DEF Completed
    <3>2. CASE MsgStarted(r)
      BY <1>4, <3>2
    <3>3. CASE SaveConn(r)
      BY <1>5, <3>3 DEF Completed
    <3>4. CASE MsgFsp(r)
      BY <1>6, <3>4 DEF Sides
    <3>5. CASE MsgTro(r)
      BY <1>7, <3>5 DEF Sides
    <3> QED
      BY <3>1, <3>2, <3>3, <3>4, <3>5 DEF Step, FspRegisterOneTimeKey, TroRegisterOneTimeKey,
        RegisterStep, IssueGrantCredentials, GetConnectionIds
  <2> QED
    BY <1>1, <1>8, <2>1, <2>2 DEF Next, Completed, vars

(* The pair of a request at its save: both connections, both registered.   *)
LEMMA PairBeingSaved ==
  ASSUME PairingInv, NEW r \in Requests, pc[r] \in {"saveConn", "msgFsp", "msgTro"}
  PROVE  /\ rec[r].conn \in [Sides -> Conns]
         /\ call[r].key \in Keys
         /\ \A s \in Sides :
              /\ [side |-> s, conn |-> rec[r].conn[s], key |-> call[r].key] \in registered
              /\ HoldsGrant(s, rec[r].conn[s])
<1>1. rec[r].conn \in [Sides -> Conns]
  BY DEF PairingInv, TypeInv, TypeOK, LocalsInv, Issuing, OneTimeKeyRow, Sides
<1>2. call[r].key \in Keys
  BY DEF PairingInv, TypeInv, LocalsInv, Calls
<1>3. rec[r] # Null
  BY RowIsEntity, PairingConstants DEF PairingInv, TypeInv, LocalsInv, Issuing
<1>4. \A s \in Sides : HoldsGrant(s, rec[r].conn[s])
  BY DEF PairingInv, IssuingInv, Issuing, Sides
<1> QED
  BY <1>1, <1>2, <1>3, <1>4 DEF PairingInv, RegisteredInv

(* Rows pair two connections that registered the same key.                 *)
THEOREM GrantsMatch == Spec => []GrantMatchesRegistration
<1>1. Init => GrantMatchesRegistration
  BY DEF Init, GrantMatchesRegistration
<1>2. PairingInv /\ PairingInv' /\ GrantMatchesRegistration /\ [Next]_vars
        => GrantMatchesRegistration'
  <2> SUFFICES ASSUME PairingInv, PairingInv', GrantMatchesRegistration, [Next]_vars,
                      NEW p \in fspTroConnection'
               PROVE  \E k \in Keys : \A s \in Sides :
                        /\ [side |-> s, conn |-> p.conn[s], key |-> k] \in registered'
                        /\ p.conn[s] \in Holders[s]
    BY DEF GrantMatchesRegistration
  <2>1. CASE p \in fspTroConnection
    BY <2>1, OutputSteps DEF GrantMatchesRegistration
  <2>2. CASE p \notin fspTroConnection
    <3>1. PICK r \in Requests : pc[r] = "saveConn" /\ SaveConn(r)
      BY <2>2, OutputSteps
    <3>2. p = Pair(rec[r].conn)
      BY <2>2, <3>1 DEF SaveConn
    <3>3. \A s \in Sides :
            [side |-> s, conn |-> p.conn[s], key |-> call[r].key] \in registered
      BY <3>1, <3>2, PairBeingSaved, PairConn
    <3>4. \A s \in Sides : p.conn[s] \in Holders[s]
      BY <3>3 DEF PairingInv, RegisteredInv
    <3> QED
      BY <3>1, <3>3, <3>4, PairBeingSaved, OutputSteps
  <2> QED
    BY <2>1, <2>2
<1> QED
  BY <1>1, <1>2, PairingInvariant, PTL DEF Spec

(* Rows exist only with both credentials.                                  *)
THEOREM RowsHaveCredentials == Spec => []RowMeansBothCredentials
<1>1. Init => RowMeansBothCredentials
  BY DEF Init, RowMeansBothCredentials
<1>2. PairingInv /\ RowMeansBothCredentials /\ [Next]_vars => RowMeansBothCredentials'
  <2> SUFFICES ASSUME PairingInv, RowMeansBothCredentials, [Next]_vars,
                      NEW p \in fspTroConnection', NEW s \in Sides
               PROVE  [side |-> s, to |-> p.conn[s], id |-> p.id[s]] \in credentials'
    BY DEF RowMeansBothCredentials
  <2>1. CASE p \in fspTroConnection
    BY <2>1, OutputSteps DEF RowMeansBothCredentials
  <2>2. CASE p \notin fspTroConnection
    <3>1. PICK r \in Requests : pc[r] = "saveConn" /\ SaveConn(r)
      BY <2>2, OutputSteps
    <3>2. p = Pair(rec[r].conn)
      BY <2>2, <3>1 DEF SaveConn
    <3>3. p.conn[s] = rec[r].conn[s] /\ p.id[s] = Id(s, rec[r].conn[s])
      BY <3>2 DEF Pair
    <3> QED
      BY <3>1, <3>3, PairBeingSaved, OutputSteps DEF HoldsGrant
  <2> QED
    BY <2>1, <2>2
<1> QED
  BY <1>1, <1>2, PairingInvariant, PTL DEF Spec

(* Completed notices name persisted pairs.                                 *)
THEOREM NoticesArePersisted == Spec => []CompletedIsPersisted
<1>1. Init => CompletedIsPersisted
  BY DEF Init, CompletedIsPersisted, Completed
<1>2. PairingInv /\ CompletedIsPersisted /\ [Next]_vars => CompletedIsPersisted'
  <2> SUFFICES ASSUME PairingInv, CompletedIsPersisted, [Next]_vars, NEW m \in Completed'
               PROVE  \E p \in fspTroConnection' :
                         p.id = m.ids /\ \E s \in Sides : p.conn[s] = m.to
    BY DEF CompletedIsPersisted
  <2>0. fspTroConnection \subseteq fspTroConnection'
    BY OutputSteps DEF SaveConn
  <2>1. CASE m \in Completed
    BY <2>0, <2>1 DEF CompletedIsPersisted
  <2>2. CASE m \notin Completed
    <3>1. PICK r \in Requests, s \in Sides :
             /\ pc[r] \in {"msgFsp", "msgTro"} /\ m = CompletedMsg(r, s)
      BY <2>2, OutputSteps
    <3>2. Pair(rec[r].conn) \in fspTroConnection
      BY <3>1 DEF PairingInv, IssuingInv
    <3>3. m.to = Pair(rec[r].conn).conn[s] /\ m.ids = Pair(rec[r].conn).id
      BY <3>1 DEF CompletedMsg, Pair
    <3> QED
      BY <2>0, <3>2, <3>3
  <2> QED
    BY <2>1, <2>2
<1> QED
  BY <1>1, <1>2, PairingInvariant, PTL DEF Spec

LEMMA FinishReply ==
  ASSUME TypeInv, NEW q \in Requests, NEW r \in Requests, NEW state, NEW ids,
         Finish(q, state, ids), state # "completed",
         reply'[r] # Null, reply'[r].state = "completed",
         Null # [state |-> state, ids |-> ids]
  PROVE  reply'[r] = reply[r] /\ call'[r] = call[r]
  BY DEF Finish, TypeInv, TypeOK

(* Only MsgTro answers 'completed'; otherwise the answer was there before. *)
LEMMA CompletedReply ==
  ASSUME TypeInv, [Next]_vars, NEW r \in Requests,
         reply'[r] # Null, reply'[r].state = "completed"
  PROVE  \/ reply'[r] = reply[r] /\ call'[r] = call[r]
         \/ MsgTro(r)
<1> DEFINE Same == reply'[r] = reply[r] /\ call'[r] = call[r]
<1>1. CASE UNCHANGED vars
  BY <1>1 DEF vars
<1>2. ASSUME NEW q \in Requests, NEW c \in Calls, Arrive(q, c) PROVE Same
  BY <1>2 DEF Arrive, TypeInv, TypeOK, LocalsInv
<1>3. ASSUME NEW q \in Requests, Throw(q) PROVE Same
  BY <1>3 DEF Throw, Finish, TypeInv, TypeOK
<1>4. ASSUME NEW q \in Requests,
             \/ Find(q) \/ SaveLoad(q) \/ SaveConn(q) \/ MsgFsp(q) \/ Crash
      PROVE  Same
  BY <1>4 DEF Find, SaveLoad, SaveConn, MsgFsp, Crash
<1>5. ASSUME NEW q \in Requests,
             \/ Prove(q) \/ SaveWrite(q) \/ GrantFind(q) \/ IssueTro(q) \/ IssueFsp(q) \/ Fault(q)
      PROVE  Same
  BY <1>3, <1>5 DEF Prove, SaveWrite, GrantFind, IssueTro, IssueFsp, IssueCredential, Fault
<1>6. ASSUME NEW q \in Requests, MsgStarted(q) PROVE Same
  BY <1>6 DEF MsgStarted, Finish, TypeInv, TypeOK
<1>7. ASSUME NEW q \in Requests, IdsFindKey(q) PROVE Same
  BY <1>7 DEF IdsFindKey, Finish, TypeInv, TypeOK
<1>8. ASSUME NEW q \in Requests, IdsFindConn(q) PROVE Same
  <2>1. ASSUME NEW p, Finish(q, "accepted", p.id) PROVE Same
    BY <2>1 DEF Finish, TypeInv, TypeOK
  <2> QED
    BY <1>3, <1>8, <2>1 DEF IdsFindConn
<1>9. ASSUME NEW q \in Requests, MsgTro(q), q # r PROVE Same
  BY <1>9 DEF MsgTro, Finish, TypeInv, TypeOK
<1> QED
  BY <1>1, <1>2, <1>4, <1>5, <1>6, <1>7, <1>8, <1>9 DEF Next, Step, FspRegisterOneTimeKey, TroRegisterOneTimeKey,
    RegisterStep, IssueGrantCredentials, GetConnectionIds

(* A completed answer means both parties were told of the same pair.       *)
THEOREM AnswersAreTrue == Spec => []CompletedMeansBothTold
<1>1. Init => CompletedMeansBothTold
  BY DEF Init, CompletedMeansBothTold
<1>2. PairingInv /\ CompletedMeansBothTold /\ [Next]_vars => CompletedMeansBothTold'
  <2> SUFFICES ASSUME PairingInv, CompletedMeansBothTold, [Next]_vars,
                      NEW r \in Requests, reply'[r] # Null, reply'[r].state = "completed"
               PROVE  \E p \in fspTroConnection' :
                        /\ p.id = reply'[r].ids
                        /\ \A s \in Sides : \E m \in Completed' :
                              m.to = p.conn[s] /\ m.ids = p.id /\ m.key = call'[r].key
    BY DEF CompletedMeansBothTold
  <2>1. fspTroConnection \subseteq fspTroConnection' /\ Completed \subseteq Completed'
    BY OutputSteps DEF SaveConn
  <2>2. CASE reply'[r] = reply[r] /\ call'[r] = call[r]
    BY <2>1, <2>2 DEF CompletedMeansBothTold
  <2>3. CASE MsgTro(r)
    <3> DEFINE p == Pair(rec[r].conn)
    <3>1. p \in fspTroConnection /\ CompletedMsg(r, "fsp") \in sent
      BY <2>3 DEF MsgTro, PairingInv, IssuingInv
    <3>2. reply'[r].ids = p.id /\ call'[r] = call[r]
      BY <2>3 DEF MsgTro, Finish, PairingInv, TypeInv, TypeOK
    <3>3. \A s \in Sides : CompletedMsg(r, s) \in Completed'
      BY <2>3, <3>1 DEF MsgTro, Completed, CompletedMsg, Sides
    <3>4. \A s \in Sides : /\ CompletedMsg(r, s).to = p.conn[s]
                           /\ CompletedMsg(r, s).ids = p.id
                           /\ CompletedMsg(r, s).key = call[r].key
      BY DEF CompletedMsg, Pair
    <3> QED
      BY <2>1, <3>1, <3>2, <3>3, <3>4
  <2> QED
    BY <2>2, <2>3, CompletedReply DEF PairingInv
<1> QED
  BY <1>1, <1>2, PairingInvariant, PTL DEF Spec

-----------------------------------------------------------------------------
(* TdcPairing implements GrantLedger: every step of a request is a step of *)
(* the ledger or leaves alone what the ledger sees.                        *)

THEOREM Refinement == Spec => ImplementsLedger
<1>1. Init => Ledger!LedgerInit
  BY DEF Init, Ledger!LedgerInit, Completed
<1>2. PairingInv /\ [Next]_vars => [Ledger!LedgerNext]_(Ledger!ledgerVars)
  <2> SUFFICES ASSUME PairingInv, [Next]_vars, ~UNCHANGED Ledger!ledgerVars
               PROVE  Ledger!LedgerNext
    OBVIOUS
  <2> USE DEF Ledger!LedgerSides, Sides
  <2>1. ASSUME NEW r \in Requests, Prove(r) PROVE Ledger!LedgerNext
    <3>1. call[r].op \in Sides /\ call[r].conn \in Conns /\ call[r].key \in Keys
      BY <2>1 DEF Prove, PairingInv, TypeInv, LocalsInv, Registering, Calls
    <3>2. Ledger!LedgerRegister(call[r].op, call[r].conn, call[r].key)
      BY <2>1 DEF Prove, Ledger!LedgerRegister, Ledger!ledgerVars, Completed
    <3> QED
      BY <3>1, <3>2 DEF Ledger!LedgerNext
  <2>2. ASSUME NEW r \in Requests, NEW s \in Sides, NEW next,
               pc[r] \in {"issueTro", "issueFsp"}, IssueCredential(r, s, next)
        PROVE  Ledger!LedgerNext
    <3> DEFINE c == rec[r].conn[s]
    <3>1. rec[r] \in OneTimeKeyRow /\ rec[r] # Null /\ call[r].key \in Keys
      BY <2>2, RowIsEntity, PairingConstants DEF PairingInv, TypeInv, LocalsInv, Issuing, Calls
    <3>2. c # Null
      BY <2>2 DEF IssueCredential, Ledger!ledgerVars, Completed
    <3>3. c \in Conns
      BY <3>1, <3>2 DEF OneTimeKeyRow, Columns
    <3>4. [side |-> s, conn |-> c, key |-> call[r].key] \in registered
      BY <3>1, <3>3 DEF PairingInv, RegisteredInv
    <3>5. Ledger!LedgerIssue(s, c)
      BY <2>2, <3>1, <3>2, <3>4 DEF IssueCredential, Ledger!LedgerIssue, Completed
    <3> QED
      BY <3>3, <3>5 DEF Ledger!LedgerNext
  <2>3. ASSUME NEW r \in Requests, SaveConn(r) PROVE Ledger!LedgerNext
    <3>1. Ledger!LedgerGrant(rec[r].conn)
      BY <2>3, PairBeingSaved DEF SaveConn, Ledger!LedgerGrant, HoldsGrant, Completed, Ledger!PairOf, Pair
    <3> QED
      BY <2>3, <3>1, PairBeingSaved DEF SaveConn, Ledger!LedgerNext
  <2>4. ASSUME NEW r \in Requests, MsgFsp(r) \/ MsgTro(r) PROVE Ledger!LedgerNext
    <3>1. PICK s \in Sides : sent' = sent \cup {CompletedMsg(r, s)}
      BY <2>4 DEF MsgFsp, MsgTro
    <3>2. Pair(rec[r].conn) \in fspTroConnection
      BY <2>4 DEF MsgFsp, MsgTro, PairingInv, IssuingInv
    <3>3. Completed' = Completed \cup {CompletedMsg(r, s)}
      BY <3>1 DEF Completed, CompletedMsg
    <3>4. /\ CompletedMsg(r, s).to = Pair(rec[r].conn).conn[s]
          /\ CompletedMsg(r, s).ids = Pair(rec[r].conn).id
      BY DEF CompletedMsg, Pair
    <3> QED
      BY <2>4, <3>2, <3>3, <3>4 DEF MsgFsp, MsgTro, Ledger!LedgerAnnounce, Ledger!LedgerNext
  <2>5. ASSUME NEW r \in Requests, NEW c \in Calls, Arrive(r, c) PROVE FALSE
    BY <2>5 DEF Arrive, Ledger!ledgerVars, Completed
  <2>6. ASSUME NEW r \in Requests,
               \/ Find(r) \/ SaveLoad(r) \/ SaveWrite(r) \/ MsgStarted(r) \/ GrantFind(r)
               \/ IdsFindKey(r) \/ IdsFindConn(r) \/ Fault(r)
        PROVE  FALSE
    BY <2>6 DEF Find, SaveLoad, SaveWrite, MsgStarted, GrantFind, IdsFindKey, IdsFindConn, Fault,
                Ledger!ledgerVars, Completed
  <2>7. ~Crash /\ ~UNCHANGED vars
    BY DEF Crash, vars, Ledger!ledgerVars, Completed
  <2> QED
    BY <2>1, <2>2, <2>3, <2>4, <2>5, <2>6, <2>7 DEF Next, Step, FspRegisterOneTimeKey, TroRegisterOneTimeKey,
    RegisterStep, IssueGrantCredentials, GetConnectionIds, IssueTro, IssueFsp
<1> QED
  BY <1>1, <1>2, PairingInvariant, PTL DEF Spec, ImplementsLedger, Ledger!LedgerSpec

-----------------------------------------------------------------------------
(* One issuer per key.  The argument: a request goes on to the grant only  *)
(* if the row it read had the other side's column, which only a save of    *)
(* the other side's request can have put there.  If both of two racing     *)
(* requests went on, each would have saved before the other read.          *)

(* r is at its save, about to go on to the grant, in it, or through it.    *)
IsIssuer(r) ==
  \/ pc[r] \in {"saveLoad", "saveWrite"} /\ GoesOnToGrant(rec[r])
  \/ pc[r] \in {"grantFind"} \cup Issuing
  \/ reply[r] # Null /\ reply[r].state = "completed"

PastSave == {"msgStarted", "grantFind", "done"} \cup Issuing

(* A request of side s over k has its save behind it, done or failed.      *)
SideSaved(k, s) ==
  \E q \in Requests :
     call[q] # Null /\ call[q].key = k /\ call[q].op = s /\ pc[q] \in PastSave

Grants(op) == op \in Sides \/ op = "issueGrantCreds"

(* Whose save a request, or a column of a row, relies on.                  *)
SavedInv ==
  /\ \A r \in Requests : pc[r] = "idle" => call[r] = Null
  /\ \A r \in Requests : IsIssuer(r) => call[r] \in Calls /\ Grants(call[r].op)
  /\ \A k \in Keys, s \in Sides :
        (oneTimeKey[k] # Null /\ oneTimeKey[k].conn[s] # Null) => SideSaved(k, s)
  /\ \A r \in Requests, s \in Sides :
        (pc[r] \in {"saveLoad", "saveWrite"} /\ s # call[r].op /\ rec[r].conn[s] \in Conns)
           => SideSaved(call[r].key, s)
  /\ \A r \in Requests, s \in Sides :
        (IsIssuer(r) /\ call[r].op \in Sides /\ s # call[r].op) => SideSaved(call[r].key, s)

OneIssuer ==
  \A q, r \in Requests :
     (IsIssuer(q) /\ IsIssuer(r) /\ call[q].key = call[r].key /\ GivenOnce(call[q].key)) => q = r

(* What was asked, and a save behind a request, stay.                      *)
LEMMA CallsStay ==
  ASSUME TypeInv, SavedInv, [Next]_vars, NEW r \in Requests
  PROVE  /\ call[r] # Null => call'[r] = call[r]
         /\ pc[r] \in PastSave => pc'[r] \in PastSave
         /\ pc[r] # "idle" => pc'[r] # "idle"
<1> USE DEF PastSave, Issuing, TypeInv, TypeOK
<1>1. CASE UNCHANGED vars
  BY <1>1 DEF vars
<1>2. ASSUME NEW q \in Requests, NEW c \in Calls, Arrive(q, c)
      PROVE  (call[r] # Null => call'[r] = call[r]) /\ (pc[r] # "idle" => pc'[r] = pc[r])
  BY <1>2 DEF Arrive, Goto, SavedInv
<1>3. ASSUME NEW q \in Requests, Throw(q)
      PROVE  call' = call /\ (pc'[r] = pc[r] \/ pc'[r] = "done")
  BY <1>3 DEF Throw, Finish, Goto
<1>4. ASSUME NEW q \in Requests,
             \/ Prove(q) \/ Find(q) \/ SaveLoad(q) \/ SaveWrite(q) \/ MsgStarted(q)
      PROVE  call' = call /\ (pc[r] \in PastSave => pc'[r] \in PastSave) /\ (pc[r] # "idle" => pc'[r] # "idle")
  BY <1>3, <1>4 DEF Prove, Find, SaveLoad, SaveWrite, MsgStarted, Finish, Goto
<1>5. ASSUME NEW q \in Requests,
             \/ GrantFind(q) \/ IssueTro(q) \/ IssueFsp(q) \/ SaveConn(q) \/ MsgFsp(q) \/ MsgTro(q)
      PROVE  call' = call /\ (pc[r] \in PastSave => pc'[r] \in PastSave) /\ (pc[r] # "idle" => pc'[r] # "idle")
  BY <1>3, <1>5 DEF GrantFind, IssueTro, IssueFsp, IssueCredential, SaveConn, MsgFsp, MsgTro, Finish, Goto
<1>6. ASSUME NEW q \in Requests, IdsFindKey(q) \/ IdsFindConn(q) \/ Fault(q)
      PROVE  call' = call /\ (pc[r] \in PastSave => pc'[r] \in PastSave) /\ (pc[r] # "idle" => pc'[r] # "idle")
  BY <1>3, <1>6 DEF IdsFindKey, IdsFindConn, Fault, Finish, Goto
<1>7. CASE Crash
  BY <1>7 DEF Crash, InFlight
<1> QED
  BY <1>1, <1>2, <1>4, <1>5, <1>6, <1>7 DEF Next, Step, FspRegisterOneTimeKey, TroRegisterOneTimeKey,
    RegisterStep, IssueGrantCredentials, GetConnectionIds

LEMMA SideSavedStays ==
  ASSUME TypeInv, SavedInv, [Next]_vars, NEW k, NEW s, SideSaved(k, s)
  PROVE  SideSaved(k, s)'
<1>1. PICK q \in Requests :
         call[q] # Null /\ call[q].key = k /\ call[q].op = s /\ pc[q] \in PastSave
  BY DEF SideSaved
<1>2. call'[q] = call[q] /\ pc'[q] \in PastSave
  BY <1>1, CallsStay
<1> QED
  BY <1>1, <1>2 DEF SideSaved

(* A request enters its save by Find, and the grant by its save, or by     *)
(* arriving as a request for grants.                                       *)
LEMMA IssuerSteps ==
  ASSUME TypeInv, [Next]_vars, NEW r \in Requests
  PROVE  /\ pc'[r] \in {"saveLoad", "saveWrite"} =>
               \/ Find(r)
               \/ /\ pc[r] \in {"saveLoad", "saveWrite"}
                  /\ rec'[r] = rec[r] /\ call'[r] = call[r]
         /\ IsIssuer(r)' =>
               \/ Find(r)
               \/ IsIssuer(r) /\ call'[r] = call[r]
               \/ /\ call'[r] \in Calls /\ call'[r].op = "issueGrantCreds"
<1> DEFINE Stays == /\ pc'[r] \in {"saveLoad", "saveWrite"} =>
                         /\ pc[r] \in {"saveLoad", "saveWrite"}
                         /\ rec'[r] = rec[r] /\ call'[r] = call[r]
                    /\ IsIssuer(r)' => IsIssuer(r) /\ call'[r] = call[r]
           Same == /\ pc'[r] = pc[r] /\ rec'[r] = rec[r] /\ call'[r] = call[r]
                   /\ reply'[r] = reply[r]
<1> USE DEF TypeInv, TypeOK
<1>0. Same => Stays
  BY DEF IsIssuer, Issuing, GoesOnToGrant
<1>1. CASE UNCHANGED vars
  BY <1>0, <1>1 DEF vars
<1>2. ASSUME NEW q \in Requests, NEW c \in Calls, Arrive(q, c)
      PROVE  \/ Stays
             \/ /\ pc'[r] \notin {"saveLoad", "saveWrite"}
                /\ call'[r] \in Calls /\ call'[r].op = "issueGrantCreds"
  <2>1. CASE q # r
    BY <1>0, <1>2, <2>1 DEF Arrive, Goto
  <2>2. CASE q = r
    <3>1. call'[r] = c /\ pc'[r] = FirstStep(c.op) /\ reply'[r] = Null
      BY <1>2, <2>2 DEF Arrive, Goto, LocalsInv
    <3>2. pc'[r] \in {"prove", "grantFind", "ids"} /\ (pc'[r] = "grantFind" => c.op = "issueGrantCreds")
      BY <3>1 DEF FirstStep, Calls, AllOps, Sides, QueryOps
    <3> QED
      BY <3>1, <3>2 DEF IsIssuer, Issuing
  <2> QED
    BY <2>1, <2>2
<1>3. ASSUME NEW q \in Requests, NEW state, NEW ids, Finish(q, state, ids),
             state # "completed" \/ q # r
      PROVE  Stays
  <2>1. CASE q # r
    BY <1>0, <1>3, <2>1 DEF Finish, Goto
  <2>2. CASE q = r
    <3>1. pc'[r] = "done" /\ reply'[r].state = state
      BY <1>3, <2>2 DEF Finish, Goto
    <3> QED
      BY <1>3, <2>2, <3>1 DEF IsIssuer, Issuing
  <2> QED
    BY <2>1, <2>2
<1>4. ASSUME NEW q \in Requests, Throw(q) PROVE Stays
  BY <1>3, <1>4 DEF Throw
<1>5. ASSUME NEW q \in Requests, Prove(q) PROVE Stays
  BY <1>4, <1>5 DEF Prove, Goto, IsIssuer, Issuing, GoesOnToGrant
<1>6. ASSUME NEW q \in Requests, Find(q) PROVE Stays \/ Find(r)
  BY <1>0, <1>6 DEF Find, Goto
<1>7. ASSUME NEW q \in Requests, SaveLoad(q) PROVE Stays
  BY <1>7 DEF SaveLoad, Goto, IsIssuer, Issuing, GoesOnToGrant
<1>8. ASSUME NEW q \in Requests, SaveWrite(q) PROVE Stays
  <2>1. CASE Throw(q)
    BY <1>4, <2>1
  <2>2. CASE /\ Goto(q, IF GoesOnToGrant(rec[q]) THEN "grantFind" ELSE "msgStarted")
             /\ UNCHANGED <<call, rec, snap, reply>>
    BY <1>8, <2>2 DEF SaveWrite, Goto, IsIssuer, Issuing, GoesOnToGrant
  <2> QED
    BY <1>8, <2>1, <2>2 DEF SaveWrite
<1>9. ASSUME NEW q \in Requests, MsgStarted(q) PROVE Stays
  BY <1>3, <1>9 DEF MsgStarted
<1>10. ASSUME NEW q \in Requests,
              pc[q] \in {"grantFind"} \cup Issuing, pc' \in {[pc EXCEPT ![q] = l] : l \in Issuing},
              UNCHANGED <<call, reply>>, \A x \in Requests \ {q} : rec'[x] = rec[x]
       PROVE  Stays
  BY <1>10 DEF IsIssuer, Issuing, GoesOnToGrant
<1>11. ASSUME NEW q \in Requests, GrantFind(q) PROVE Stays
  <2>1. CASE Throw(q)
    BY <1>4, <2>1
  <2>2. CASE /\ rec' = [rec EXCEPT ![q] = oneTimeKey[call[q].key]]
             /\ Goto(q, "issueTro") /\ UNCHANGED <<call, reply>>
    BY <1>10, <1>11, <2>2 DEF GrantFind, Goto, Issuing
  <2> QED
    BY <1>11, <2>1, <2>2 DEF GrantFind
<1>12. ASSUME NEW q \in Requests, IssueTro(q) \/ IssueFsp(q) PROVE Stays
  BY <1>4, <1>10, <1>12 DEF IssueTro, IssueFsp, IssueCredential, Goto, Issuing
<1>13. ASSUME NEW q \in Requests, SaveConn(q) \/ MsgFsp(q) PROVE Stays
  BY <1>10, <1>13 DEF SaveConn, MsgFsp, Goto, Issuing
<1>14. ASSUME NEW q \in Requests, MsgTro(q) PROVE Stays
  <2>1. CASE q # r
    BY <1>3, <1>14, <2>1 DEF MsgTro
  <2>2. CASE q = r
    BY <1>14, <2>2 DEF MsgTro, Finish, Goto, IsIssuer, Issuing
  <2> QED
    BY <2>1, <2>2
<1>15. ASSUME NEW q \in Requests, IdsFindKey(q) PROVE Stays
  <2>1. CASE Finish(q, "waiting", Null) \/ Finish(q, "accepted", Null)
    BY <1>3, <2>1
  <2>2. CASE Goto(q, "idsFindConn") /\ UNCHANGED <<call, snap, reply>>
             /\ rec' = [rec EXCEPT ![q] = oneTimeKey[call[q].key]]
    BY <1>15, <2>2 DEF Goto, IsIssuer, Issuing, GoesOnToGrant
  <2> QED
    BY <1>15, <2>1, <2>2, IdsFindKeyCases
<1>16. ASSUME NEW q \in Requests, IdsFindConn(q) PROVE Stays
  BY <1>3, <1>4, <1>16 DEF IdsFindConn
<1>17. ASSUME NEW q \in Requests, Fault(q) PROVE Stays
  BY <1>4, <1>17 DEF Fault
<1>18. CASE Crash
  BY <1>18 DEF Crash, InFlight, IsIssuer, Issuing
<1> QED
  BY <1>1, <1>2, <1>5, <1>6, <1>7, <1>8, <1>9, <1>11, <1>12, <1>13, <1>14, <1>15, <1>16, <1>17, <1>18
     DEF Next, Step, FspRegisterOneTimeKey, TroRegisterOneTimeKey,
         RegisterStep, IssueGrantCredentials, GetConnectionIds

(* A column of a row is set only by the save of a request that has it.     *)
LEMMA ColumnSteps ==
  ASSUME TypeInv, [Next]_vars, NEW k \in Keys, NEW s \in Sides,
         oneTimeKey'[k] # Null, oneTimeKey'[k].conn[s] # Null
  PROVE  \/ oneTimeKey[k] # Null /\ oneTimeKey[k].conn[s] # Null
         \/ \E r \in Requests :
              /\ SaveWrite(r) /\ call[r].key = k /\ rec[r].conn[s] \in Conns
              /\ call'[r] = call[r] /\ pc'[r] \in {"grantFind", "msgStarted"}
<1> USE DEF TypeInv, TypeOK
<1>1. CASE oneTimeKey' = oneTimeKey
  BY <1>1
<1>2. ASSUME NEW r \in Requests, SaveWrite(r), oneTimeKey' # oneTimeKey
      PROVE  \/ oneTimeKey[k] # Null /\ oneTimeKey[k].conn[s] # Null
             \/ /\ call[r].key = k /\ rec[r].conn[s] \in Conns
                /\ call'[r] = call[r] /\ pc'[r] \in {"grantFind", "msgStarted"}
  <2>1. call[r].key \in Keys /\ rec[r] \in OneTimeKeyEntity
    BY <1>2 DEF SaveWrite, LocalsInv, Registering, Calls
  <2>2. /\ oneTimeKey' = [oneTimeKey EXCEPT ![call[r].key] =
              IF snap[r] = Null THEN InsertedRow(rec[r])
                                ELSE UpdatedRow(rec[r], snap[r], oneTimeKey[call[r].key])]
        /\ call'[r] = call[r] /\ pc'[r] \in {"grantFind", "msgStarted"}
    BY <1>2 DEF SaveWrite, Goto
  <2>3. CASE k # call[r].key
    BY <2>1, <2>2, <2>3
  <2>4. CASE k = call[r].key /\ snap[r] = Null
    BY <2>1, <2>2, <2>4, InsertedRowConn
  <2>5. CASE k = call[r].key /\ snap[r] # Null
    <3>1. oneTimeKey[k] # Null
      BY <2>5 DEF LocalsInv
    <3>2. oneTimeKey'[k] = UpdatedRow(rec[r], snap[r], oneTimeKey[k])
      BY <2>1, <2>2, <2>5
    <3> QED
      BY <2>1, <2>2, <2>5, <3>1, <3>2, UpdatedRowConn
  <2> QED
    BY <2>3, <2>4, <2>5
<1>3. CASE \A r \in Requests : ~SaveWrite(r)
  <2>1. oneTimeKey' = oneTimeKey
    BY <1>3 DEF Next, Step, FspRegisterOneTimeKey, TroRegisterOneTimeKey, RegisterStep, IssueGrantCredentials,
      GetConnectionIds, vars, Arrive, Prove, Find, SaveLoad, MsgStarted, GrantFind, IssueTro, IssueFsp,
      IssueCredential, SaveConn, MsgFsp, MsgTro, IdsFindKey, IdsFindConn, Fault, Crash
  <2> QED
    BY <1>1, <2>1
<1> QED
  BY <1>1, <1>2, <1>3

(* What Find makes of the row it reads.                                    *)
LEMMA FoundEntity ==
  ASSUME TypeInv, NEW r \in Requests, Find(r)
  PROVE  /\ call[r] \in Calls /\ call[r].op \in Sides /\ call[r].key \in Keys
         /\ call'[r] = call[r] /\ pc'[r] = "saveLoad"
         /\ \A s \in Sides \ {call[r].op} :
              rec'[r].conn[s] \in Conns =>
                 oneTimeKey[call[r].key] # Null /\ oneTimeKey[call[r].key].conn[s] = rec'[r].conn[s]
<1> USE DEF TypeInv, TypeOK
<1>1. call[r] \in Calls /\ call[r].op \in Sides /\ call[r].conn \in Conns /\ call[r].key \in Keys
  BY DEF Find, LocalsInv, Registering, Calls
<1>2. call'[r] = call[r] /\ pc'[r] = "saveLoad"
  BY DEF Find, Goto
<1>3. rec'[r] = IF oneTimeKey[call[r].key] = Null
                THEN NewEntity(call[r].op, call[r].conn)
                ELSE WithConn(oneTimeKey[call[r].key], call[r].op, call[r].conn)
  BY DEF Find
<1>4. CASE oneTimeKey[call[r].key] = Null
  BY <1>1, <1>2, <1>3, <1>4, NewEntityConn
<1>5. CASE oneTimeKey[call[r].key] # Null
  BY <1>1, <1>2, <1>3, <1>5 DEF WithConn
<1> QED
  BY <1>4, <1>5

LEMMA SavedStep ==
  ASSUME TypeInv, TypeInv', SavedInv, [Next]_vars
  PROVE  SavedInv'
<1>1. ASSUME NEW r \in Requests, pc'[r] = "idle" PROVE call'[r] = Null
  <2>1. pc[r] = "idle"
    BY <1>1, CallsStay
  <2>2. call[r] = Null
    BY <2>1 DEF SavedInv
  <2>3. UNCHANGED vars \/ (\E q \in Requests, c \in Calls : Arrive(q, c) /\ q # r) \/ call' = call
    BY <1>1, <2>1 DEF Next, Step, FspRegisterOneTimeKey, TroRegisterOneTimeKey, RegisterStep,
      IssueGrantCredentials, GetConnectionIds, Arrive, Goto, FirstStep, TypeInv, TypeOK, Prove, Find, SaveLoad,
      SaveWrite, MsgStarted, GrantFind, IssueTro, IssueFsp, IssueCredential, SaveConn, MsgFsp,
      MsgTro, IdsFindKey, IdsFindConn, Fault, Crash, Throw, Finish
  <2> QED
    BY <2>2, <2>3 DEF vars, Arrive, TypeInv, TypeOK
<1>2. ASSUME NEW r \in Requests, IsIssuer(r)' PROVE call'[r] \in Calls /\ Grants(call'[r].op)
  BY <1>2, IssuerSteps, FoundEntity DEF SavedInv, Grants
<1>3. ASSUME NEW k \in Keys, NEW s \in Sides, oneTimeKey'[k] # Null, oneTimeKey'[k].conn[s] # Null
      PROVE  SideSaved(k, s)'
  <2>1. CASE oneTimeKey[k] # Null /\ oneTimeKey[k].conn[s] # Null
    BY <2>1, SideSavedStays DEF SavedInv
  <2>2. ASSUME NEW r \in Requests, SaveWrite(r), call[r].key = k, rec[r].conn[s] \in Conns,
               call'[r] = call[r], pc'[r] \in {"grantFind", "msgStarted"}
        PROVE  SideSaved(k, s)'
    <3>1. call[r] \in Calls /\ pc[r] = "saveWrite" /\ call'[r] # Null
      BY <2>2, PairingConstants DEF SaveWrite, TypeInv, LocalsInv
    <3>2. CASE s = call[r].op
      BY <2>2, <3>1, <3>2 DEF SideSaved, PastSave
    <3>3. CASE s # call[r].op
      BY <2>2, <3>1, <3>3, SideSavedStays DEF SavedInv
    <3> QED
      BY <3>2, <3>3
  <2> QED
    BY <1>3, <2>1, <2>2, ColumnSteps
<1>4. ASSUME NEW r \in Requests, NEW s \in Sides, Find(r), s # call'[r].op, rec'[r].conn[s] \in Conns
      PROVE  SideSaved(call[r].key, s)'
  <2>1. /\ call'[r] = call[r] /\ call[r].key \in Keys
        /\ oneTimeKey[call[r].key] # Null /\ oneTimeKey[call[r].key].conn[s] = rec'[r].conn[s]
    BY <1>4, FoundEntity
  <2>2. PICK k \in Keys : k = call[r].key
    BY <2>1
  <2>3. SideSaved(k, s)
    BY <1>4, <2>1, <2>2, PairingConstants DEF SavedInv
  <2> QED
    BY <2>1, <2>2, <2>3, SideSavedStays DEF SideSaved
<1>5. ASSUME NEW r \in Requests, NEW s \in Sides,
             pc'[r] \in {"saveLoad", "saveWrite"}, s # call'[r].op, rec'[r].conn[s] \in Conns
      PROVE  SideSaved(call[r].key, s)'
  <2>1. CASE Find(r)
    BY <1>4, <1>5, <2>1
  <2>2. CASE pc[r] \in {"saveLoad", "saveWrite"} /\ rec'[r] = rec[r] /\ call'[r] = call[r]
    <3>1. PICK k : k = call[r].key
      OBVIOUS
    <3>2. SideSaved(k, s)
      BY <1>5, <2>2, <3>1 DEF SavedInv
    <3> QED
      BY <2>2, <3>1, <3>2, SideSavedStays DEF SideSaved
  <2> QED
    BY <1>5, <2>1, <2>2, IssuerSteps
<1>6. ASSUME NEW r \in Requests, NEW s \in Sides,
             IsIssuer(r)', call'[r].op \in Sides, s # call'[r].op
      PROVE  SideSaved(call[r].key, s)'
  <2>1. CASE Find(r)
    <3>1. pc'[r] = "saveLoad" /\ reply'[r] = Null
      BY <2>1, FoundEntity DEF TypeInv, LocalsInv
    <3>2. rec'[r].conn[s] \in Conns
      BY <1>6, <3>1 DEF IsIssuer, Issuing, GoesOnToGrant
    <3> QED
      BY <1>4, <1>6, <2>1, <3>2
  <2>2. CASE IsIssuer(r) /\ call'[r] = call[r]
    <3>1. PICK k : k = call[r].key
      OBVIOUS
    <3>2. SideSaved(k, s)
      BY <1>6, <2>2, <3>1 DEF SavedInv
    <3> QED
      BY <2>2, <3>1, <3>2, SideSavedStays DEF SideSaved
  <2>3. CASE call'[r].op = "issueGrantCreds"
    BY <1>6, <2>3 DEF Sides
  <2> QED
    BY <1>6, <2>1, <2>2, <2>3, IssuerSteps
<1> QED
  BY <1>1, <1>2, <1>3, <1>5, <1>6 DEF SavedInv

LEMMA GivenOnceBefore ==
  ASSUME TypeInv, SavedInv, [Next]_vars, NEW k, GivenOnce(k)'
  PROVE  GivenOnce(k)
<1>1. \A r \in Requests : call[r] # Null => call'[r] = call[r]
  BY CallsStay
<1> QED
  BY <1>1 DEF GivenOnce

LEMMA OneIssuerStep ==
  ASSUME TypeInv, TypeInv', SavedInv, SavedInv', OneIssuer, [Next]_vars
  PROVE  OneIssuer'
<1> SUFFICES ASSUME NEW q \in Requests, NEW r \in Requests, IsIssuer(q)', IsIssuer(r)',
                    call'[q].key = call'[r].key, GivenOnce(call[q].key)', q # r
             PROVE  FALSE
  BY DEF OneIssuer
<1>0. PICK k : k = call'[q].key
  OBVIOUS
<1>1. GivenOnce(k) /\ GivenOnce(k)'
  <2>1. GivenOnce(k)'
    BY <1>0 DEF GivenOnce
  <2> QED
    BY <2>1, GivenOnceBefore
<1>2. ASSUME NEW x \in Requests, IsIssuer(x)', call'[x].key = k
      PROVE  call'[x] # Null /\ call'[x].op \in Sides
  <2>1. call'[x] \in Calls /\ Grants(call'[x].op)
    BY <1>2 DEF SavedInv
  <2>2. call'[x] # Null
    BY <2>1, PairingConstants
  <2>3. call'[x].op # "issueGrantCreds"
    BY <1>1, <1>2, <2>2 DEF GivenOnce
  <2> QED
    BY <2>1, <2>2, <2>3 DEF Grants
<1>3. ASSUME NEW x \in Requests, NEW y \in Requests, x # y, Find(x), IsIssuer(y)',
             call'[x].key = k, call'[y].key = k, IsIssuer(x)'
      PROVE  FALSE
  <2>1. call'[x] # Null /\ call'[x].op \in Sides /\ call'[y] # Null /\ call'[y].op \in Sides
    BY <1>2, <1>3
  <2>2. call'[x].op # call'[y].op
    BY <1>1, <1>3, <2>1 DEF GivenOnce
  <2>3. PICK s \in Sides : s = call'[x].op
    BY <2>1
  <2>7. SideSaved(call[y].key, s)'
    BY <1>3, <2>1, <2>2, <2>3 DEF SavedInv
  <2>4. PICK z \in Requests : /\ call'[z] # Null /\ call'[z].key = k
                              /\ call'[z].op = call'[x].op /\ pc'[z] \in PastSave
    BY <1>3, <2>3, <2>7 DEF SideSaved
  <2>5. z = x
    BY <1>1, <1>3, <2>1, <2>4 DEF GivenOnce
  <2>6. pc'[x] = "saveLoad"
    BY <1>3, FoundEntity
  <2> QED
    BY <2>4, <2>5, <2>6 DEF PastSave, Issuing
<1>4. ASSUME NEW x \in Requests, IsIssuer(x)', call'[x].key = k
      PROVE  Find(x) \/ (IsIssuer(x) /\ call'[x] = call[x])
  BY <1>2, <1>4, IssuerSteps DEF Sides
<1>5. CASE Find(q)
  BY <1>0, <1>3, <1>5
<1>6. CASE Find(r)
  BY <1>0, <1>3, <1>6
<1>7. CASE IsIssuer(q) /\ IsIssuer(r) /\ call'[q] = call[q] /\ call'[r] = call[r]
  BY <1>0, <1>1, <1>7 DEF OneIssuer
<1> QED
  BY <1>0, <1>4, <1>5, <1>6, <1>7

(* When each side gives a key once, one request at most issues its grants. *)
THEOREM OneRequestIssues == Spec => []OneIssuerPerKey
<1>1. Init => SavedInv /\ OneIssuer
  <2> SUFFICES ASSUME Init PROVE SavedInv /\ OneIssuer
    OBVIOUS
  <2>1. \A r \in Requests : ~IsIssuer(r)
    BY DEF Init, IsIssuer, Issuing
  <2> QED
    BY <2>1 DEF Init, SavedInv, OneIssuer
<1>2. TypeInv /\ TypeInv' /\ SavedInv /\ OneIssuer /\ [Next]_vars => SavedInv' /\ OneIssuer'
  BY SavedStep, OneIssuerStep
<1>3. OneIssuer => OneIssuerPerKey
  BY DEF OneIssuer, OneIssuerPerKey, IsIssuer
<1> QED
  BY <1>1, <1>2, <1>3, TypeInvariant, PTL DEF Spec
=============================================================================
