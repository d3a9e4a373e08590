------------------------ MODULE TdcPairingSerialProofs ------------------------
(***************************************************************************)
(* Proofs about TdcPairing when its clients send one request at a time     *)
(* (Serial), with any faults and any restarts: what the code's comments    *)
(* say of registrations, which overlapping requests break.                 *)
(*                                                                         *)
(* The argument: with one request in flight, what it read is still so when *)
(* it writes.  Its entity is the row with its own column set, its save     *)
(* writes that and erases nothing, and it goes on to the grant exactly     *)
(* when its save completes the row.                                        *)
(***************************************************************************)
EXTENDS TdcPairingProofs

Row(r) == oneTimeKey[call[r].key]

(* The entity Find makes of the row as it is now.                          *)
Intended(r) ==
  IF Row(r) = Null THEN NewEntity(call[r].op, call[r].conn)
                   ELSE WithConn(Row(r), call[r].op, call[r].conn)

OneAtATime == \A q, r \in Requests : (InFlight(q) /\ InFlight(r)) => q = r

(* Nothing sets the column sent.                                           *)
NeverSent ==
  /\ \A k \in Keys : oneTimeKey[k] # Null => ~oneTimeKey[k].sent
  /\ \A r \in Requests : rec[r] # Null => ~rec[r].sent

(* What the request in flight read is still so.                            *)
SerialOK(r) ==
  /\ pc[r] \in {"saveLoad", "saveWrite"} => rec[r] = Intended(r)
  /\ pc[r] = "saveWrite" => snap[r] = Row(r)
  /\ pc[r] = "msgStarted" => ~BothSides(call[r].key)
  /\ pc[r] \in {"grantFind"} \cup Issuing =>
        Grants(call[r].op) /\ (call[r].op \in Sides => BothSides(call[r].key))
  /\ pc[r] \in Issuing \cup {"idsFindConn"} => rec[r] = Row(r)
  /\ pc[r] = "idsFindConn" => BothSides(call[r].key)

Granting(k) ==
  \E r \in Requests :
     /\ pc[r] \in {"grantFind", "issueTro", "issueFsp", "saveConn"}
     /\ call[r].key = k /\ call[r].op \in Sides

(* A completed row is granted, about to be, or its request was cut short.  *)
GrantedInv ==
  \A k \in Keys : (BothSides(k) /\ ~CutShort(k)) =>
     Pair(oneTimeKey[k].conn) \in fspTroConnection \/ Granting(k)

SerialInv == OneAtATime /\ NeverSent /\ (\A r \in Requests : SerialOK(r)) /\ GrantedInv

-----------------------------------------------------------------------------
(* One save, with nothing in between.                                      *)

LEMMA SaveOfNewEntity ==
  ASSUME NEW s \in Sides, NEW c \in Conns
  PROVE  /\ \A t \in Sides : InsertedRow(NewEntity(s, c)).conn[t] = IF t = s THEN c ELSE Null
         /\ ~InsertedRow(NewEntity(s, c)).sent
         /\ ~GoesOnToGrant(NewEntity(s, c))
<1>1. \A t \in Sides : NewEntity(s, c).conn[t] = IF t = s THEN c ELSE Undefined
  BY DEF NewEntity
<1>2. \E t \in Sides : NewEntity(s, c).conn[t] = Undefined
  BY <1>1 DEF Sides
<1>3. ~GoesOnToGrant(NewEntity(s, c))
  BY <1>2, PairingConstants DEF GoesOnToGrant
<1>4. ~InsertedRow(NewEntity(s, c)).sent
  BY DEF InsertedRow, NewEntity
<1>5. \A t \in Sides : InsertedRow(NewEntity(s, c)).conn[t] = IF t = s THEN c ELSE Null
  BY <1>1, PairingConstants DEF InsertedRow
<1> QED
  BY <1>3, <1>4, <1>5

LEMMA SaveOfWithConn ==
  ASSUME NEW row \in OneTimeKeyRow, ~row.sent, NEW s \in Sides, NEW c \in Conns
  PROVE  /\ \A t \in Sides : UpdatedRow(WithConn(row, s, c), row, row).conn[t]
                                = IF t = s THEN c ELSE row.conn[t]
         /\ ~UpdatedRow(WithConn(row, s, c), row, row).sent
         /\ GoesOnToGrant(WithConn(row, s, c)) <=> \A t \in Sides \ {s} : row.conn[t] # Null
<1>1. /\ \A t \in Sides : WithConn(row, s, c).conn[t] = IF t = s THEN c ELSE row.conn[t]
      /\ ~WithConn(row, s, c).sent
  BY DEF WithConn
<1>2. \A t \in Sides : row.conn[t] \in Conns \cup {Null}
  BY DEF OneTimeKeyRow, Columns
<1>3. GoesOnToGrant(WithConn(row, s, c)) <=> \A t \in Sides \ {s} : row.conn[t] # Null
  BY <1>1, <1>2, PairingConstants DEF GoesOnToGrant
<1>4. ~UpdatedRow(WithConn(row, s, c), row, row).sent
  BY <1>1 DEF UpdatedRow
<1>5. \A t \in Sides : UpdatedRow(WithConn(row, s, c), row, row).conn[t]
                          = IF t = s THEN c ELSE row.conn[t]
  BY <1>1, <1>2, PairingConstants DEF UpdatedRow
<1> QED
  BY <1>3, <1>4, <1>5

(* The save sets the request's own column, keeps the other and leads to    *)
(* the grant if the row is then complete.                                  *)
LEMMA SerialSave ==
  ASSUME TypeInv, TypeInv', NeverSent, NEW r \in Requests, SerialOK(r), SaveWrite(r)
  PROVE  /\ call[r].key \in Keys /\ call[r].op \in Sides /\ call[r].conn \in Conns
         /\ UNCHANGED <<call, rec, snap, reply>>
         /\ \A k \in Keys \ {call[r].key} : oneTimeKey'[k] = oneTimeKey[k]
         /\ oneTimeKey'[call[r].key] # Null /\ ~oneTimeKey'[call[r].key].sent
         /\ oneTimeKey'[call[r].key].conn[call[r].op] = call[r].conn
         /\ \A s \in Sides \ {call[r].op} :
               oneTimeKey'[call[r].key].conn[s] = IF Row(r) = Null THEN Null ELSE Row(r).conn[s]
         /\ pc' = [pc EXCEPT ![r] = IF BothSides(call[r].key)' THEN "grantFind" ELSE "msgStarted"]
<1> USE DEF TypeInv, TypeOK
<1> DEFINE key == call[r].key  s == call[r].op  c == call[r].conn
           new == IF snap[r] = Null THEN InsertedRow(rec[r])
                                    ELSE UpdatedRow(rec[r], snap[r], oneTimeKey[key])
<1>1. key \in Keys /\ s \in Sides /\ c \in Conns /\ pc[r] = "saveWrite"
  BY DEF SaveWrite, LocalsInv, Registering, Calls
<1>2. rec[r] = Intended(r) /\ snap[r] = Row(r) /\ rec[r] \in OneTimeKeyEntity
  BY <1>1 DEF SerialOK, LocalsInv
<1>3. /\ oneTimeKey' = [oneTimeKey EXCEPT ![key] = new]
      /\ UNCHANGED <<call, rec, snap, reply>>
      /\ pc' = [pc EXCEPT ![r] = IF GoesOnToGrant(rec[r]) THEN "grantFind" ELSE "msgStarted"]
  BY <1>2 DEF SaveWrite, Row, Goto
<1>4. oneTimeKey'[key] = new
  BY <1>1, <1>3
<1>5. /\ \A t \in Sides : new.conn[t] = IF t = s THEN c ELSE IF Row(r) = Null THEN Null ELSE Row(r).conn[t]
      /\ ~new.sent
      /\ GoesOnToGrant(rec[r]) <=> (Row(r) # Null /\ \A t \in Sides \ {s} : Row(r).conn[t] # Null)
      /\ new \in OneTimeKeyRow
  <2>1. CASE Row(r) = Null
    <3>1. rec[r] = NewEntity(s, c) /\ new = InsertedRow(rec[r])
      BY <1>2, <2>1 DEF Intended
    <3>2. /\ \A t \in Sides : new.conn[t] = IF t = s THEN c ELSE Null
          /\ ~new.sent /\ ~GoesOnToGrant(rec[r])
      <4> HIDE DEF new
      <4> QED
        BY <1>1, <3>1, SaveOfNewEntity
    <3>3. new \in OneTimeKeyRow
      BY <1>2, <3>1, InsertedRowType
    <3> HIDE DEF new
    <3> QED
      BY <2>1, <3>2, <3>3
  <2>2. CASE Row(r) # Null
    <3>1. Row(r) \in OneTimeKeyRow /\ ~Row(r).sent
      BY <1>1, <2>2 DEF Row, NeverSent
    <3>2. rec[r] = WithConn(Row(r), s, c) /\ new = UpdatedRow(rec[r], Row(r), Row(r))
      BY <1>2, <2>2 DEF Intended, Row
    <3> HIDE DEF new
    <3>3. /\ \A t \in Sides : new.conn[t] = IF t = s THEN c ELSE Row(r).conn[t]
          /\ ~new.sent
          /\ GoesOnToGrant(rec[r]) <=> \A t \in Sides \ {s} : Row(r).conn[t] # Null
      BY <1>1, <3>1, <3>2, SaveOfWithConn
    <3>4. new \in OneTimeKeyRow
      BY <1>2, <3>1, <3>2, UpdatedRowType
    <3> QED
      BY <2>2, <3>3, <3>4
  <2> QED
    BY <2>1, <2>2
<1> HIDE DEF new
<1>6. oneTimeKey'[key] # Null
  BY <1>4, <1>5, NullIsNoRow
<1>7. BothSides(key)' <=> GoesOnToGrant(rec[r])
  <2>1. BothSides(key)' <=> \A t \in Sides : new.conn[t] # Null
    BY <1>3, <1>4, <1>6 DEF BothSides
  <2>2. c # Null
    BY <1>1, PairingConstants
  <2>3. \E t \in Sides : t # s
    BY DEF Sides
  <2> QED
    BY <1>1, <1>5, <2>1, <2>2, <2>3
<1> QED
  BY <1>1, <1>3, <1>4, <1>5, <1>6, <1>7

-----------------------------------------------------------------------------
(* Who moves, and what a step cannot undo.                                 *)

(* A request's own step, or its failure, touches its own locals only.      *)
LEMMA ActorSteps ==
  ASSUME TypeInv, NEW r \in Requests, Step(r) \/ Fault(r)
  PROVE  /\ InFlight(r) /\ pc'[r] # "idle" /\ call' = call
         /\ \A q \in Requests \ {r} :
              pc'[q] = pc[q] /\ rec'[q] = rec[q] /\ snap'[q] = snap[q] /\ reply'[q] = reply[q]
<1> DEFINE Own == /\ InFlight(r) /\ pc'[r] # "idle" /\ call' = call
                  /\ \A q \in Requests \ {r} :
                       pc'[q] = pc[q] /\ rec'[q] = rec[q] /\ snap'[q] = snap[q] /\ reply'[q] = reply[q]
<1> USE DEF TypeInv, TypeOK, InFlight, Goto
<1>1. ASSUME InFlight(r), NEW state, NEW ids, Finish(r, state, ids) PROVE Own
  BY <1>1 DEF Finish
<1>2. ASSUME InFlight(r), Throw(r) PROVE Own
  BY <1>1, <1>2 DEF Throw
<1> HIDE DEF Own
<1>3. ASSUME Prove(r) PROVE Own
  BY <1>2, <1>3 DEF Prove, Own
<1>4. ASSUME Find(r) \/ SaveLoad(r) \/ SaveConn(r) \/ MsgFsp(r) PROVE Own
  BY <1>4 DEF Find, SaveLoad, SaveConn, MsgFsp, Own
<1>5. ASSUME SaveWrite(r) PROVE Own
  BY <1>2, <1>5 DEF SaveWrite, Own
<1>6. ASSUME MsgStarted(r) \/ MsgTro(r) PROVE Own
  BY <1>1, <1>6 DEF MsgStarted, MsgTro
<1>7. ASSUME GrantFind(r) PROVE Own
  BY <1>2, <1>7 DEF GrantFind, Own
<1>8. ASSUME IssueTro(r) \/ IssueFsp(r) PROVE Own
  BY <1>2, <1>8 DEF IssueTro, IssueFsp, IssueCredential, Own
<1>9. ASSUME IdsFindKey(r) PROVE Own
  BY <1>1, <1>9 DEF IdsFindKey, Own
<1>10. ASSUME IdsFindConn(r) \/ Fault(r) PROVE Own
  BY <1>1, <1>2, <1>10 DEF IdsFindConn, Fault
<1>11. Own
  BY <1>3, <1>4, <1>5, <1>6, <1>7, <1>8, <1>9, <1>10 DEF Step, FspRegisterOneTimeKey, TroRegisterOneTimeKey,
    RegisterStep, IssueGrantCredentials, GetConnectionIds
<1> QED
  BY <1>11 DEF Own

(* A request that has ended stays as it ended.                             *)
LEMMA DoneStays ==
  ASSUME TypeInv, [Next]_vars, NEW r \in Requests, pc[r] = "done"
  PROVE  pc'[r] = "done" /\ call'[r] = call[r] /\ reply'[r] = reply[r]
<1>1. CASE UNCHANGED vars
  BY <1>1 DEF vars
<1>2. ASSUME NEW q \in Requests, NEW c \in Calls, Arrive(q, c)
      PROVE  pc'[r] = "done" /\ call'[r] = call[r] /\ reply'[r] = reply[r]
  BY <1>2 DEF Arrive, Goto, TypeInv, TypeOK
<1>3. ASSUME NEW q \in Requests, Step(q) \/ Fault(q)
      PROVE  pc'[r] = "done" /\ call'[r] = call[r] /\ reply'[r] = reply[r]
  BY <1>3, ActorSteps DEF InFlight
<1>4. CASE Crash
  BY <1>4 DEF Crash, InFlight, TypeInv, TypeOK
<1> QED
  BY <1>1, <1>2, <1>3, <1>4 DEF Next

LEMMA CutShortStays ==
  ASSUME TypeInv, [Next]_vars, NEW k, CutShort(k)
  PROVE  CutShort(k)'
  BY DoneStays DEF CutShort

LEMMA EndsCutShort ==
  ASSUME NEW r \in Requests, NEW k, call'[r].key = k, call'[r].op \in Sides, pc'[r] = "done",
         reply'[r] = Null \/ reply'[r].state = "error"
  PROVE  CutShort(k)'
  BY DEF CutShort

LEMMA OneAtATimeStep ==
  ASSUME Serial, TypeInv, OneAtATime, [Next]_vars
  PROVE  OneAtATime'
<1>1. CASE UNCHANGED vars
  BY <1>1 DEF vars, OneAtATime, InFlight
<1>2. ASSUME NEW r \in Requests, NEW c \in Calls, Arrive(r, c) PROVE OneAtATime'
  BY <1>2 DEF Arrive, MaySend, Goto, OneAtATime, InFlight, TypeInv, TypeOK
<1>3. ASSUME NEW r \in Requests, Step(r) \/ Fault(r) PROVE OneAtATime'
  BY <1>3, ActorSteps DEF OneAtATime, InFlight
<1>4. CASE Crash
  BY <1>4 DEF Crash, OneAtATime, InFlight, TypeInv, TypeOK
<1> QED
  BY <1>1, <1>2, <1>3, <1>4 DEF Next

-----------------------------------------------------------------------------
(* What was read is still so.                                              *)

LEMMA EndedOK ==
  ASSUME NEW r \in Requests, pc[r] \notin {"saveLoad", "saveWrite", "msgStarted", "grantFind", "idsFindConn"} \cup Issuing
  PROVE  SerialOK(r)
  BY DEF SerialOK

(* An error, or an answer, ends what a request relies on.                  *)
LEMMA FinishOK ==
  ASSUME TypeInv, NEW r \in Requests, NEW state, NEW ids, Finish(r, state, ids)
  PROVE  SerialOK(r)' /\ rec'[r] = Null
  BY DEF Finish, Goto, TypeInv, TypeOK, SerialOK, Issuing

LEMMA OwnStepOK ==
  ASSUME TypeInv, TypeInv', NeverSent, NEW r \in Requests, SerialOK(r), Step(r) \/ Fault(r)
  PROVE  SerialOK(r)' /\ NeverSent'
<1> DEFINE Goal == SerialOK(r)' /\ NeverSent'
<1> USE DEF TypeInv, TypeOK
<1>0. ASSUME oneTimeKey' = oneTimeKey, \A q \in Requests \ {r} : rec'[q] = rec[q],
             rec'[r] # Null => ~rec'[r].sent
      PROVE  NeverSent'
  BY <1>0 DEF NeverSent
<1>1. \A q \in Requests \ {r} : rec'[q] = rec[q]
  BY ActorSteps
<1>2. ASSUME NEW state, NEW ids, Finish(r, state, ids), oneTimeKey' = oneTimeKey PROVE Goal
  BY <1>0, <1>1, <1>2, FinishOK
<1>3. ASSUME Throw(r), oneTimeKey' = oneTimeKey PROVE Goal
  BY <1>2, <1>3 DEF Throw
<1>4. ASSUME pc'[r] \in {"prove", "find", "ids"}, rec'[r] = rec[r], oneTimeKey' = oneTimeKey PROVE Goal
  BY <1>0, <1>1, <1>4 DEF SerialOK, NeverSent, Issuing
<1>5. ASSUME Prove(r) PROVE Goal
  BY <1>3, <1>4, <1>5 DEF Prove, Goto
<1>6. ASSUME Find(r) PROVE Goal
  <2>1. call[r] \in Calls /\ call[r].op \in Sides /\ call[r].conn \in Conns /\ call[r].key \in Keys
    BY <1>6 DEF Find, LocalsInv, Registering, Calls
  <2>2. rec'[r] = Intended(r) /\ UNCHANGED <<oneTimeKey, call>> /\ pc'[r] = "saveLoad"
    BY <1>6 DEF Find, Intended, Row, Goto
  <2>3. Intended(r)' = Intended(r)
    BY <2>2 DEF Intended, Row
  <2>4. SerialOK(r)'
    BY <2>2, <2>3 DEF SerialOK, Issuing
  <2>5. ~Intended(r).sent
    BY <2>1 DEF Intended, Row, NeverSent, NewEntity, WithConn
  <2> QED
    BY <1>0, <1>1, <2>2, <2>4, <2>5
<1>7. ASSUME SaveLoad(r) PROVE Goal
  <2>1. snap'[r] = Row(r) /\ UNCHANGED <<oneTimeKey, call, rec>> /\ pc'[r] = "saveWrite" /\ pc[r] = "saveLoad"
    BY <1>7 DEF SaveLoad, Row, Goto
  <2>2. Row(r)' = Row(r) /\ Intended(r)' = Intended(r)
    BY <2>1 DEF Intended, Row
  <2>3. SerialOK(r)'
    BY <2>1, <2>2 DEF SerialOK, Issuing
  <2> QED
    BY <2>1, <2>3 DEF NeverSent
<1>8. ASSUME SaveWrite(r) PROVE Goal
  <2>1. NeverSent'
    BY <1>8, SerialSave DEF NeverSent
  <2>2. SerialOK(r)'
    <3>1. call'[r] = call[r] /\ call[r].op \in Sides
      BY <1>8, SerialSave
    <3>2. CASE BothSides(call[r].key)'
      <4>1. pc'[r] = "grantFind"
        BY <1>8, <3>2, SerialSave
      <4> QED
        BY <3>1, <3>2, <4>1 DEF SerialOK, Issuing, Grants
    <3>3. CASE ~BothSides(call[r].key)'
      <4>1. pc'[r] = "msgStarted"
        BY <1>8, <3>3, SerialSave
      <4> QED
        BY <3>1, <3>3, <4>1 DEF SerialOK, Issuing
    <3> QED
      BY <3>2, <3>3
  <2> QED
    BY <2>1, <2>2
<1>9. ASSUME MsgStarted(r) PROVE Goal
  BY <1>2, <1>9 DEF MsgStarted
<1>10. ASSUME pc[r] \in {"grantFind"} \cup Issuing, pc'[r] \in Issuing, rec'[r] = Row(r),
              Row(r) # Null => ~Row(r).sent, UNCHANGED <<oneTimeKey, call>>
       PROVE  Goal
  <2>1. Row(r)' = Row(r) /\ (BothSides(call[r].key)' <=> BothSides(call[r].key))
    BY <1>10 DEF Row, BothSides
  <2>2. SerialOK(r)'
    BY <1>10, <2>1 DEF SerialOK, Issuing
  <2> QED
    BY <1>0, <1>1, <1>10, <2>2
<1>11. call[r] \in Calls => (Row(r) # Null => ~Row(r).sent)
  BY DEF NeverSent, Row, Calls
<1>12. ASSUME GrantFind(r) PROVE Goal
  <2>1. CASE Throw(r)
    BY <1>3, <1>12, <2>1 DEF GrantFind
  <2>2. CASE /\ rec' = [rec EXCEPT ![r] = Row(r)]
             /\ Goto(r, "issueTro") /\ UNCHANGED <<oneTimeKey, call, reply>>
    <3>1. call[r] \in Calls /\ pc[r] = "grantFind"
      BY <1>12 DEF GrantFind, LocalsInv
    <3> QED
      BY <1>10, <1>11, <2>2, <3>1 DEF Goto, Issuing
  <2> QED
    BY <1>12, <2>1, <2>2 DEF GrantFind, Row
<1>13. ASSUME pc[r] \in Issuing, pc'[r] \in Issuing, UNCHANGED <<oneTimeKey, call, rec>> PROVE Goal
  <2>1. rec'[r] = Row(r) /\ call[r] \in Calls
    BY <1>13 DEF SerialOK, LocalsInv, Issuing
  <2> QED
    BY <1>10, <1>11, <1>13, <2>1
<1>14. ASSUME IssueTro(r) \/ IssueFsp(r) PROVE Goal
  BY <1>3, <1>13, <1>14 DEF IssueTro, IssueFsp, IssueCredential, Goto, Issuing
<1>15. ASSUME SaveConn(r) \/ MsgFsp(r) PROVE Goal
  BY <1>13, <1>15 DEF SaveConn, MsgFsp, Goto, Issuing
<1>16. ASSUME MsgTro(r) PROVE Goal
  BY <1>2, <1>16 DEF MsgTro
<1>17. ASSUME IdsFindKey(r) PROVE Goal
  <2>1. CASE Finish(r, "waiting", Null) \/ Finish(r, "accepted", Null)
    BY <1>2, <1>17, <2>1 DEF IdsFindKey
  <2>2. CASE /\ BothSides(call[r].key)
             /\ rec' = [rec EXCEPT ![r] = Row(r)]
             /\ Goto(r, "idsFindConn") /\ UNCHANGED <<oneTimeKey, call, snap, reply>>
    <3>1. call[r] \in Calls
      BY <1>17 DEF IdsFindKey, LocalsInv
    <3>2. pc'[r] = "idsFindConn" /\ rec'[r] = Row(r) /\ Row(r)' = Row(r)
          /\ (BothSides(call[r].key)' <=> BothSides(call[r].key))
      BY <2>2 DEF Goto, Row, BothSides
    <3>3. SerialOK(r)'
      BY <2>2, <3>2 DEF SerialOK, Issuing
    <3> QED
      BY <1>0, <1>1, <1>11, <2>2, <3>1, <3>2, <3>3
  <2>3. \/ Finish(r, "waiting", Null) \/ Finish(r, "accepted", Null)
        \/ /\ BothSides(call[r].key)
           /\ rec' = [rec EXCEPT ![r] = Row(r)]
           /\ Goto(r, "idsFindConn") /\ UNCHANGED <<oneTimeKey, call, snap, reply>>
    BY <1>17, Zenon DEF IdsFindKey, BothSides, Row
  <2> QED
    BY <2>1, <2>2, <2>3
<1>18. ASSUME IdsFindConn(r) PROVE Goal
  BY <1>2, <1>3, <1>18 DEF IdsFindConn
<1>19. ASSUME Fault(r) PROVE Goal
  BY <1>3, <1>19 DEF Fault
<1> QED
  BY <1>5, <1>6, <1>7, <1>8, <1>9, <1>12, <1>14, <1>15, <1>16, <1>17, <1>18, <1>19
     DEF Step, FspRegisterOneTimeKey, TroRegisterOneTimeKey, RegisterStep,
         IssueGrantCredentials, GetConnectionIds

(* The others are not in flight and rely on nothing.                       *)
LEMMA SerialOKStep ==
  ASSUME Serial, TypeInv, TypeInv', OneAtATime, OneAtATime', NeverSent,
         \A r \in Requests : SerialOK(r), [Next]_vars
  PROVE  NeverSent' /\ \A r \in Requests : SerialOK(r)'
<1>1. ASSUME NEW r \in Requests, ~InFlight(r)' PROVE SerialOK(r)'
  BY <1>1 DEF InFlight, SerialOK, Issuing
<1>2. CASE UNCHANGED vars
  BY <1>2 DEF vars, NeverSent, SerialOK, Row, Intended, BothSides
<1>3. ASSUME NEW r \in Requests, NEW c \in Calls, Arrive(r, c)
      PROVE  NeverSent' /\ \A q \in Requests : SerialOK(q)'
  <2>1. NeverSent'
    BY <1>3 DEF Arrive, NeverSent
  <2>2. call'[r] = c /\ pc'[r] = FirstStep(c.op)
    BY <1>3 DEF Arrive, Goto, TypeInv, TypeOK
  <2>3. pc'[r] \in {"prove", "grantFind", "ids"} /\ (pc'[r] = "grantFind" => c.op = "issueGrantCreds")
    BY <2>2 DEF FirstStep, Calls, AllOps, Sides, QueryOps
  <2>4. SerialOK(r)'
    BY <2>2, <2>3 DEF SerialOK, Issuing, Grants, Sides
  <2>5. \A q \in Requests \ {r} : ~InFlight(q)'
    BY <2>3 DEF OneAtATime, InFlight
  <2> QED
    BY <1>1, <2>1, <2>4, <2>5
<1>4. ASSUME NEW r \in Requests, Step(r) \/ Fault(r)
      PROVE  NeverSent' /\ \A q \in Requests : SerialOK(q)'
  <2>1. SerialOK(r)' /\ NeverSent'
    BY <1>4, OwnStepOK
  <2>2. \A q \in Requests \ {r} : ~InFlight(q)'
    BY <1>4, ActorSteps DEF OneAtATime, InFlight
  <2> QED
    BY <1>1, <2>1, <2>2
<1>5. CASE Crash
  <2>1. \A r \in Requests : ~InFlight(r)'
    BY <1>5 DEF Crash, InFlight
  <2> QED
    BY <1>1, <1>5, <2>1 DEF Crash, NeverSent
<1> QED
  BY <1>2, <1>3, <1>4, <1>5 DEF Next

-----------------------------------------------------------------------------
(* A completed row is granted.                                             *)

LEMMA PairsStay ==
  ASSUME [Next]_vars
  PROVE  fspTroConnection \subseteq fspTroConnection'
  BY DEF Next, Step, FspRegisterOneTimeKey, TroRegisterOneTimeKey, RegisterStep, IssueGrantCredentials,
         GetConnectionIds, vars, Arrive, Prove, Find, SaveLoad, SaveWrite, MsgStarted, GrantFind, IssueTro,
         IssueFsp, IssueCredential, SaveConn, MsgFsp, MsgTro, IdsFindKey, IdsFindConn, Fault, Crash

(* The request about to grant a row goes on, saves the pair or is cut off. *)
LEMMA GrantingSteps ==
  ASSUME TypeInv, NEW r \in Requests, NEW k \in Keys, SerialOK(r), Step(r) \/ Fault(r),
         pc[r] \in {"grantFind", "issueTro", "issueFsp", "saveConn"},
         call[r].key = k, call[r].op \in Sides
  PROVE  CutShort(k)' \/ Granting(k)' \/ Pair(oneTimeKey[k].conn) \in fspTroConnection'
<1> USE DEF TypeInv, TypeOK
<1>1. call' = call
  BY ActorSteps
<1>2. ASSUME Throw(r) PROVE CutShort(k)'
  <2>1. pc'[r] = "done" /\ reply'[r].state = "error"
    BY <1>2 DEF Throw, Finish, Goto
  <2> QED
    BY <1>1, <2>1, EndsCutShort
<1>3. ASSUME NEW l \in {"issueTro", "issueFsp", "saveConn"}, Goto(r, l) PROVE Granting(k)'
  BY <1>1, <1>3 DEF Granting, Goto
<1>4. ASSUME GrantFind(r) PROVE CutShort(k)' \/ Granting(k)'
  BY <1>2, <1>3, <1>4 DEF GrantFind
<1>5. ASSUME IssueTro(r) \/ IssueFsp(r) PROVE CutShort(k)' \/ Granting(k)'
  BY <1>2, <1>3, <1>5 DEF IssueTro, IssueFsp, IssueCredential
<1>6. ASSUME SaveConn(r) PROVE Pair(oneTimeKey[k].conn) \in fspTroConnection'
  BY <1>6 DEF SaveConn, SerialOK, Issuing, Row
<1>7. ASSUME Fault(r) PROVE CutShort(k)'
  BY <1>2, <1>7 DEF Fault
<1>8. GrantFind(r) \/ IssueTro(r) \/ IssueFsp(r) \/ SaveConn(r) \/ Fault(r)
  BY DEF Step, FspRegisterOneTimeKey, TroRegisterOneTimeKey, Registering, IssueGrantCredentials, MsgFsp, MsgTro,
         GetConnectionIds, IdsFindKey, IdsFindConn
<1> QED
  BY <1>4, <1>5, <1>6, <1>7, <1>8

(* The steps that change a row of keys are the saves.                      *)
LEMMA RowSteps ==
  ASSUME [Next]_vars
  PROVE  oneTimeKey' = oneTimeKey \/ \E r \in Requests : SaveWrite(r)
  BY DEF Next, Step, FspRegisterOneTimeKey, TroRegisterOneTimeKey, RegisterStep, IssueGrantCredentials,
         GetConnectionIds, vars, Arrive, Prove, Find, SaveLoad, MsgStarted, GrantFind, IssueTro,
         IssueFsp, IssueCredential, SaveConn, MsgFsp, MsgTro, IdsFindKey, IdsFindConn, Fault, Crash

LEMMA GrantedStep ==
  ASSUME TypeInv, TypeInv', SerialInv, [Next]_vars
  PROVE  GrantedInv'
<1> SUFFICES ASSUME NEW k \in Keys, BothSides(k)', ~CutShort(k)'
             PROVE  (Pair(oneTimeKey[k].conn) \in fspTroConnection)' \/ Granting(k)'
  BY DEF GrantedInv
<1> USE DEF TypeInv, TypeOK, SerialInv
<1>1. ASSUME oneTimeKey'[k] = oneTimeKey[k], NEW r \in Requests, call[r].key = k, call[r].op \in Sides,
             pc[r] \in {"grantFind", "issueTro", "issueFsp", "saveConn"}
      PROVE  CutShort(k)' \/ Granting(k)' \/ (Pair(oneTimeKey[k].conn) \in fspTroConnection)'
  <2>1. ASSUME pc'[r] = pc[r], call'[r] = call[r] PROVE Granting(k)'
    BY <1>1, <2>1 DEF Granting
  <2>2. CASE UNCHANGED vars
    BY <2>1, <2>2 DEF vars
  <2>3. ASSUME NEW q \in Requests, NEW c \in Calls, Arrive(q, c) PROVE Granting(k)'
    BY <1>1, <2>1, <2>3 DEF Arrive, Goto
  <2>4. ASSUME NEW q \in Requests, q # r, Step(q) \/ Fault(q) PROVE Granting(k)'
    BY <2>1, <2>4, ActorSteps
  <2>5. ASSUME Step(r) \/ Fault(r)
        PROVE  CutShort(k)' \/ Granting(k)' \/ (Pair(oneTimeKey[k].conn) \in fspTroConnection)'
    BY <1>1, <2>5, GrantingSteps DEF Pair
  <2>6. CASE Crash
    <3>1. pc'[r] = "done" /\ call'[r] = call[r] /\ reply'[r] = Null
      BY <1>1, <2>6 DEF Crash, InFlight, LocalsInv
    <3> QED
      BY <1>1, <3>1, EndsCutShort
  <2> QED
    BY <2>2, <2>3, <2>4, <2>5, <2>6 DEF Next
<1>2. CASE oneTimeKey'[k] = oneTimeKey[k]
  <2>1. BothSides(k) /\ ~CutShort(k)
    BY <1>2, CutShortStays DEF BothSides
  <2>2. Pair(oneTimeKey[k].conn) \in fspTroConnection \/ Granting(k)
    BY <2>1 DEF GrantedInv
  <2>3. CASE Pair(oneTimeKey[k].conn) \in fspTroConnection
    BY <1>2, <2>3, PairsStay
  <2>4. CASE Granting(k)
    BY <1>1, <1>2, <2>4 DEF Granting
  <2> QED
    BY <2>2, <2>3, <2>4
<1>3. ASSUME NEW r \in Requests, SaveWrite(r), oneTimeKey'[k] # oneTimeKey[k]
      PROVE  Granting(k)'
  <2>1. call[r].key = k /\ call[r].op \in Sides /\ call' = call
    BY <1>3, SerialSave
  <2>2. pc'[r] = IF BothSides(call[r].key)' THEN "grantFind" ELSE "msgStarted"
    BY <1>3, SerialSave
  <2>3. BothSides(call[r].key)'
    BY <2>1 DEF BothSides
  <2> QED
    BY <2>1, <2>2, <2>3 DEF Granting
<1> QED
  BY <1>2, <1>3, RowSteps

(* Under Serial, SerialInv is inductive on top of TypeInv.                 *)
THEOREM SerialInvariant ==
  ASSUME Serial
  PROVE  Spec => []SerialInv
<1>1. Init => SerialInv
  BY DEF Init, SerialInv, OneAtATime, NeverSent, SerialOK, GrantedInv, InFlight, Issuing, BothSides
<1>2. TypeInv /\ TypeInv' /\ SerialInv /\ [Next]_vars => SerialInv'
  BY OneAtATimeStep, SerialOKStep, GrantedStep DEF SerialInv
<1> QED
  BY <1>1, <1>2, TypeInvariant, PTL DEF Spec

-----------------------------------------------------------------------------
(* What the comments of the code promise.                                  *)

(* When requests come one at a time, a completed row has its pair once no  *)
(* request is running, unless a registration of the key was cut short.     *)
THEOREM CompletedRowsAreGranted ==
  ASSUME Serial
  PROVE  Spec => []PairedIsGranted
<1>1. SerialInv => PairedIsGranted
  BY DEF SerialInv, GrantedInv, Granting, PairedIsGranted, InFlight
<1> QED
  BY <1>1, SerialInvariant, PTL

(* When requests come one at a time, no save erases a connection.          *)
THEOREM RegistrationsAreKept ==
  ASSUME Serial
  PROVE  Spec => RegistrationKept
<1>1. TypeInv /\ TypeInv' /\ SerialInv /\ [Next]_vars =>
        [\A k \in Keys, s \in Sides :
           (oneTimeKey[k] # Null /\ oneTimeKey[k].conn[s] # Null) => oneTimeKey'[k].conn[s] # Null]_vars
  <2> SUFFICES ASSUME TypeInv, TypeInv', SerialInv, [Next]_vars, NEW k \in Keys, NEW s \in Sides,
                      oneTimeKey[k] # Null, oneTimeKey[k].conn[s] # Null
               PROVE  oneTimeKey'[k].conn[s] # Null
    OBVIOUS
  <2>1. CASE oneTimeKey' = oneTimeKey
    BY <2>1
  <2>2. ASSUME NEW r \in Requests, SaveWrite(r) PROVE oneTimeKey'[k].conn[s] # Null
    <3>1. SerialOK(r) /\ NeverSent
      BY DEF SerialInv
    <3>2. CASE k # call[r].key
      BY <2>2, <3>1, <3>2, SerialSave
    <3>3. CASE k = call[r].key
      <4>1. CASE s = call[r].op
        BY <2>2, <3>1, <3>3, <4>1, SerialSave, PairingConstants
      <4>2. CASE s # call[r].op
        BY <2>2, <3>1, <3>3, <4>2, SerialSave DEF Row
      <4> QED
        BY <4>1, <4>2
    <3> QED
      BY <3>2, <3>3
  <2> QED
    BY <2>1, <2>2, RowSteps
<1> QED
  BY <1>1, TypeInvariant, SerialInvariant, PTL DEF Spec, RegistrationKept

(* When requests come one at a time, 'started' is answered only while the  *)
(* other side is missing.                                                  *)
THEOREM StartedMeansWait ==
  ASSUME Serial
  PROVE  Spec => StartedMeansOtherSideMissing
<1>1. SerialInv =>
        [\A r \in Requests :
           (pc[r] = "msgStarted" /\ pc'[r] = "done" /\ reply'[r] # Null /\ reply'[r].state = "started")
              => ~BothSides(call[r].key)]_vars
  BY DEF SerialInv, SerialOK
<1> QED
  BY <1>1, SerialInvariant, PTL DEF StartedMeansOtherSideMissing

(* A query is answered 'error' by a fault or for want of a pair.           *)
LEMMA QueryErrors ==
  ASSUME TypeInv, SerialInv, [Next]_vars, NEW r \in Requests,
         call'[r] # Null, call'[r].op \in QueryOps, reply'[r] # Null, reply'[r].state = "error"
  PROVE  \/ call'[r] = call[r] /\ reply'[r] = reply[r]
         \/ call'[r] = call[r] /\ Fault(r)
         \/ call'[r] = call[r] /\ IdsFindConn(r) /\ Throw(r)
<1> DEFINE Same == call'[r] = call[r] /\ reply'[r] = reply[r]
<1> USE DEF TypeInv, TypeOK
<1>1. CASE UNCHANGED vars \/ Crash
  BY <1>1 DEF vars, Crash
<1>2. ASSUME NEW q \in Requests, NEW c \in Calls, Arrive(q, c) PROVE Same
  <2>1. CASE q = r
    BY <1>2, <2>1 DEF Arrive, LocalsInv
  <2>2. CASE q # r
    BY <1>2, <2>2 DEF Arrive
  <2> QED
    BY <2>1, <2>2
<1>3. ASSUME NEW q \in Requests, q # r, Step(q) \/ Fault(q) PROVE Same
  BY <1>3, ActorSteps
<1>4. ASSUME Step(r) PROVE Same \/ (call'[r] = call[r] /\ IdsFindConn(r) /\ Throw(r))
  <2>1. call'[r] = call[r] /\ SerialOK(r)
    BY <1>4, ActorSteps DEF SerialInv
  <2>2. call[r].op \notin Sides /\ ~Grants(call[r].op)
    BY <2>1 DEF QueryOps, Sides, Grants
  <2>3. pc[r] \notin Registering \cup {"grantFind"} \cup Issuing
    BY <2>1, <2>2 DEF SerialOK, LocalsInv
  <2>4. IdsFindKey(r) \/ IdsFindConn(r)
    BY <1>4, <2>3 DEF Step, FspRegisterOneTimeKey, TroRegisterOneTimeKey, IssueGrantCredentials, GetConnectionIds,
      GrantFind, IssueTro, IssueFsp, SaveConn, MsgFsp, MsgTro, Issuing
  <2>5. ASSUME NEW state, NEW ids, Finish(r, state, ids), state # "error" PROVE FALSE
    BY <2>5 DEF Finish
  <2>6. ASSUME IdsFindKey(r) PROVE Same
    BY <2>1, <2>5, <2>6 DEF IdsFindKey
  <2>7. ASSUME IdsFindConn(r) PROVE Throw(r)
    BY <2>5, <2>7 DEF IdsFindConn
  <2> QED
    BY <2>1, <2>4, <2>6, <2>7
<1>5. ASSUME Fault(r) PROVE call'[r] = call[r]
  BY <1>5, ActorSteps
<1> QED
  BY <1>1, <1>2, <1>3, <1>4, <1>5 DEF Next

(* When requests come one at a time, a query that meets no fault is not    *)
(* answered 'error', unless a registration of its key was cut short.       *)
THEOREM QueriesAreAnswered ==
  ASSUME Serial
  PROVE  Spec => []QueriesNeverError
<1>1. Init => QueriesNeverError
  BY DEF Init, QueriesNeverError
<1>2. TypeInv /\ SerialInv /\ QueriesNeverError /\ [Next]_vars => QueriesNeverError'
  <2> SUFFICES ASSUME TypeInv, SerialInv, QueriesNeverError, [Next]_vars, NEW r \in Requests \ Faulty,
                      call'[r] # Null, call'[r].op \in QueryOps, reply'[r] # Null,
                      ~CutShort(call[r].key)', reply'[r].state = "error"
               PROVE  FALSE
    BY DEF QueriesNeverError
  <2>1. PICK k : k = call'[r].key
    OBVIOUS
  <2>2. ~CutShort(k)
    <3>1. ~CutShort(k)'
      BY <2>1 DEF CutShort
    <3> QED
      BY <3>1, CutShortStays
  <2>3. CASE call'[r] = call[r] /\ reply'[r] = reply[r]
    BY <2>1, <2>2, <2>3 DEF QueriesNeverError
  <2>4. CASE call'[r] = call[r] /\ IdsFindConn(r) /\ Throw(r)
    <3>1. pc[r] = "idsFindConn" /\ SerialOK(r) /\ call[r] \in Calls
      BY <2>4 DEF IdsFindConn, SerialInv, TypeInv, LocalsInv
    <3>2. k \in Keys /\ BothSides(k) /\ rec[r] = oneTimeKey[k]
      BY <2>1, <2>4, <3>1 DEF SerialOK, Calls, Row
    <3>3. ~Granting(k)
      <4> SUFFICES ASSUME NEW q \in Requests, pc[q] \in {"grantFind", "issueTro", "issueFsp", "saveConn"}
                   PROVE  FALSE
        BY DEF Granting
      <4>1. q = r
        BY <3>1 DEF SerialInv, OneAtATime, InFlight
      <4> QED
        BY <3>1, <4>1
    <3>4. Pair(oneTimeKey[k].conn) \in fspTroConnection
      BY <2>2, <3>2, <3>3 DEF SerialInv, GrantedInv
    <3>5. Pair(oneTimeKey[k].conn).conn["tro"] = rec[r].conn["tro"]
      BY <3>2, PairConn
    <3>6. {p \in fspTroConnection : p.conn["tro"] = rec[r].conn["tro"]} # {}
      BY <3>4, <3>5
    <3>7. PICK p \in fspTroConnection : Finish(r, "accepted", p.id)
      BY <2>4, <3>6 DEF IdsFindConn
    <3> QED
      BY <3>7 DEF Finish, TypeInv, TypeOK
  <2>5. ~Fault(r)
    BY DEF Fault
  <2> QED
    BY <2>3, <2>4, <2>5, QueryErrors
<1> QED
  BY <1>1, <1>2, TypeInvariant, SerialInvariant, PTL DEF Spec
=============================================================================
