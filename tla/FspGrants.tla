------------------------------ MODULE FspGrants ------------------------------
(***************************************************************************)
(* The bank's side of the pairing: the FSP controller keeps the completed  *)
(* grant notices of the TDC in its tdc_grants table and answers its own    *)
(* user interface, GET ids/:key, from it (fsp transaction.service.ts).     *)
(*                                                                         *)
(* TdcPairing sends the notices; here they are received.  A notice may be  *)
(* read late or never, and read again, for webhooks are retried: the row   *)
(* is then inserted a second time with the same contents.  Each connection *)
(* of Holders["fsp"] stands for a bank of its own, with its own table.     *)
(***************************************************************************)
EXTENDS TdcPairing

VARIABLE tdcGrants  \* the tdc_grants rows [fsp, key, ids], serial ids left out

grantVars == <<vars, tdcGrants>>

Banks == Holders["fsp"]

TdcGrant(m) == [fsp |-> m.to, key |-> m.key, ids |-> m.ids]

(* Mutant: the state of the notice is not looked at.                       *)
MutSaveAnyNotice(m) ==
  /\ m.to \in Banks
  /\ tdcGrants' = tdcGrants \cup {TdcGrant(m)}
  /\ UNCHANGED vars

(* Mutant: the row is saved for 'started' and not for 'completed'.         *)
MutSaveStarted(m) ==
  /\ m.to \in Banks
  /\ m.state = "started"
  /\ tdcGrants' = tdcGrants \cup {TdcGrant(m)}
  /\ UNCHANGED vars

(* basicMessageHandler on a grant notice.  An agent other than the bank's  *)
(* has no such handler.                                                    *)
SaveTdcGrant(m) ==
  /\ m.to \in Banks
  /\ m.state = "completed"
  /\ tdcGrants' = tdcGrants \cup {TdcGrant(m)}
  /\ UNCHANGED vars

(* getOneTimeKeyIds: what the bank f may be answered.  findOne returns any *)
(* row of the key, and a key used by two citizens has two.                 *)
OneTimeKeyIds(f, k) ==
  LET rows == {g \in tdcGrants : g.fsp = f /\ g.key = k}
  IN  IF rows = {} THEN {[state |-> "error", ids |-> Null]}
                   ELSE {[state |-> "accepted", ids |-> g.ids] : g \in rows}

-----------------------------------------------------------------------------
GrantInit == Init /\ tdcGrants = {}

GrantNext ==
  \/ Next /\ UNCHANGED tdcGrants
  \/ \E m \in sent : SaveTdcGrant(m)

GrantSpec == GrantInit /\ [][GrantNext]_grantVars

(* Node resumes a request whose await has returned, and the bank's agent   *)
(* delivers each notice at least once; requests come, or fail, as they     *)
(* please.                                                                 *)
BankNotice(f, k) == [to : {f}, state : {"completed"}, key : {k}, ids : [Sides -> Ids]]

GrantFairSpec ==
  /\ GrantSpec
  /\ \A r \in Requests : WF_grantVars(Step(r) /\ UNCHANGED tdcGrants)
  /\ \A f \in Banks, k \in Keys :
       \A m \in BankNotice(f, k) : WF_grantVars(m \in sent /\ SaveTdcGrant(m))

-----------------------------------------------------------------------------
(* Ids the bank is answered can be used: they are those of a saved pair    *)
(* that the bank belongs to, and both sides of it gave the key the bank    *)
(* asked about.  transaction.service.ts:155: "This record will only exist  *)
(* when both the FSP and TRO have successfully registered the same         *)
(* onetimekey", restarts, repeats and failures at the TDC included.        *)
AnsweredIdsAreOfAPair ==
  \A f \in Banks, k \in Keys : \A a \in OneTimeKeyIds(f, k) :
    a.state = "accepted" =>
      \E p \in fspTroConnection :
        /\ p.id = a.ids /\ p.conn["fsp"] = f
        /\ \A s \in Sides : [side |-> s, conn |-> p.conn[s], key |-> k] \in registered

(* Liveness: the bank whose connection and a citizen's are in the row of a *)
(* key can in the end ask for the ids of that pair, unless a registration  *)
(* of the key failed or was cut off (the notices are the only way the ids  *)
(* reach the bank's table).                                                *)
BankLearnsIds ==
  \A k \in Keys, f \in Banks, t \in Conns :
    LET conns == [s \in Sides |-> IF s = "fsp" THEN f ELSE t]
    IN (BothSides(k) /\ oneTimeKey[k].conn = conns)
         ~> CutShort(k) \/ [state |-> "accepted", ids |-> Pair(conns).id] \in OneTimeKeyIds(f, k)
=============================================================================
