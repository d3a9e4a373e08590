----------------------------- MODULE GrantLedger -----------------------------
(***************************************************************************)
(* What the TDC promises about pairing a bank (FSP) with a citizen (TRO),  *)
(* with no word about requests, database rows or the order of awaits:      *)
(*                                                                         *)
(*   - a pair is granted only if its two connections registered one        *)
(*     one-time key, each on its own side;                                 *)
(*   - both credentials of a pair are issued before the pair is recorded;  *)
(*   - a party is told of a pair only once the pair is recorded.           *)
(*                                                                         *)
(* TdcPairing implements this module (TdcPairing!Ledger).                  *)
(***************************************************************************)
CONSTANTS
  Keys,     \* the one-time keys the FSP hands out
  Conns,    \* connection ids of the TDC's agent
  IdOf(_,_) \* the id the TDC gives a connection on a side

VARIABLES
  registered,   \* [side, conn, key]: a connection gave the key on that side
  credentials,  \* [side, to, id]: grant credentials issued
  granted,      \* [conn, id]: pairs recorded, one connection and id per side
  announced     \* [to, ids]: completed notices sent

ledgerVars == <<registered, credentials, granted, announced>>

LedgerSides == {"fsp", "tro"}

(* The pair the two connections of fn make.                                *)
PairOf(fn) == [conn |-> fn, id |-> [s \in LedgerSides |-> IdOf(s, fn[s])]]

LedgerInit ==
  /\ registered = {}
  /\ credentials = {}
  /\ granted = {}
  /\ announced = {}

LedgerRegister(s, c, k) ==
  /\ registered' = registered \cup {[side |-> s, conn |-> c, key |-> k]}
  /\ UNCHANGED <<credentials, granted, announced>>

(* Only a connection that gave some key on side s gets that side's         *)
(* credential, and it carries the connection's own id.                     *)
LedgerIssue(s, c) ==
  /\ \E k \in Keys : [side |-> s, conn |-> c, key |-> k] \in registered
  /\ credentials' = credentials \cup {[side |-> s, to |-> c, id |-> IdOf(s, c)]}
  /\ UNCHANGED <<registered, granted, announced>>

LedgerGrant(fn) ==
  /\ \E k \in Keys : \A s \in LedgerSides :
        [side |-> s, conn |-> fn[s], key |-> k] \in registered
  /\ \A s \in LedgerSides :
        [side |-> s, to |-> fn[s], id |-> IdOf(s, fn[s])] \in credentials
  /\ granted' = granted \cup {PairOf(fn)}
  /\ UNCHANGED <<registered, credentials, announced>>

LedgerAnnounce(s, g) ==
  /\ g \in granted
  /\ announced' = announced \cup {[to |-> g.conn[s], ids |-> g.id]}
  /\ UNCHANGED <<registered, credentials, granted>>

LedgerNext ==
  \/ \E s \in LedgerSides, c \in Conns, k \in Keys : LedgerRegister(s, c, k)
  \/ \E s \in LedgerSides, c \in Conns : LedgerIssue(s, c)
  \/ \E fn \in [LedgerSides -> Conns] : LedgerGrant(fn)
  \/ \E s \in LedgerSides, g \in granted : LedgerAnnounce(s, g)

LedgerSpec == LedgerInit /\ [][LedgerNext]_ledgerVars
=============================================================================
