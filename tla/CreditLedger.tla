----------------------------- MODULE CreditLedger -----------------------------
(***************************************************************************)
(* What the network promises about credit transactions: a bank has a       *)
(* transaction on record only if it asked for that transaction and a       *)
(* citizen it is paired with accepted it.  CreditTransactions implements   *)
(* this module, but for records under ids that two banks may share.        *)
(***************************************************************************)
CONSTANTS
  Pairs,   \* the persisted pairs, [fsp, tro, fspId, troId]
  Data     \* transactions an FSP can ask for, [fspId, hash]

VARIABLES
  asked,      \* [fsp, data]
  consented,  \* [tro, data]
  recorded    \* [fsp, data]

creditVars == <<asked, consented, recorded>>

CreditInit == asked = {} /\ consented = {} /\ recorded = {}

Ask(f, d) ==
  /\ asked' = asked \cup {[fsp |-> f, data |-> d]}
  /\ UNCHANGED <<consented, recorded>>

Consent(t, d) ==
  /\ \E p \in Pairs : p.tro = t /\ [fsp |-> p.fsp, data |-> d] \in asked
  /\ consented' = consented \cup {[tro |-> t, data |-> d]}
  /\ UNCHANGED <<asked, recorded>>

Record(p, d) ==
  /\ [fsp |-> p.fsp, data |-> d] \in asked
  /\ \E q \in Pairs : q.fsp = p.fsp /\ [tro |-> q.tro, data |-> d] \in consented
  /\ recorded' = recorded \cup {[fsp |-> p.fsp, data |-> d]}
  /\ UNCHANGED <<asked, consented>>

CreditNext ==
  \E p \in Pairs, d \in Data : Ask(p.fsp, d) \/ Consent(p.tro, d) \/ Record(p, d)

CreditSpec == CreditInit /\ [][CreditNext]_creditVars
=============================================================================
