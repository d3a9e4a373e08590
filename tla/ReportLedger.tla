----------------------------- MODULE ReportLedger -----------------------------
(***************************************************************************)
(* What the network promises about transaction reports: a bank receives a  *)
(* citizen's history only under a report id it was given for a request     *)
(* about that citizen, and only what the citizen disclosed for that id.    *)
(* TransactionReports implements this module.                              *)
(***************************************************************************)
CONSTANTS
  Pairs,    \* the persisted pairs, [fsp, tro, fspId, troId]
  Ids,      \* report ids
  Lengths   \* how many transactions a disclosed history has

VARIABLES
  opened,    \* [fsp, tro, id]
  disclosed, \* [tro, id, n], the first n transactions of tro
  received   \* [fsp, tro, id, n]

reportVars == <<opened, disclosed, received>>

ReportInit == opened = {} /\ disclosed = {} /\ received = {}

Open(p, i) ==
  /\ opened' = opened \cup {[fsp |-> p.fsp, tro |-> p.tro, id |-> i]}
  /\ UNCHANGED <<disclosed, received>>

Disclose(p, i, n) ==
  /\ [fsp |-> p.fsp, tro |-> p.tro, id |-> i] \in opened
  /\ disclosed' = disclosed \cup {[tro |-> p.tro, id |-> i, n |-> n]}
  /\ UNCHANGED <<opened, received>>

Receive(p, i, n) ==
  /\ [fsp |-> p.fsp, tro |-> p.tro, id |-> i] \in opened
  /\ [tro |-> p.tro, id |-> i, n |-> n] \in disclosed
  /\ received' = received \cup {[fsp |-> p.fsp, tro |-> p.tro, id |-> i, n |-> n]}
  /\ UNCHANGED <<opened, disclosed>>

ReportNext ==
  \E p \in Pairs, i \in Ids :
    \/ Open(p, i)
    \/ \E n \in Lengths : Disclose(p, i, n) \/ Receive(p, i, n)

ReportSpec == ReportInit /\ [][ReportNext]_reportVars
=============================================================================
