------------------------------ MODULE Onboarding ------------------------------
(***************************************************************************)
(* How the network comes to work: the setup scripts write schemas and      *)
(* credential definitions to the ledger, then banks and citizens register  *)
(* at the TDC and receive their auth credentials.                          *)
(*                                                                         *)
(*   scripts/setup.sh, prod_setup.sh: four scripts in sequence, each a     *)
(*     sequence of calls; the first failing call ends everything (exit 1,  *)
(*     set -e).  A repeat begins with the first call.                      *)
(*   registerWithTDC: the bank's controller opens an invitation and posts  *)
(*     it to the TDC, again if the post fails or times out.                *)
(*   registerAndIssue: the TDC accepts the invitation, issues an identity  *)
(*     on the new connection, has it proved and issues the auth            *)
(*     credential; 15 seconds of delays leave time for everything else.    *)
(*                                                                         *)
(* A connection is named by the call that made it.                         *)
(***************************************************************************)
EXTENDS Naturals, Sequences

CONSTANTS
  Profiles,       \* the lines of the file scripts/credentials
  Parties, Side,  \* registrations, and "fsp" or "tro" of each
  Calls,          \* POST register calls at the TDC, each used once
  Faulty,         \* those of them that may fail
  SetupFails,     \* whether calls of the scripts may fail
  MayCrash,       \* whether the TDC may stop and restart
  Null

Sides == {"fsp", "tro"}

ASSUME OnboardingConstants ==
  /\ Profiles \in Seq(STRING)
  /\ Side \in [Parties -> Sides]
  /\ Faulty \subseteq Calls
  /\ {SetupFails, MayCrash} \subseteq BOOLEAN
  /\ Null \notin Calls

Item(k, n) == [kind |-> k, name |-> n]
Did(n)     == Item("did", n)
Schema(n)  == Item("schema", n)
CredDef(n) == Item("credDef", n)

(* The calls of each script, by what they write.                           *)
SetupEmployee == << Did("kiva"), Schema("employee"), CredDef("employee") >>
SetupNote     == << Schema("note"), CredDef("note") >>
SetupCitizen  == << Schema("citizen.identity"), CredDef("citizen.identity") >>

CreateSchemas     == [i \in DOMAIN Profiles |-> Schema(Profiles[i])]

(* Mutant: the first line of the file is not read.                         *)
MutDropFirstLine == [i \in 1 .. Len(Profiles) - 1 |-> CredDef(Profiles[i + 1])]

CreateCredentials == [i \in DOMAIN Profiles |-> CredDef(Profiles[i])]

SetupTdc == << Item("endorser", "tdc"), Did("tdc") >> \o CreateSchemas \o CreateCredentials

DevSetup  == SetupEmployee \o SetupTdc \o SetupCitizen \o SetupNote
ProdSetup == SetupEmployee \o SetupNote \o SetupTdc \o SetupCitizen

KivaNames == {"kiva", "employee", "note"}

(* What the ledger must hold before it takes an item: a credential         *)
(* definition names its schema, only a public DID writes, and the          *)
(* steward's endorsement makes the TDC's DID public.                       *)
Needs(i) ==
  CASE i.kind = "credDef"  -> {Schema(i.name)}
    [] i.kind = "schema"   -> {Did(IF i.name \in KivaNames THEN "kiva" ELSE "tdc")}
    [] i.kind = "endorser" -> {Did("kiva")}
    [] i = Did("tdc")      -> {Item("endorser", "tdc")}
    [] OTHER               -> {}

VARIABLES
  script,   \* the script of this deployment, setup.sh's or prod_setup.sh's
  ledger,   \* items written
  todo,     \* the calls the running setup has left, << >> when none runs
  complete, \* history: a setup has run to its end
  asked,    \* [Parties -> SUBSET Calls]: the posts a registration has made
  waits,    \* [Parties -> call it waits for, or Null]
  told,     \* [Parties -> connection it was answered, or Null]
  pc,       \* [Calls -> step of registerAndIssue]
  holds,    \* credentials [name, conn] issued
  proved    \* history: connections that proved an identity

setup   == <<script, ledger, todo, complete>>
parties == <<asked, waits, told>>
tdc     == <<pc, holds, proved>>
vars    == <<script, ledger, todo, complete, asked, waits, told, pc, holds, proved>>

Init ==
  /\ script \in {DevSetup, ProdSetup}
  /\ ledger = {}
  /\ todo = << >>
  /\ complete = FALSE
  /\ asked = [p \in Parties |-> {}]
  /\ waits = [p \in Parties |-> Null]
  /\ told = [p \in Parties |-> Null]
  /\ pc = [c \in Calls |-> "idle"]
  /\ holds = {}
  /\ proved = {}

-----------------------------------------------------------------------------
(* The scripts                                                             *)

(* A repeat after a complete run is left out: it could only write what is  *)
(* on the ledger already.                                                  *)
StartSetup ==
  /\ ~complete
  /\ todo = << >>
  /\ todo' = script
  /\ UNCHANGED <<script, ledger, complete, parties, tdc>>

SetupCall ==
  /\ todo # << >>
  /\ Needs(Head(todo)) \subseteq ledger
  /\ ledger' = ledger \cup {Head(todo)}
  /\ todo' = Tail(todo)
  /\ complete' = (complete \/ Tail(todo) = << >>)
  /\ UNCHANGED <<script, parties, tdc>>

(* Mutant: a failed call does not end the script.                          *)
MutSetupGoesOn ==
  /\ SetupFails
  /\ todo # << >>
  /\ todo' = Tail(todo)
  /\ UNCHANGED <<script, ledger, complete, parties, tdc>>

(* A call throws, whether or not its item was written: it cannot be        *)
(* reached, its answer is lost, or it refuses what exists.                 *)
SetupFault ==
  /\ SetupFails
  /\ todo # << >>
  /\ \/ UNCHANGED ledger
     \/ Needs(Head(todo)) \subseteq ledger /\ ledger' = ledger \cup {Head(todo)}
  /\ todo' = << >>
  /\ UNCHANGED <<script, complete, parties, tdc>>

-----------------------------------------------------------------------------
(* registerWithTDC of a bank's controller, and the citizen's own POST.     *)

(* Calls are names: of the unused ones that meet no fault, one stands for  *)
(* all.                                                                    *)
Unused == {c \in Calls : \A p \in Parties : c \notin asked[p]}
Free   == (Unused \cap Faulty) \cup
          {c \in Unused \ Faulty : c = CHOOSE d \in Unused \ Faulty : TRUE}

InFlight(c) == pc[c] \notin {"idle", "answered", "failed"}

Post(p, c) ==
  /\ c \in Free
  /\ asked' = [asked EXCEPT ![p] = @ \cup {c}]
  /\ waits' = [waits EXCEPT ![p] = c]
  /\ pc' = [pc EXCEPT ![c] = "accept"]
  /\ UNCHANGED <<setup, told, holds, proved>>

Register(p, c) == asked[p] = {} /\ Post(p, c)

(* requestWithRetry: the post failed, its answer was lost, or it takes     *)
(* longer than the client waits; an answer to it is no longer read.        *)
Retry(p, c) ==
  /\ Side[p] = "fsp"
  /\ waits[p] # Null
  /\ Post(p, c)

(* Mutant: the bank is given its invitation's connection without waiting.  *)
MutAnswerAtOnce(p) ==
  /\ waits[p] # Null
  /\ InFlight(waits[p])
  /\ told' = [told EXCEPT ![p] = waits[p]]
  /\ waits' = [waits EXCEPT ![p] = Null]
  /\ UNCHANGED <<setup, asked, tdc>>

ReadAnswer(p) ==
  /\ waits[p] # Null
  /\ pc[waits[p]] = "answered"
  /\ told' = [told EXCEPT ![p] = waits[p]]
  /\ waits' = [waits EXCEPT ![p] = Null]
  /\ UNCHANGED <<setup, asked, tdc>>

-----------------------------------------------------------------------------
(* registerAndIssue of the TDC, for a bank and for a citizen               *)

Party(c) == CHOOSE p \in Parties : c \in asked[p]

Identity == "citizen.identity"
AuthId(s) == IF s = "fsp" THEN "credit-fsp-auth-Id" ELSE "credit-tro-auth-Id"

Goto(c, l) == pc' = [pc EXCEPT ![c] = l]

(* 1 - the agent accepts the invitation, the same one again if it was      *)
(* posted again.                                                           *)
EstablishConnection(c) ==
  /\ pc[c] = "accept"
  /\ Goto(c, "issueId")
  /\ UNCHANGED <<setup, parties, holds, proved>>

(* issueCredential throws when the ledger has no such definition.          *)
IssueCredential(c, name, next) ==
  /\ \/ /\ CredDef(name) \in ledger
        /\ holds' = holds \cup {[name |-> name, conn |-> c]}
        /\ Goto(c, next)
     \/ /\ CredDef(name) \notin ledger
        /\ Goto(c, "failed")
        /\ UNCHANGED holds
  /\ UNCHANGED <<setup, parties, proved>>

CreateIdentityCredential(c) ==
  pc[c] = "issueId" /\ IssueCredential(c, Identity, "proveId")

ProveIdentity(c) ==
  /\ pc[c] = "proveId"
  /\ [name |-> Identity, conn |-> c] \in holds
  /\ proved' = proved \cup {c}
  /\ Goto(c, "issueAuth")
  /\ UNCHANGED <<setup, parties, holds>>

IssueAuthCredential(c) ==
  pc[c] = "issueAuth" /\ IssueCredential(c, AuthId(Side[Party(c)]), "answered")

(* One of the five calls throws, nobody catches it.  What was accepted and *)
(* issued before stays.                                                    *)
Fault(c) ==
  /\ c \in Faulty
  /\ InFlight(c)
  /\ Goto(c, "failed")
  /\ UNCHANGED <<setup, parties, holds, proved>>

Crash ==
  /\ MayCrash
  /\ \E c \in Calls : InFlight(c)
  /\ pc' = [c \in Calls |-> IF InFlight(c) THEN "lost" ELSE pc[c]]
  /\ UNCHANGED <<setup, parties, holds, proved>>

RegisterAndIssue(c) ==
  \/ EstablishConnection(c) \/ CreateIdentityCredential(c)
  \/ ProveIdentity(c) \/ IssueAuthCredential(c)

Next ==
  \/ StartSetup \/ SetupCall \/ SetupFault
  \/ \E p \in Parties, c \in Calls : Register(p, c) \/ Retry(p, c)
  \/ \E p \in Parties : ReadAnswer(p)
  \/ \E c \in Calls : RegisterAndIssue(c) \/ Fault(c)
  \/ Crash

Spec == Init /\ [][Next]_vars

(* Node resumes what it awaits, clients read the answers they wait for.    *)
(* Nobody is obliged to run the scripts, to register or to retry.          *)
FairSpec ==
  /\ Spec
  /\ \A c \in Calls : WF_vars(RegisterAndIssue(c))
  /\ \A p \in Parties : WF_vars(ReadAnswer(p))

-----------------------------------------------------------------------------
(* Properties                                                              *)

(* However often the scripts are stopped by a failing call and started     *)
(* again, in the order of setup.sh or of prod_setup.sh, no call of theirs  *)
(* comes before what it depends on: a schema before its credential         *)
(* definition, a public DID before either, across the four scripts.        *)
ScriptsFindTheirNeeds == todo # << >> => Needs(Head(todo)) \subseteq ledger

(* Whoever is told a connection can pair over it: the connection is of its *)
(* own registration, proved an identity and holds the auth credential      *)
(* registerOneTimeKey will ask for, although posts are repeated while      *)
(* earlier ones still run, calls fail half way and the TDC restarts.       *)
ToldCanPair ==
  \A p \in Parties : told[p] # Null =>
    /\ told[p] \in asked[p]
    /\ told[p] \in proved
    /\ [name |-> AuthId(Side[p]), conn |-> told[p]] \in holds

(* Liveness: once the scripts have run to their end, a post that meets no  *)
(* fault and no restart is answered and its party told, unless the party   *)
(* has posted again meanwhile.  In particular the files the scripts read   *)
(* name every definition the services issue from.                          *)
RegistrationIsAnswered ==
  \A p \in Parties, c \in Calls \ Faulty :
    (complete /\ waits[p] = c /\ pc[c] = "accept")
      ~> told[p] # Null \/ waits[p] # c \/ pc[c] = "lost"
=============================================================================
