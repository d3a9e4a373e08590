--------------------------- MODULE OnboardingProofs ---------------------------
(***************************************************************************)
(* Proofs about Onboarding, for any number of parties, posts and profiles, *)
(* any failures and restarts.                                              *)
(***************************************************************************)
EXTENDS Onboarding, TLAPS

Labels == {"idle", "accept", "issueId", "proveId", "issueAuth", "answered", "failed", "lost"}

TypeInv ==
  /\ asked \in [Parties -> SUBSET Calls]
  /\ waits \in [Parties -> Calls \cup {Null}]
  /\ told \in [Parties -> Calls \cup {Null}]
  /\ pc \in [Calls -> Labels]

(* A call belongs to the one party that posted it.                         *)
PostsInv ==
  /\ \A p, q \in Parties : asked[p] \cap asked[q] # {} => p = q
  /\ \A p \in Parties : waits[p] # Null => waits[p] \in asked[p]
  /\ \A c \in Calls : pc[c] # "idle" => \E p \in Parties : c \in asked[p]

(* What registerAndIssue has behind it at each of its steps.               *)
CallsInv ==
  /\ \A c \in Calls : pc[c] \in {"issueAuth", "answered"} => c \in proved
  /\ \A p \in Parties : \A c \in asked[p] :
       pc[c] = "answered" => [name |-> AuthId(Side[p]), conn |-> c] \in holds

OnboardingInv == TypeInv /\ PostsInv /\ CallsInv /\ ToldCanPair

LEMMA PartyIsPoster ==
  ASSUME PostsInv, NEW p \in Parties, NEW c \in asked[p]
  PROVE  Party(c) = p
BY DEF PostsInv, Party

LEMMA FreeIsUnasked ==
  ASSUME NEW c \in Free
  PROVE  c \in Calls /\ \A p \in Parties : c \notin asked[p]
BY DEF Free, Unused

LEMMA PostKeeps ==
  ASSUME OnboardingInv, NEW p \in Parties, NEW c \in Calls, Post(p, c)
  PROVE  OnboardingInv'
<1> USE DEF Post
<1>1. \A q \in Parties : c \notin asked[q]
  BY FreeIsUnasked
<1>2. TypeInv'
  BY DEF OnboardingInv, TypeInv, Labels
<1>3. PostsInv'
  BY <1>1 DEF OnboardingInv, TypeInv, PostsInv
<1>4. CallsInv'
  BY <1>1 DEF OnboardingInv, TypeInv, CallsInv
<1>5. ToldCanPair'
  BY DEF OnboardingInv, TypeInv, ToldCanPair
<1> QED
  BY <1>2, <1>3, <1>4, <1>5 DEF OnboardingInv

LEMMA ReadKeeps ==
  ASSUME OnboardingInv, NEW p \in Parties, ReadAnswer(p)
  PROVE  OnboardingInv'
<1> USE DEF ReadAnswer, tdc
<1>1. TypeInv' /\ PostsInv' /\ CallsInv'
  BY DEF OnboardingInv, TypeInv, PostsInv, CallsInv
<1>2. /\ waits[p] \in asked[p] /\ waits[p] \in proved
      /\ [name |-> AuthId(Side[p]), conn |-> waits[p]] \in holds
  BY DEF OnboardingInv, TypeInv, PostsInv, CallsInv
<1>3. ToldCanPair'
  BY <1>2 DEF OnboardingInv, TypeInv, ToldCanPair
<1> QED
  BY <1>1, <1>3 DEF OnboardingInv

(* A call that moves on, to a label of whose meaning is true.              *)
LEMMA GotoKeeps ==
  ASSUME OnboardingInv, NEW c \in Calls, NEW l \in Labels \ {"idle"}, pc[c] # "idle",
         Goto(c, l), UNCHANGED parties, holds \subseteq holds', proved \subseteq proved',
         l \in {"issueAuth", "answered"} => c \in proved',
         l = "answered" => [name |-> AuthId(Side[Party(c)]), conn |-> c] \in holds'
  PROVE  OnboardingInv'
<1> USE DEF Goto, parties
<1>1. TypeInv'
  BY DEF OnboardingInv, TypeInv
<1>2. PostsInv'
  BY DEF OnboardingInv, TypeInv, PostsInv
<1>3. CallsInv'
  <2>1. \A d \in Calls : pc'[d] \in {"issueAuth", "answered"} => d \in proved'
    BY DEF OnboardingInv, TypeInv, CallsInv
  <2>2. ASSUME NEW p \in Parties, NEW d \in asked[p], pc'[d] = "answered"
        PROVE  [name |-> AuthId(Side[p]), conn |-> d] \in holds'
    <3>1. CASE d = c
      BY <2>2, <3>1, PartyIsPoster DEF OnboardingInv, TypeInv
    <3>2. CASE d # c
      BY <2>2, <3>2 DEF OnboardingInv, TypeInv, CallsInv
    <3> QED
      BY <3>1, <3>2
  <2> QED
    BY <2>1, <2>2 DEF CallsInv
<1>4. ToldCanPair'
  BY DEF OnboardingInv, ToldCanPair
<1> QED
  BY <1>1, <1>2, <1>3, <1>4 DEF OnboardingInv

LEMMA RegisterAndIssueKeeps ==
  ASSUME OnboardingInv, NEW c \in Calls, RegisterAndIssue(c)
  PROVE  OnboardingInv'
<1>1. CASE EstablishConnection(c)
  BY <1>1, GotoKeeps DEF EstablishConnection, Labels
<1>2. CASE CreateIdentityCredential(c)
  BY <1>2, GotoKeeps DEF CreateIdentityCredential, IssueCredential, Labels
<1>3. CASE ProveIdentity(c)
  BY <1>3, GotoKeeps DEF ProveIdentity, Labels
<1>4. CASE IssueAuthCredential(c)
  <2>1. c \in proved
    BY <1>4 DEF IssueAuthCredential, OnboardingInv, CallsInv
  <2> QED
    BY <1>4, <2>1, GotoKeeps DEF IssueAuthCredential, IssueCredential, Labels
<1> QED
  BY <1>1, <1>2, <1>3, <1>4 DEF RegisterAndIssue

LEMMA FaultKeeps ==
  ASSUME OnboardingInv, NEW c \in Calls, Fault(c)
  PROVE  OnboardingInv'
BY GotoKeeps DEF Fault, InFlight, Labels

LEMMA CrashKeeps ==
  ASSUME OnboardingInv, Crash
  PROVE  OnboardingInv'
<1> USE DEF Crash, InFlight, parties
<1>1. TypeInv'
  BY DEF OnboardingInv, TypeInv, Labels
<1>2. PostsInv' /\ CallsInv' /\ ToldCanPair'
  BY DEF OnboardingInv, TypeInv, PostsInv, CallsInv, ToldCanPair
<1> QED
  BY <1>1, <1>2 DEF OnboardingInv

(* Whoever is told a connection holds what pairing over it asks for,       *)
(* however posts are repeated, calls fail and the TDC restarts.            *)
THEOREM ToldIsUsable == Spec => []ToldCanPair
<1>1. Init => OnboardingInv
  BY DEF Init, OnboardingInv, TypeInv, PostsInv, CallsInv, ToldCanPair, Labels
<1>2. OnboardingInv /\ [Next]_vars => OnboardingInv'
  <2> SUFFICES ASSUME OnboardingInv, [Next]_vars
               PROVE  OnboardingInv'
    OBVIOUS
  <2> USE DEF OnboardingInv, TypeInv, PostsInv, CallsInv, ToldCanPair
  <2>1. CASE StartSetup \/ SetupCall \/ SetupFault \/ UNCHANGED vars
    BY <2>1 DEF StartSetup, SetupCall, SetupFault, vars, parties, tdc
  <2> HIDE DEF OnboardingInv
  <2>2. ASSUME NEW p \in Parties, NEW c \in Calls, Register(p, c) \/ Retry(p, c)
        PROVE  OnboardingInv'
    BY <2>2, PostKeeps DEF Register, Retry
  <2> QED
    BY <2>1, <2>2, ReadKeeps, RegisterAndIssueKeeps, FaultKeeps, CrashKeeps DEF Next
<1>3. OnboardingInv => ToldCanPair
  BY DEF OnboardingInv
<1> QED
  BY <1>1, <1>2, <1>3, PTL DEF Spec

-----------------------------------------------------------------------------
(* The scripts.                                                            *)

Names == {"kiva", "employee", "note", "tdc", "citizen.identity"} \cup STRING
Items == [kind : {"did", "schema", "credDef", "endorser"}, name : Names]
Written(s) == {s[j] : j \in 1 .. Len(s)}

(* Run from a ledger that holds L, no call of s comes before its needs.    *)
Ready(s, L) ==
  /\ s \in Seq(Items)
  /\ \A i \in 1 .. Len(s) : Needs(s[i]) \subseteq L \cup {s[j] : j \in 1 .. i - 1}

LEMMA ReadyGrows ==
  ASSUME NEW s, NEW L, NEW M, Ready(s, L), L \subseteq M
  PROVE  Ready(s, M)
BY DEF Ready

LEMMA JoinedReady ==
  ASSUME NEW s, NEW t, NEW L, NEW M, Ready(s, L), Ready(t, M), M \subseteq L \cup Written(s)
  PROVE  Ready(s \o t, L)
<1>1. s \in Seq(Items) /\ t \in Seq(Items) /\ s \o t \in Seq(Items)
  BY DEF Ready
<1>2. Len(s) \in Nat /\ Len(t) \in Nat /\ Len(s \o t) = Len(s) + Len(t)
  BY <1>1
<1>3. \A i \in 1 .. Len(s) : (s \o t)[i] = s[i]
  BY <1>1, <1>2
<1>4. \A i \in 1 .. Len(t) : (s \o t)[Len(s) + i] = t[i]
  BY <1>1, <1>2
<1>5. ASSUME NEW i \in 1 .. Len(s \o t)
      PROVE  Needs((s \o t)[i]) \subseteq L \cup {(s \o t)[j] : j \in 1 .. i - 1}
  <2>1. CASE i <= Len(s)
    <3>1. Needs(s[i]) \subseteq L \cup {s[j] : j \in 1 .. i - 1}
      BY <1>2, <2>1 DEF Ready
    <3>2. {s[j] : j \in 1 .. i - 1} \subseteq {(s \o t)[j] : j \in 1 .. i - 1}
      BY <1>2, <1>3, <2>1
    <3> QED
      BY <1>2, <1>3, <2>1, <3>1, <3>2
  <2>2. CASE i > Len(s)
    <3>1. PICK n \in 1 .. Len(t) : i = Len(s) + n
      <4>1. i - Len(s) \in 1 .. Len(t) /\ i = Len(s) + (i - Len(s))
        BY <1>2, <2>2
      <4> QED
        BY <4>1
    <3>2. Needs(t[n]) \subseteq M \cup {t[j] : j \in 1 .. n - 1}
      BY DEF Ready
    <3>3. Written(s) \subseteq {(s \o t)[j] : j \in 1 .. i - 1}
      BY <1>2, <1>3, <2>2 DEF Written
    <3>4. ASSUME NEW j \in 1 .. n - 1 PROVE t[j] \in {(s \o t)[m] : m \in 1 .. i - 1}
      <4>1. Len(s) + j \in 1 .. i - 1 /\ j \in 1 .. Len(t)
        BY <1>2, <3>1
      <4> QED
        BY <1>4, <4>1
    <3>5. (s \o t)[i] = t[n]
      BY <1>4, <3>1
    <3>6. {t[j] : j \in 1 .. n - 1} \subseteq {(s \o t)[m] : m \in 1 .. i - 1}
      BY <3>4
    <3> QED
      BY <3>2, <3>3, <3>5, <3>6
  <2> QED
    BY <1>2, <2>1, <2>2
<1> QED
  BY <1>1, <1>5 DEF Ready

LEMMA JoinedWritten ==
  ASSUME NEW s \in Seq(Items), NEW t \in Seq(Items)
  PROVE  Written(s) \cup Written(t) \subseteq Written(s \o t)
<1>1. \A i \in 1 .. Len(s) : (s \o t)[i] = s[i] /\ i \in 1 .. Len(s \o t)
  OBVIOUS
<1>2. \A i \in 1 .. Len(t) : (s \o t)[Len(s) + i] = t[i] /\ Len(s) + i \in 1 .. Len(s \o t)
  OBVIOUS
<1> QED
  BY <1>1, <1>2 DEF Written

LEMMA ItemsAre ==
  ASSUME NEW n \in Names
  PROVE  {Did(n), Schema(n), CredDef(n), Item("endorser", n)} \subseteq Items
BY DEF Items, Item, Did, Schema, CredDef

LEMMA KivaReady ==
  /\ Ready(SetupEmployee, {}) /\ Did("kiva") \in Written(SetupEmployee)
  /\ Ready(SetupNote, {Did("kiva")})
<1>0. {Did("kiva"), Schema("employee"), CredDef("employee"), Schema("note"), CredDef("note")} \subseteq Items
  BY ItemsAre DEF Names
<1>1. Len(SetupEmployee) = 3 /\ SetupEmployee \in Seq(Items)
      /\ SetupEmployee[1] = Did("kiva") /\ SetupEmployee[2] = Schema("employee")
      /\ SetupEmployee[3] = CredDef("employee")
  BY <1>0 DEF SetupEmployee
<1>2. /\ Needs(Did("kiva")) = {} /\ Needs(Schema("employee")) = {Did("kiva")}
      /\ Needs(CredDef("employee")) = {Schema("employee")}
      /\ Needs(Schema("note")) = {Did("kiva")} /\ Needs(CredDef("note")) = {Schema("note")}
  BY DEF Needs, Item, Did, Schema, CredDef, KivaNames
<1>3. Len(SetupNote) = 2 /\ SetupNote \in Seq(Items)
      /\ SetupNote[1] = Schema("note") /\ SetupNote[2] = CredDef("note")
  BY <1>0 DEF SetupNote
<1>4. Ready(SetupEmployee, {})
  <2>1. SetupEmployee[1] \in {SetupEmployee[j] : j \in 1 .. 2 - 1}
    OBVIOUS
  <2>2. SetupEmployee[2] \in {SetupEmployee[j] : j \in 1 .. 3 - 1}
    OBVIOUS
  <2>3. \A i \in 1 .. 3 : i = 1 \/ i = 2 \/ i = 3
    OBVIOUS
  <2> QED
    BY <1>1, <1>2, <2>1, <2>2, <2>3 DEF Ready
<1>5. Ready(SetupNote, {Did("kiva")})
  <2>1. SetupNote[1] \in {SetupNote[j] : j \in 1 .. 2 - 1}
    OBVIOUS
  <2>2. \A i \in 1 .. 2 : i = 1 \/ i = 2
    OBVIOUS
  <2> QED
    BY <1>2, <1>3, <2>1, <2>2 DEF Ready
<1>6. Did("kiva") \in Written(SetupEmployee)
  BY <1>1 DEF Written
<1> QED
  BY <1>4, <1>5, <1>6

LEMMA CitizenReady == Ready(SetupCitizen, {Did("tdc")})
<1>1. {Schema("citizen.identity"), CredDef("citizen.identity")} \subseteq Items
  BY ItemsAre DEF Names
<1>2. Len(SetupCitizen) = 2 /\ SetupCitizen \in Seq(Items)
      /\ SetupCitizen[1] = Schema("citizen.identity") /\ SetupCitizen[2] = CredDef("citizen.identity")
  BY <1>1 DEF SetupCitizen
<1>3. /\ Needs(Schema("citizen.identity")) = {Did("tdc")}
      /\ Needs(CredDef("citizen.identity")) = {Schema("citizen.identity")}
  BY DEF Needs, Item, Did, Schema, CredDef, KivaNames
<1>4. SetupCitizen[1] \in {SetupCitizen[j] : j \in 1 .. 2 - 1}
  OBVIOUS
<1>5. \A i \in 1 .. 2 : i = 1 \/ i = 2
  OBVIOUS
<1> QED
  BY <1>2, <1>3, <1>4, <1>5 DEF Ready

(* The file scripts/credentials is read twice: for the schemas, then for   *)
(* the definitions that name them.                                         *)
LEMMA ProfilesReady ==
  /\ Ready(CreateSchemas, {Did("tdc"), Did("kiva")})
  /\ Ready(CreateCredentials, Written(CreateSchemas))
<1>1. Profiles \in Seq(STRING) /\ Len(Profiles) \in Nat /\ DOMAIN Profiles = 1 .. Len(Profiles)
  BY OnboardingConstants
<1>2. \A i \in 1 .. Len(Profiles) : Profiles[i] \in Names
  BY <1>1 DEF Names
<1>3. \A i \in 1 .. Len(Profiles) : Schema(Profiles[i]) \in Items /\ CredDef(Profiles[i]) \in Items
  BY <1>2, ItemsAre
<1>4. /\ CreateSchemas \in Seq(Items) /\ Len(CreateSchemas) = Len(Profiles)
      /\ \A i \in 1 .. Len(Profiles) : CreateSchemas[i] = Schema(Profiles[i])
  BY <1>1, <1>3 DEF CreateSchemas
<1>5. /\ CreateCredentials \in Seq(Items) /\ Len(CreateCredentials) = Len(Profiles)
      /\ \A i \in 1 .. Len(Profiles) : CreateCredentials[i] = CredDef(Profiles[i])
  BY <1>1, <1>3 DEF CreateCredentials
<1>6. ASSUME NEW n
      PROVE  /\ Needs(Schema(n)) \subseteq {Did("tdc"), Did("kiva")}
             /\ Needs(CredDef(n)) = {Schema(n)}
  BY DEF Needs, Item, Did, Schema, CredDef
<1>7. Ready(CreateSchemas, {Did("tdc"), Did("kiva")})
  BY <1>4, <1>6 DEF Ready
<1>8. \A i \in 1 .. Len(CreateCredentials) : Needs(CreateCredentials[i]) \subseteq Written(CreateSchemas)
  BY <1>4, <1>5, <1>6 DEF Written
<1> QED
  BY <1>5, <1>7, <1>8 DEF Ready

LEMMA TdcReady ==
  /\ Ready(SetupTdc, {Did("kiva")})
  /\ Did("tdc") \in Written(SetupTdc)
<1> DEFINE key == << Item("endorser", "tdc"), Did("tdc") >>
<1>1. {Item("endorser", "tdc"), Did("tdc")} \subseteq Items
  BY ItemsAre DEF Names
<1>2. Len(key) = 2 /\ key \in Seq(Items) /\ key[1] = Item("endorser", "tdc") /\ key[2] = Did("tdc")
  BY <1>1
<1>3. Needs(Item("endorser", "tdc")) = {Did("kiva")} /\ Needs(Did("tdc")) = {Item("endorser", "tdc")}
  BY DEF Needs, Item, Did
<1>0. SetupTdc = (key \o CreateSchemas) \o CreateCredentials
  BY DEF SetupTdc
<1> HIDE DEF key
<1>4. Ready(key, {Did("kiva")}) /\ Did("tdc") \in Written(key)
  <2>1. key[1] \in {key[j] : j \in 1 .. 2 - 1}
    OBVIOUS
  <2>2. \A i \in 1 .. 2 : i = 1 \/ i = 2
    OBVIOUS
  <2> QED
    BY <1>2, <1>3, <2>1, <2>2 DEF Ready, Written
<1>5. Ready(key \o CreateSchemas, {Did("kiva")})
  BY <1>4, ProfilesReady, JoinedReady
<1>6. key \in Seq(Items) /\ CreateSchemas \in Seq(Items) /\ CreateCredentials \in Seq(Items)
      /\ key \o CreateSchemas \in Seq(Items)
  BY <1>5, <1>2, ProfilesReady DEF Ready
<1>7. Written(key) \cup Written(CreateSchemas) \subseteq Written(key \o CreateSchemas)
  BY <1>6, JoinedWritten
<1>8. Ready(SetupTdc, {Did("kiva")})
  BY <1>0, <1>5, <1>7, ProfilesReady, JoinedReady
<1>9. Written(key \o CreateSchemas) \subseteq Written(SetupTdc)
  BY <1>0, <1>6, JoinedWritten
<1> QED
  BY <1>4, <1>7, <1>8, <1>9

(* Either deployment may run its scripts from an empty ledger.             *)
LEMMA ScriptsReady == Ready(DevSetup, {}) /\ Ready(ProdSetup, {})
<1>1. /\ SetupEmployee \in Seq(Items) /\ SetupTdc \in Seq(Items)
      /\ SetupCitizen \in Seq(Items) /\ SetupNote \in Seq(Items)
  BY KivaReady, TdcReady, CitizenReady DEF Ready
<1> DEFINE ours == SetupEmployee \o SetupTdc
           named == SetupEmployee \o SetupNote
<1>2. ours \in Seq(Items) /\ ours \o SetupCitizen \in Seq(Items)
      /\ named \in Seq(Items) /\ named \o SetupTdc \in Seq(Items)
  BY <1>1
<1>3. DevSetup = (ours \o SetupCitizen) \o SetupNote /\ ProdSetup = (named \o SetupTdc) \o SetupCitizen
  BY DEF DevSetup, ProdSetup
<1>4. Written(SetupEmployee) \cup Written(SetupTdc) \subseteq Written(ours)
      /\ Written(SetupEmployee) \subseteq Written(named)
  BY <1>1, JoinedWritten
<1>5. Ready(ours, {}) /\ Ready(named, {})
  BY KivaReady, TdcReady, JoinedReady
<1> HIDE DEF ours, named
<1>6. Did("kiva") \in Written(ours) /\ Did("tdc") \in Written(ours) /\ Did("kiva") \in Written(named)
  BY <1>4, KivaReady, TdcReady
<1>7. Did("kiva") \in Written(ours \o SetupCitizen) /\ Did("tdc") \in Written(named \o SetupTdc)
  BY <1>1, <1>2, <1>6, JoinedWritten, TdcReady
<1>8. Ready(ours \o SetupCitizen, {}) /\ Ready(named \o SetupTdc, {})
  BY <1>5, <1>6, CitizenReady, TdcReady, JoinedReady
<1> QED
  BY <1>3, <1>7, <1>8, KivaReady, CitizenReady, JoinedReady

(* What a running setup has left is ready to run.                          *)
SetupInv == script \in {DevSetup, ProdSetup} /\ Ready(todo, ledger)

LEMMA EmptyReady == ASSUME NEW L PROVE Ready(<< >>, L)
BY DEF Ready

LEMMA RestReady ==
  ASSUME NEW L, NEW s, Ready(s, L), s # << >>
  PROVE  Ready(Tail(s), L \cup {Head(s)}) /\ Needs(Head(s)) \subseteq L
<1>1. /\ s \in Seq(Items) /\ Len(s) \in Nat \ {0} /\ Head(s) = s[1] /\ Tail(s) \in Seq(Items)
      /\ Len(Tail(s)) = Len(s) - 1 /\ \A i \in 1 .. Len(s) - 1 : Tail(s)[i] = s[i + 1]
  BY DEF Ready
<1>2. Needs(s[1]) \subseteq L
  <2>1. 1 \in 1 .. Len(s) /\ 1 .. 1 - 1 = {}
    BY <1>1
  <2>2. Needs(s[1]) \subseteq L \cup {s[j] : j \in 1 .. 1 - 1}
    BY <2>1 DEF Ready
  <2> QED
    BY <2>1, <2>2
<1>3. ASSUME NEW i \in 1 .. Len(Tail(s))
      PROVE  Needs(Tail(s)[i]) \subseteq (L \cup {Head(s)}) \cup {Tail(s)[j] : j \in 1 .. i - 1}
  <2>1. i \in 1 .. Len(s) - 1 /\ i + 1 \in 1 .. Len(s) /\ Tail(s)[i] = s[i + 1]
    BY <1>1
  <2>2. Needs(s[i + 1]) \subseteq L \cup {s[j] : j \in 1 .. i}
    <3>1. (i + 1) - 1 = i
      BY <2>1
    <3>2. Needs(s[i + 1]) \subseteq L \cup {s[j] : j \in 1 .. (i + 1) - 1}
      BY <2>1 DEF Ready
    <3> QED
      BY <3>1, <3>2
  <2>3. ASSUME NEW j \in 1 .. i PROVE s[j] \in {Head(s)} \cup {Tail(s)[m] : m \in 1 .. i - 1}
    <3>1. CASE j = 1
      BY <1>1, <3>1
    <3>2. CASE j # 1
      <4>1. j - 1 \in 1 .. i - 1 /\ Tail(s)[j - 1] = s[j]
        BY <1>1, <2>1, <3>2
      <4> QED
        BY <4>1
    <3> QED
      BY <3>1, <3>2
  <2> QED
    BY <2>1, <2>2, <2>3
<1> QED
  BY <1>1, <1>2, <1>3 DEF Ready

(* No call of the scripts comes before what it depends on, whatever        *)
(* profiles the file names and however often the setup is cut short.       *)
THEOREM SetupIsOrdered == Spec => []ScriptsFindTheirNeeds
<1>1. Init => SetupInv
  BY EmptyReady DEF Init, SetupInv
<1>2. SetupInv /\ [Next]_vars => SetupInv'
  <2> SUFFICES ASSUME SetupInv, [Next]_vars
               PROVE  SetupInv'
    OBVIOUS
  <2>1. ASSUME UNCHANGED setup PROVE SetupInv'
    BY <2>1 DEF SetupInv, setup, Ready
  <2>2. CASE StartSetup
    <3>1. Ready(script, {})
      BY ScriptsReady DEF SetupInv
    <3> QED
      BY <2>2, <3>1, ReadyGrows DEF StartSetup, SetupInv
  <2>3. CASE SetupCall
    BY <2>3, RestReady DEF SetupCall, SetupInv
  <2>4. CASE SetupFault
    BY <2>4, EmptyReady DEF SetupFault, SetupInv
  <2>5. CASE UNCHANGED vars
    BY <2>1, <2>5 DEF vars, setup
  <2>6. ASSUME NEW p \in Parties, NEW c \in Calls, Register(p, c) \/ Retry(p, c) PROVE SetupInv'
    BY <2>1, <2>6 DEF Register, Retry, Post
  <2>7. ASSUME NEW p \in Parties, ReadAnswer(p) PROVE SetupInv'
    BY <2>1, <2>7 DEF ReadAnswer
  <2>8. ASSUME NEW c \in Calls, RegisterAndIssue(c) \/ Fault(c) PROVE SetupInv'
    BY <2>1, <2>8 DEF RegisterAndIssue, EstablishConnection, CreateIdentityCredential, ProveIdentity,
                      IssueAuthCredential, IssueCredential, Fault
  <2>9. CASE Crash
    BY <2>1, <2>9 DEF Crash
  <2> QED
    BY <2>2, <2>3, <2>4, <2>5, <2>6, <2>7, <2>8, <2>9 DEF Next
<1>3. SetupInv => ScriptsFindTheirNeeds
  BY RestReady DEF SetupInv, ScriptsFindTheirNeeds
<1> QED
  BY <1>1, <1>2, <1>3, PTL DEF Spec
=============================================================================
