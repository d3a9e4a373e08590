---------------------------- MODULE KycRelayProofs ----------------------------
(***************************************************************************)
(* Proofs about KycRelay, for any number of checks, posts and error codes, *)
(* any lost posts and restarts.                                            *)
(***************************************************************************)
EXTENDS KycRelay, TLAPS

TypeInv ==
  /\ body \in [Checks -> Bodies \cup {Null}]
  /\ pc \in [Checks -> {"idle", "format", "escrow", "done", "lost"}]
  /\ DOMAIN asked = Checks
  /\ DOMAIN reply = Checks
  /\ DOMAIN tracking = Checks

(* A check knows its body once it has arrived, and has asked the escrow    *)
(* service of its own kind once it waits for it.                           *)
AskedItsKind(c) ==
  /\ body[c] \in Bodies
  /\ asked[c] # Null
  /\ asked[c].plugin = body[c].type

ChecksInv ==
  \A c \in Checks :
    /\ pc[c] \in {"format", "escrow"} => body[c] \in Bodies
    /\ pc[c] = "escrow" => AskedItsKind(c)

(* r tells of the check c what its caller was answered.                    *)
Tells(r, c) ==
  /\ pc[c] = "done"
  /\ AskedItsKind(c)
  /\ reply[c] \in Outcomes
  /\ r = Record(c, reply[c])

RecordsInv ==
  /\ \A c \in Checks : tracking[c] # Null => Tells(tracking[c], c)
  /\ \A r \in tracked : r.id \in Checks /\ Tells(r, r.id)

KycInv == TypeInv /\ ChecksInv /\ RecordsInv

(* What has been told stays true while checks go on: a check that is done  *)
(* changes no more.                                                        *)
LEMMA TellsStays ==
  ASSUME NEW r, NEW c \in Checks, Tells(r, c),
         body'[c] = body[c], asked'[c] = asked[c], reply'[c] = reply[c], pc'[c] = pc[c]
  PROVE  Tells(r, c)'
BY DEF Tells, AskedItsKind, Record

(* A step of the check c that begins no tracking and sends nothing.        *)
LEMMA CheckKeepsRecords ==
  ASSUME KycInv, NEW c \in Checks, pc[c] # "done", UNCHANGED <<tracking, tracked>>,
         \A d \in Checks \ {c} :
           body'[d] = body[d] /\ asked'[d] = asked[d] /\ reply'[d] = reply[d] /\ pc'[d] = pc[d]
  PROVE  RecordsInv'
<1>1. ASSUME NEW d \in Checks, tracking[d] # Null PROVE Tells(tracking[d], d)'
  <2>1. Tells(tracking[d], d)
    BY <1>1 DEF KycInv, RecordsInv
  <2>2. d # c
    BY <2>1 DEF Tells
  <2> QED
    BY <2>1, <2>2 DEF Tells, AskedItsKind, Record
<1>2. ASSUME NEW r \in tracked PROVE r.id \in Checks /\ Tells(r, r.id)'
  <2>1. r.id \in Checks /\ Tells(r, r.id)
    BY DEF KycInv, RecordsInv
  <2>2. r.id # c
    BY <2>1 DEF Tells
  <2> QED
    BY <2>1, <2>2, TellsStays
<1> QED
  BY <1>1, <1>2 DEF RecordsInv

LEMMA ArriveKeeps ==
  ASSUME KycInv, NEW c \in Checks, NEW b \in Bodies, Arrive(c, b)
  PROVE  KycInv'
<1>1. TypeInv' /\ ChecksInv'
  BY DEF Arrive, Goto, KycInv, TypeInv, ChecksInv, AskedItsKind
<1>2. RecordsInv'
  BY CheckKeepsRecords DEF Arrive, Goto, KycInv, TypeInv
<1> QED
  BY <1>1, <1>2 DEF KycInv

LEMMA AskKeeps ==
  ASSUME KycInv, NEW c \in Checks, NEW request, pc[c] = "format", AskEscrow(c, request),
         request # Null, request.plugin = body[c].type
  PROVE  KycInv'
<1>1. TypeInv' /\ ChecksInv'
  BY DEF AskEscrow, Goto, KycInv, TypeInv, ChecksInv, AskedItsKind
<1>2. RecordsInv'
  BY CheckKeepsRecords DEF AskEscrow, Goto, KycInv, TypeInv
<1> QED
  BY <1>1, <1>2 DEF KycInv

LEMMA RefusedKeeps ==
  ASSUME KycInv, NEW c \in Checks, KycSmsRefused(c)
  PROVE  KycInv'
<1>1. TypeInv' /\ ChecksInv'
  BY DEF KycSmsRefused, Goto, KycInv, TypeInv, ChecksInv, AskedItsKind
<1>2. RecordsInv'
  BY CheckKeepsRecords DEF KycSmsRefused, Goto, KycInv, TypeInv
<1> QED
  BY <1>1, <1>2 DEF KycInv

LEMMA VerifiedKeeps ==
  ASSUME KycInv, NEW c \in Checks, EscrowVerified(c)
  PROVE  KycInv'
<1> USE DEF EscrowVerified, Goto, TrackKycInfo
<1>1. PICK o \in Outcomes :
        /\ reply' = [reply EXCEPT ![c] = o]
        /\ tracking' = [tracking EXCEPT ![c] =
                          IF body[c].auth /\ ~Local THEN Record(c, o) ELSE Null]
  OBVIOUS
<1>2. TypeInv' /\ ChecksInv'
  BY <1>1 DEF KycInv, TypeInv, ChecksInv, AskedItsKind
<1>3. \A d \in Checks \ {c} :
        /\ body'[d] = body[d] /\ asked'[d] = asked[d] /\ reply'[d] = reply[d]
        /\ pc'[d] = pc[d] /\ tracking'[d] = tracking[d]
  BY <1>1 DEF KycInv, TypeInv
<1>4. ASSUME NEW d \in Checks, tracking'[d] # Null PROVE Tells(tracking[d], d)'
  <2>1. CASE d = c
    <3>1. pc'[c] = "done" /\ reply'[c] = o /\ tracking'[c] = Record(c, o)
      BY <1>1, <1>4, <2>1 DEF KycInv, TypeInv
    <3>2. AskedItsKind(c)'
      BY DEF KycInv, ChecksInv, AskedItsKind
    <3>3. Record(c, o) = Record(c, o)'
      BY DEF Record
    <3> QED
      BY <2>1, <3>1, <3>2, <3>3 DEF Tells, Record
  <2>2. CASE d # c
    BY <1>3, <1>4, <2>2 DEF KycInv, RecordsInv, Tells, AskedItsKind, Record
  <2> QED
    BY <2>1, <2>2
<1>5. ASSUME NEW r \in tracked PROVE r.id \in Checks /\ Tells(r, r.id)'
  <2>1. r.id \in Checks /\ Tells(r, r.id) /\ r.id # c
    BY DEF KycInv, RecordsInv, Tells
  <2> QED
    BY <1>3, <2>1, TellsStays
<1> QED
  BY <1>2, <1>4, <1>5 DEF KycInv, RecordsInv

LEMMA PostKeeps ==
  ASSUME KycInv, NEW c \in Checks, PostTracking(c) \/ EndTracking(c)
  PROVE  KycInv'
<1> USE DEF PostTracking, EndTracking
<1>1. TypeInv' /\ ChecksInv'
  BY DEF KycInv, TypeInv, ChecksInv, AskedItsKind
<1>2. Tells(tracking[c], c) /\ tracking[c].id = c
  BY DEF KycInv, RecordsInv, Tells, Record
<1>3. tracked' \subseteq tracked \cup {tracking[c]}
  OBVIOUS
<1>4. ASSUME NEW r \in tracked' PROVE r.id \in Checks /\ Tells(r, r.id)'
  <2>1. r.id \in Checks /\ Tells(r, r.id)
    BY <1>2, <1>3 DEF KycInv, RecordsInv
  <2> QED
    BY <2>1, TellsStays
<1>5. ASSUME NEW d \in Checks, tracking'[d] # Null PROVE Tells(tracking[d], d)'
  <2>1. tracking'[d] = tracking[d]
    BY <1>5 DEF KycInv, TypeInv
  <2> QED
    BY <1>5, <2>1 DEF KycInv, RecordsInv, Tells, AskedItsKind, Record
<1> QED
  BY <1>1, <1>4, <1>5 DEF KycInv, RecordsInv

LEMMA CrashKeeps ==
  ASSUME KycInv, Crash
  PROVE  KycInv'
<1> USE DEF Crash, InFlight
<1>1. TypeInv' /\ ChecksInv'
  BY DEF KycInv, TypeInv, ChecksInv, AskedItsKind
<1>2. ASSUME NEW r \in tracked PROVE r.id \in Checks /\ Tells(r, r.id)'
  <2>1. r.id \in Checks /\ Tells(r, r.id)
    BY DEF KycInv, RecordsInv
  <2>2. pc'[r.id] = pc[r.id]
    BY <2>1 DEF Tells
  <2> QED
    BY <2>1, <2>2, TellsStays
<1> QED
  BY <1>1, <1>2 DEF KycInv, RecordsInv

(* The tracking service is told of a check what its caller was told, and   *)
(* never two things, whatever is lost, repeated or cut off.                *)
THEOREM RecordsAreTrue == Spec => []TrackedAgreesWithReply
<1>1. Init => KycInv
  BY DEF Init, KycInv, TypeInv, ChecksInv, RecordsInv
<1>2. KycInv /\ [Next]_vars => KycInv'
  <2> SUFFICES ASSUME KycInv, [Next]_vars
               PROVE  KycInv'
    OBVIOUS
  <2>1. CASE UNCHANGED vars
    BY <2>1 DEF vars, KycInv, TypeInv, ChecksInv, RecordsInv, Tells, AskedItsKind, Record
  <2>2. ASSUME NEW c \in Checks, Kyc(c) PROVE KycInv'
    BY <2>2, AskKeeps, NullIsNoData DEF Kyc, FormatFingerprintData, Questions, Types
  <2>3. ASSUME NEW c \in Checks, KycSms(c) PROVE KycInv'
    BY <2>3, AskKeeps, NullIsNoData DEF KycSms, FormatSmsData, Questions, Types
  <2> QED
    BY <2>1, <2>2, <2>3, ArriveKeeps, RefusedKeeps, VerifiedKeeps, PostKeeps, CrashKeeps DEF Next, Check
<1>3. KycInv => TrackedAgreesWithReply
  <2> SUFFICES ASSUME KycInv, NEW r \in tracked
               PROVE  /\ reply[r.id] # Null /\ r.ok = reply[r.id].ok
                      /\ asked[r.id] # Null /\ r.type = asked[r.id].plugin
                      /\ r.ok => (r.code = "SMS_SENT" <=>
                                  r.type = "SMS_OTP" /\ reply[r.id].value = "sent")
                      /\ \A s \in tracked : s.id = r.id => s = r
    BY DEF TrackedAgreesWithReply
  <2>1. r.id \in Checks /\ Tells(r, r.id)
    BY DEF KycInv, RecordsInv
  <2>2. \A s \in tracked : s.id = r.id => s = r
    BY <2>1 DEF KycInv, RecordsInv, Tells
  <2>3. r.ok = reply[r.id].ok /\ r.type = body[r.id].type /\ r.code = CodeOf(r.type, reply[r.id])
    BY <2>1 DEF Tells, Record
  <2>4. r.type \in Types
    BY <2>1, <2>3 DEF Tells, AskedItsKind, Bodies
  <2>5. r.ok => (r.code = "SMS_SENT" <=> r.type = "SMS_OTP" /\ reply[r.id].value = "sent")
    BY <2>3, <2>4 DEF CodeOf, Types
  <2> QED
    BY <2>1, <2>2, <2>3, <2>5, NullIsNoData DEF Tells, AskedItsKind
<1> QED
  BY <1>1, <1>2, <1>3, PTL DEF Spec
=============================================================================
