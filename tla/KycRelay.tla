------------------------------- MODULE KycRelay -------------------------------
(***************************************************************************)
(* The bank's KYC relay (fsp kyc.service.ts): POST v2/kyc checks a         *)
(* fingerprint and POST v2/kyc/sms a phone number with the escrow service  *)
(* behind the bank's agent, answer what it answered, and tell a tracking   *)
(* service the outcome in a call that nobody awaits.                       *)
(*                                                                         *)
(* The tracking call begins in the step that answers and then runs beside  *)
(* everything else: it is retried, may arrive more than once, fail, or     *)
(* hang for ever.  A restart of the controller ends what is in flight.     *)
(***************************************************************************)
EXTENDS Naturals

CONSTANTS
  Checks,     \* requests, each used once
  Local,      \* whether NODE_ENV is Constants.LOCAL
  MayCrash,   \* whether the controller may stop and restart
  MaxPosts,   \* posts requestWithRetry makes of one tracking record
  Codes,      \* error codes of the escrow service
  Null

ASSUME KycConstants ==
  /\ {Local, MayCrash} \subseteq BOOLEAN
  /\ MaxPosts \in Nat \ {0}

Types == {"FINGERPRINT", "SMS_OTP"}

(* A body past the validation pipe.  An image is preferred to a template;  *)
(* filters and the authorization header are optional.                      *)
Bodies == [type : Types, filters : BOOLEAN, image : BOOLEAN, auth : BOOLEAN]

(* What the escrow service is asked with.                                  *)
FormatFingerprintData(b) ==
  [plugin |-> "FINGERPRINT", sample |-> IF b.image THEN "image" ELSE "template"]
FormatSmsData(b) ==
  [plugin |-> "SMS_OTP", sample |-> "phone"]

Questions == [plugin : Types, sample : {"image", "template", "phone"}]

(* What it answers: an OTP was sent, or the person matches, or an error.   *)
Outcomes == [ok : {TRUE}, value : {"sent", "matched"}] \cup [ok : {FALSE}, value : Codes]

ASSUME NullIsNoData == Null \notin Outcomes \cup Questions

VARIABLES
  body,      \* [Checks -> Bodies or Null]
  asked,     \* [Checks -> what the escrow service was asked, or Null]
  pc,        \* [Checks -> "idle", "format", "escrow", "done", "lost"]
  reply,     \* [Checks -> outcome the caller was answered, or Null]
  tracking,  \* [Checks -> the record being posted, or Null]
  posts,     \* [Checks -> posts begun]
  tracked    \* records at the tracking service

vars == <<body, asked, pc, reply, tracking, posts, tracked>>

Init ==
  /\ body = [c \in Checks |-> Null]
  /\ asked = [c \in Checks |-> Null]
  /\ pc = [c \in Checks |-> "idle"]
  /\ reply = [c \in Checks |-> Null]
  /\ tracking = [c \in Checks |-> Null]
  /\ posts = [c \in Checks |-> 0]
  /\ tracked = {}

Goto(c, l) == pc' = [pc EXCEPT ![c] = l]

Arrive(c, b) ==
  /\ pc[c] = "idle"
  /\ body' = [body EXCEPT ![c] = b]
  /\ Goto(c, "format")
  /\ UNCHANGED <<asked, reply, tracking, posts, tracked>>

-----------------------------------------------------------------------------
(* trackKycInfo up to its first await, which is as far as it runs before   *)
(* its caller goes on.                                                     *)
CodeOf(type, o) ==
  CASE ~o.ok -> o.value
    [] o.ok /\ type = "FINGERPRINT" -> "FINGERPRINT_MATCH"
    [] OTHER -> IF o.value = "sent" THEN "SMS_SENT" ELSE "OTP_VERIFIED"

Record(c, o) == [id |-> c, type |-> body[c].type, ok |-> o.ok, code |-> CodeOf(body[c].type, o)]

TrackKycInfo(c, o) ==
  tracking' = [tracking EXCEPT ![c] = IF body[c].auth /\ ~Local THEN Record(c, o) ELSE Null]

AskEscrow(c, request) ==
  /\ asked' = [asked EXCEPT ![c] = request]
  /\ Goto(c, "escrow")
  /\ UNCHANGED <<body, reply, tracking, posts, tracked>>

Kyc(c) ==
  /\ pc[c] = "format"
  /\ body[c].type = "FINGERPRINT"
  /\ AskEscrow(c, FormatFingerprintData(body[c]))

KycSms(c) ==
  /\ pc[c] = "format"
  /\ body[c].type = "SMS_OTP"
  /\ body[c].filters
  /\ AskEscrow(c, FormatSmsData(body[c]))

(* formatSmsData throws on a body without filters, outside the try block:  *)
(* the caller is answered an error and nothing is tracked.                 *)
KycSmsRefused(c) ==
  /\ pc[c] = "format"
  /\ body[c].type = "SMS_OTP"
  /\ ~body[c].filters
  /\ reply' = [reply EXCEPT ![c] = [ok |-> FALSE, value |-> "TypeError"]]
  /\ Goto(c, "done")
  /\ UNCHANGED <<body, asked, tracking, posts, tracked>>

(* Mutant: a fingerprint is tracked as a match whatever the answer is.     *)
MutTrackMatch(c) ==
  /\ pc[c] = "escrow"
  /\ \E o \in Outcomes :
       /\ reply' = [reply EXCEPT ![c] = o]
       /\ TrackKycInfo(c, [ok |-> TRUE, value |-> "matched"])
  /\ Goto(c, "done")
  /\ UNCHANGED <<body, asked, posts, tracked>>

(* Mutant: the tracking call is awaited, the reply follows its end.        *)
MutTrackAwaited(c) ==
  /\ pc[c] = "escrow"
  /\ tracking[c] = Null
  /\ \E o \in Outcomes :
       IF body[c].auth /\ posts[c] = 0
       THEN TrackKycInfo(c, o) /\ UNCHANGED <<reply, pc>>
       ELSE /\ \A r \in tracked : r.id = c => r = Record(c, o)
            /\ reply' = [reply EXCEPT ![c] = o] /\ Goto(c, "done") /\ UNCHANGED tracking
  /\ UNCHANGED <<body, asked, posts, tracked>>

(* escrowVerify returns or throws: the tracking call is begun and the      *)
(* caller answered with no await in between.                               *)
EscrowVerified(c) ==
  /\ pc[c] = "escrow"
  /\ \E o \in Outcomes :
       /\ reply' = [reply EXCEPT ![c] = o]
       /\ TrackKycInfo(c, o)
  /\ Goto(c, "done")
  /\ UNCHANGED <<body, asked, posts, tracked>>

-----------------------------------------------------------------------------
(* requestWithRetry of the tracking record: each post arrives or does not, *)
(* and another follows when its answer is lost.                            *)
PostTracking(c) ==
  /\ tracking[c] # Null
  /\ posts[c] < MaxPosts
  /\ posts' = [posts EXCEPT ![c] = @ + 1]
  /\ tracked' \in {tracked, tracked \cup {tracking[c]}}
  /\ UNCHANGED <<body, asked, pc, reply, tracking>>

(* It is answered, or given up: the error is logged and goes nowhere.      *)
EndTracking(c) ==
  /\ tracking[c] # Null
  /\ posts[c] > 0
  /\ tracking' = [tracking EXCEPT ![c] = Null]
  /\ UNCHANGED <<body, asked, pc, reply, posts, tracked>>

InFlight(c) == pc[c] \in {"format", "escrow"}

Crash ==
  /\ MayCrash
  /\ \E c \in Checks : InFlight(c) \/ tracking[c] # Null
  /\ pc' = [c \in Checks |-> IF InFlight(c) THEN "lost" ELSE pc[c]]
  /\ tracking' = [c \in Checks |-> Null]
  /\ UNCHANGED <<body, asked, reply, posts, tracked>>

Check(c) == Kyc(c) \/ KycSms(c) \/ KycSmsRefused(c) \/ EscrowVerified(c)

Next ==
  \/ \E c \in Checks, b \in Bodies : Arrive(c, b)
  \/ \E c \in Checks : Check(c) \/ PostTracking(c) \/ EndTracking(c)
  \/ Crash

Spec == Init /\ [][Next]_vars

(* Node resumes a check whose await has returned, and a call of the escrow *)
(* service returns or fails.  Nothing is assumed of the tracking service.  *)
FairSpec == Spec /\ \A c \in Checks : WF_vars(Check(c))

-----------------------------------------------------------------------------
(* Properties                                                              *)

(* The tracking service is told of a check what the caller was told, once  *)
(* or several times but never two things, whatever restarts and lost posts *)
(* come in between, and nothing of a check that never reached the escrow   *)
(* service.                                                                *)
TrackedAgreesWithReply ==
  \A r \in tracked :
    /\ reply[r.id] # Null /\ r.ok = reply[r.id].ok
    /\ asked[r.id] # Null /\ r.type = asked[r.id].plugin
    /\ r.ok => (r.code = "SMS_SENT" <=> r.type = "SMS_OTP" /\ reply[r.id].value = "sent")
    /\ \A s \in tracked : s.id = r.id => s = r

(* Liveness: a check is answered unless the controller restarts, although  *)
(* the tracking call may fail or never end ("in a non-blocking http call", *)
(* kyc.service.ts:100).                                                    *)
ChecksAreAnswered ==
  \A c \in Checks : pc[c] = "format" ~> reply[c] # Null \/ pc[c] = "lost"
=============================================================================
