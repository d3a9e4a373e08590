---------------------------- MODULE MCOnboarding ----------------------------
(* A small instance of Onboarding for TLC. *)
EXTENDS Onboarding, TLC

CONSTANTS bank, citizen, c1, c2

(* The file scripts/credentials. *)
MCProfiles == << "credit-tro-auth-Id", "credit-fsp-auth-Id", "credit-fsp-grant",
                 "credit-tro-grant", "transaction" >>
MCSide == bank :> "fsp" @@ citizen :> "tro"
=============================================================================
