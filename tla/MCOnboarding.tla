---------------------------- MODULE MCOnboarding ----------------------------
(* Constants for checking Onboarding with TLC.  Two referral codes let one *)
(* be deleted and another take its place while requests that read the      *)
(* first are still at work.                                                *)
EXTENDS Onboarding

OneApplicant == {"applicant@example.com"}
=============================================================================
