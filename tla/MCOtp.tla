------------------------------- MODULE MCOtp -------------------------------
(* Constants for checking Otp with TLC.  A code outlives one tick of the   *)
(* clock, so codes are tried, resent, saved and cleaned up on both sides   *)
(* of their expiry.                                                        *)
EXTENDS Otp

Either == {"postgresql", "sqlite"}
PostgreSQL == {"postgresql"}
SQLite == {"sqlite"}

EveryPurpose == {"email_verification", "password_reset", "login_otp"}
=============================================================================
