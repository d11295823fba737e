----------------------------- MODULE MCSession -----------------------------
(***************************************************************************)
(* TLC instances of Session.  Access tokens live 2 ticks, refresh tokens   *)
(* and the flag 3 (8 hours, a day and a day in the code), so a refreshed   *)
(* access token can outlive its refresh token.                             *)
(***************************************************************************)
EXTENDS Session, TLC

=============================================================================
