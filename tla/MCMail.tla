------------------------------- MODULE MCMail -------------------------------
(***************************************************************************)
(* TLC instance of Mail.  A minute is a tick, the unit of the countdowns   *)
(* between retries, and a worker takes a due task up within one more.      *)
(* Codes live eleven ticks, the least lifetime that four deliveries with   *)
(* such a lag and countdowns of 1, 2 and 4 admit (1 + 2 + 4 + 4 * 1).      *)
(***************************************************************************)
EXTENDS Mail, TLC

Deployments == {"celery", "eager"}
=============================================================================
