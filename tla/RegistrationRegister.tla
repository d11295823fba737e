----------------------- MODULE RegistrationRegister -----------------------
(***************************************************************************)
(* What the platform promises about registration numbers: each year has a  *)
(* register that hands out 1, 2, 3, ... in one indivisible step, to a      *)
(* student who has no number yet, and a number once issued is kept.        *)
(*                                                                         *)
(* This is the abstract counterpart of generate_registration_number and of *)
(* the transaction it runs in; module Payments implements it.              *)
(***************************************************************************)
EXTENDS Naturals

CONSTANTS Students,  \* those who may be given a number
          Years      \* the years that have a register

VARIABLES number,    \* number[s]: the registration number of s, or NoNumber
          last       \* last[y]: the last number issued in year y

registerVars == <<number, last>>

NoNumber == [year |-> 0, n |-> 0]

RegisterInit ==
  /\ number = [s \in Students |-> NoNumber]
  /\ last = [y \in Years |-> 0]

Issue(s, y) ==
  /\ number[s] = NoNumber
  /\ last' = [last EXCEPT ![y] = @ + 1]
  /\ number' = [number EXCEPT ![s] = [year |-> y, n |-> last[y] + 1]]

RegisterNext == \E s \in Students, y \in Years : Issue(s, y)

RegisterSpec == RegisterInit /\ [][RegisterNext]_registerVars
=============================================================================
