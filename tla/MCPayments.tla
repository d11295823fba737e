---------------------------- MODULE MCPayments ----------------------------
(***************************************************************************)
(* Constants for checking Payments with TLC.  A subscription lasts one day *)
(* and a year changes inside the run, so that expiry, renewal and the      *)
(* switch to the next year's register all happen within a few days.        *)
(***************************************************************************)
EXTENDS Payments, TLC

MCYearOf == [d \in 0..MaxDay |-> 1 + d \div 2]

\* Which events were answered steers no step and no safety property.
Unanswered == <<today, payment, history, subscription, sequence, locks, req,
                captured, declined, bought, overwritten, faults>>

\* Orders that may be declined are told apart from the others.
UndeclinedSymmetry ==
  Permutations(Students) \cup Permutations(Orders \ Declinable) \cup Permutations(Workers)

Symmetry == Permutations(Students) \cup Permutations(Orders) \cup Permutations(Workers)
=============================================================================
