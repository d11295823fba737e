----------------------------- MODULE MCStudent -----------------------------
(***************************************************************************)
(* TLC instance of Student.                                                *)
(***************************************************************************)
EXTENDS Student, TLC

Symmetry == Permutations(Workers)

\* What is left of an edit that has saved its row is what it has seen of all three.
Pending(r) ==
  CASE r.pc = "read"   -> <<"read", r.copy, r.seen>>
    [] r.pc = "decide" -> <<"decide", r.copy, Complete(r.seen), Missing(r.seen)>>
    [] OTHER           -> r

(***************************************************************************)
(* Without what no later step and no property reads: beside the above, an  *)
(* order opened once every row has been complete, which everFull never     *)
(* forgets; alone while nobody edits (the next edit sets it); and created  *)
(* while not quiet (the edit that makes quiet true again clears it).       *)
(***************************************************************************)
Relevant ==
  <<plans, given, [w \in Workers |-> Pending(req[w])],
    row, completed, orphans, everFull, ordered /\ everFull # Parts, quiet, saves,
    alone \/ \A w \in Workers : ~Editor(w), created /\ quiet>>

\* Bound: the edits of the profile and the plans inserted, together.
Budget == saves + given <= MaxSaves + 1

=============================================================================
