------------------------------ MODULE MCPanel ------------------------------
(***************************************************************************)
(* TLC instance of Panel: the corners of a small space of candidates, one  *)
(* of whom is in a mixture of the two scopes and in neither; an account    *)
(* with a window, one without the right to edit, one with an empty kind.   *)
(***************************************************************************)
EXTENDS Panel, TLC

CONSTANTS old, new, mixed

MCAttr == (old :> <<1, 1, 1>>) @@ (new :> <<2, 2, 2>>) @@ (mixed :> <<1, 2, 2>>)

Account(active, right, from, until, scope) ==
  [active |-> active, right |-> right, from |-> from, until |-> until, scope |-> scope]

MCConfigs ==
  { Account(TRUE,  "edit", 0, MaxTime, <<{1}, {1}, {1}>>),
    Account(TRUE,  "view", 1, 1,       <<{2}, {2}, {2}>>),
    Account(TRUE,  "edit", 0, 0,       <<{1, 2}, {1, 2}, {1, 2}>>),
    Account(TRUE,  "none", 0, MaxTime, <<{}, {1, 2}, {1}>>),
    Account(FALSE, "edit", 0, MaxTime, <<{1}, {1}, {1}>>) }

=============================================================================
