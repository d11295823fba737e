---------------------------- MODULE MCSubAdmin -----------------------------
(***************************************************************************)
(* TLC instance of SubAdmin: updates with and without module rows and      *)
(* activation.                                                             *)
(***************************************************************************)
EXTENDS SubAdmin, TLC

CONSTANTS m1, m2

Both   == m1 :> "view" @@ m2 :> "edit"
Hidden == m1 :> "hidden" @@ m2 :> "none"
Mixed  == m1 :> "edit" @@ m2 :> "hidden"

MCPatches ==
  [grants : {NoRows, Both, Hidden}, active : {None}]
    \cup [grants : {Mixed}, active : {FALSE}]
    \cup [grants : {None}, active : {None, TRUE, FALSE}]

=============================================================================
