----------------------------- MODULE Admission ------------------------------
(***************************************************************************)
(* What the platform promises about who gets an account.  Applications are *)
(* admitted through a gate: admins decide which applications stand and     *)
(* which ticket, a code of its own, each of them holds; an applicant who   *)
(* shows a valid ticket of an application that stands becomes a member,    *)
(* under the address of the application, and the ticket is spent, all in   *)
(* one indivisible step.  Admins may make a ticket valid again, or take it *)
(* away, but nobody becomes a member in another way.                       *)
(*                                                                         *)
(* This is the abstract counterpart of RegisterAPIView and GoogleAuthView, *)
(* which read the rows, lock them one by one and write them one by one,    *)
(* and of the admins' requests that read and save the same rows meanwhile; *)
(* module Onboarding implements it.                                        *)
(***************************************************************************)
EXTENDS Naturals

CONSTANTS Applications,  \* the applications there may be
          Addresses,
          Tickets        \* the tickets there may be, 1, 2, 3, ...

VARIABLES applied,   \* the applications made
          email,     \* email[a]: the address of application a
          standing,  \* the applications live and verified
          ticket,    \* ticket[a]: the ticket of application a, 0 if none
          valid,     \* the applications whose ticket is not spent
          issued,    \* tickets issued so far
          members    \* the addresses that have an account

gateVars == <<applied, email, standing, ticket, valid, issued, members>>

GateInit ==
  /\ applied = {} /\ standing = {} /\ valid = {} /\ members = {}
  /\ email \in [Applications -> Addresses]
  /\ ticket = [a \in Applications |-> 0] /\ issued = 0

Apply(a, e) ==
  /\ a \notin applied
  /\ applied' = applied \cup {a} /\ email' = [email EXCEPT ![a] = e]
  /\ UNCHANGED <<standing, ticket, valid, issued, members>>

\* Archived, restored, given back an earlier status.
Judge(a) ==
  /\ a \in applied
  /\ standing' \in {standing \cup {a}, standing \ {a}}
  /\ UNCHANGED <<applied, email, ticket, valid, issued, members>>

\* A new ticket is for an application without one, and verifies it.
Grant(a) ==
  /\ a \in applied /\ ticket[a] = 0 /\ issued + 1 \in Tickets
  /\ issued' = issued + 1 /\ ticket' = [ticket EXCEPT ![a] = issued + 1]
  /\ valid' = valid \cup {a} /\ standing' = standing \cup {a}
  /\ UNCHANGED <<applied, email, members>>

\* The status of a ticket is written; one withdrawn meanwhile is back, unless another
\* has taken its place.  It is never another application's.
Restamp(a, c) ==
  /\ a \in applied /\ c \in 1..issued /\ ticket[a] \in {0, c}
  /\ \A b \in Applications \ {a} : ticket[b] # c
  /\ ticket' = [ticket EXCEPT ![a] = c]
  /\ valid' \in {valid \cup {a}, valid \ {a}}
  /\ UNCHANGED <<applied, email, standing, issued, members>>

Withdraw(a) ==
  /\ a \in applied
  /\ ticket' = [ticket EXCEPT ![a] = 0]
  /\ valid' = valid \ {a} /\ standing' = standing \ {a}
  /\ UNCHANGED <<applied, email, issued, members>>

Enter(a) ==
  /\ a \in standing \cap valid /\ ticket[a] # 0
  /\ members' = members \cup {email[a]} /\ valid' = valid \ {a}
  /\ UNCHANGED <<applied, email, standing, ticket, issued>>

GateNext ==
  \E a \in Applications :
    \/ \E e \in Addresses : Apply(a, e)
    \/ Judge(a) \/ Grant(a) \/ Withdraw(a) \/ Enter(a)
    \/ \E c \in Tickets : Restamp(a, c)

GateSpec == GateInit /\ [][GateNext]_gateVars

\* Whoever is a member applied under that address, and no two applications hold one
\* ticket.
GateSafe ==
  /\ members \subseteq {email[a] : a \in applied}
  /\ \A a, b \in Applications : ticket[a] = ticket[b] /\ ticket[a] # 0 => a = b
=============================================================================
