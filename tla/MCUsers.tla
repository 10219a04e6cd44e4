------------------------------ MODULE MCUsers ------------------------------
(***************************************************************************)
(* Small instances of Users.                                               *)
(***************************************************************************)
EXTENDS Users, TLC

CONSTANTS p1, p2, u1, k1, k2

\* One user with two access tokens, or one.
Owners == k1 :> u1 @@ k2 :> u1
OneOwner == k1 :> u1

\* Every request next to a synchronisation or a look at the user.
WorkOverlap ==
  p1 :> {"visit", "look"} @@
  p2 :> {"info", "password"}

\* Every slot runs every request.
WorkAll == [p \in Procs |-> Ops]
============================================================================
