----------------------------- MODULE MCSessions -----------------------------
(***************************************************************************)
(* A small instance of Sessions with OnlineProfile.                        *)
(***************************************************************************)
EXTENDS Sessions, TLC

CONSTANTS x1, t1, t2

\* A token that is bound and one that is not.
BoundTokens == t1 :> x1 @@ t2 :> None
=============================================================================
