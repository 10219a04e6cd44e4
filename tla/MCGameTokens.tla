--------------------------- MODULE MCGameTokens ---------------------------
(***************************************************************************)
(* Small instances of GameTokens: u1 has one profile, which a login binds, *)
(* u2 has two, to be selected by a refresh.                                *)
(***************************************************************************)
EXTENDS GameTokens, TLC

CONSTANTS u1, u2, f1, f2, f3

Mixed == f1 :> u1 @@ f2 :> u2 @@ f3 :> u2

SymmetryMixed == Permutations(Tokens) \cup Permutations(Procs) \cup Permutations({f2, f3})
============================================================================
