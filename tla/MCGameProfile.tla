--------------------------- MODULE MCGameProfile ---------------------------
(***************************************************************************)
(* Small instances of GameProfile: which slot runs which requests.         *)
(***************************************************************************)
EXTENDS GameProfile, TLC

CONSTANTS p1, p2

\* Two slots lock the quota of a user and give names; one of them changes what
\* is worn.
WorkProfiles ==
  p1 :> {"add", "rename", "wear"} @@
  p2 :> {"add", "adjust", "quota"}

\* From the first total to the largest and back: the other steps overflow,
\* fall below zero or, when profiles exist, below what is used.
SomeDeltas == {2, -2}

\* Every slot gives names.
WorkNames == [p \in Procs |-> {"add", "rename"}]

Symmetry == Permutations(Users) \cup Permutations(Profiles) \cup Permutations(Names) \cup Permutations(Procs)
============================================================================
