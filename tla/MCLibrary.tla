---------------------------- MODULE MCLibrary ----------------------------
(***************************************************************************)
(* Small instances of Library: which slot may run which requests, the      *)
(* built-in records and the symmetric sets.                                *)
(***************************************************************************)
EXTENDS Library, TLC

CONSTANTS u1, u2, p1, p2, s1, s2, s3, h1, h2

\* Operations of a user on its own library.
UserOps == {"create", "update", "delete"}

\* Each slot serves one user, whose requests come one after the other; an
\* administrator recalculates for both meanwhile.  Nothing is gifted.
WorkSerial ==
  p1 :> (UserOps \X {u1} \cup {<<"recalculate", u2>>}) @@
  p2 :> (UserOps \X {u2} \cup {<<"recalculate", u1>>})

\* Every user sends several requests at a time; nothing is gifted and nothing
\* is recalculated.
WorkConcurrent == [p \in Procs |-> UserOps \X Users]

\* A user who uploads next to any request of its own, and another user;
\* meanwhile an administrator gifts records to both and revokes gifts.
WorkAdmin ==
  p1 :> UserOps \X {u1} @@
  p2 :> ({"create", "gift"} \X {u1, u2}) \cup {<<"revoke", u2>>}

NoSeeds == [s \in {} |-> None]
OneSeed == s3 :> h2

IdSymmetry == Permutations(Ids) \cup Permutations(Hashes)

Symmetry == Permutations(Users) \cup Permutations(Procs) \cup Permutations(Ids)
              \cup Permutations(Hashes)
==========================================================================
