------------------------------ MODULE MCIssue ------------------------------
(***************************************************************************)
(* Small instances of Issue: which slot runs which requests.               *)
(***************************************************************************)
EXTENDS Issue, TLC

CONSTANTS p1, p2

\* One administrator changes statuses; every other request may overlap.
WorkRows ==
  p1 :> {"create", "status", "reply"} @@
  p2 :> {"create", "detail", "reply", "edit", "info", "attach", "detach"}

\* Attachments and types, each request next to any other.
WorkFiles == [p \in Procs |-> {"create", "info", "attach", "detach", "types"}]

Symmetry == Permutations(Types) \cup Permutations(Files) \cup Permutations(Texts)
============================================================================
