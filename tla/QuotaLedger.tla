--------------------------- MODULE QuotaLedger ---------------------------
(***************************************************************************)
(* What the library quota promises: per user and visibility a count of     *)
(* used places.  Each request takes effect on the counts of its user at    *)
(* most once, at one instant between its arrival and its end, on the       *)
(* counts of that instant: an upload takes a place within the total, a     *)
(* deletion gives one back, an update moves one, a recalculation counts    *)
(* anew, and no other request changes them.  Library refines this ledger.  *)
(***************************************************************************)
EXTENDS Integers

CONSTANTS Users, Procs, Total, None

Vis == {"public", "private"}

Ops == {"create", "update", "delete", "gift", "revoke", "recalculate"}

VARIABLES
  used,  \* used[u][v]: the places of visibility v that user u has taken
  doing  \* doing[p]: the <<operation, user>> of the request in slot p, or Idle

Idle == <<"none", None>>

Init ==
  /\ used = [u \in Users |-> [v \in Vis |-> 0]]
  /\ doing = [p \in Procs |-> Idle]

Begin(p, op, u) ==
  /\ doing[p] = Idle
  /\ doing' = [doing EXCEPT ![p] = <<op, u>>]
  /\ UNCHANGED used

\* The request of slot p, an op for user u, has its effect and is over.
End(p, op, u) ==
  /\ doing[p] = <<op, u>>
  /\ doing' = [doing EXCEPT ![p] = Idle]

\* It is refused or fails, or has no effect on the counts.
Leave(p, op, u) == End(p, op, u) /\ UNCHANGED used

\* A place is taken, within the total.
Charge(p, u, v) ==
  /\ End(p, "create", u)
  /\ used[u][v] < Total[v]
  /\ used' = [used EXCEPT ![u][v] = @ + 1]

\* A place is given back.
Discharge(p, u, v) ==
  /\ End(p, "delete", u)
  /\ used[u][v] > 0
  /\ used' = [used EXCEPT ![u][v] = @ - 1]

\* A place is moved to the other visibility.
Move(p, u, v, w) ==
  /\ End(p, "update", u)
  /\ v # w
  /\ used[u][v] > 0
  /\ used[u][w] < Total[w]
  /\ used' = [used EXCEPT ![u] = [x \in Vis |-> IF x = v THEN @[v] - 1 ELSE @[w] + 1]]

\* The counts of a user are set anew from the associations.
Recount(p, u) ==
  /\ End(p, "recalculate", u)
  /\ used'[u] \in [Vis -> Nat]
  /\ used' = [used EXCEPT ![u] = used'[u]]

Act(p, u) ==
  \/ \E op \in Ops : Begin(p, op, u) \/ Leave(p, op, u)
  \/ \E v \in Vis : Charge(p, u, v) \/ Discharge(p, u, v)
  \/ \E v, w \in Vis : Move(p, u, v, w)
  \/ Recount(p, u)

Next == \E p \in Procs, u \in Users : Act(p, u)

Spec == Init /\ [][Next]_<<used, doing>>

NonNegative == used \in [Users -> [Vis -> Nat]]
==========================================================================
