-------------------------- MODULE ProfileAccount --------------------------
(***************************************************************************)
(* What the profile quota promises: each user has an account that says how *)
(* many profiles the user has and may have.  Every change is made at one   *)
(* instant, stays within the account, and is described by the log entry    *)
(* written with it.  GameProfile refines this.                             *)
(***************************************************************************)
EXTENDS Integers

CONSTANTS
  Users,
  Largest,  \* the largest total, a natural number
  None      \* no entry

VARIABLE account  \* account[u]: profiles of u, how many u may have, the last log entry

\* A user without a row in the database has this account.
NewAccount == [used |-> 0, total |-> 1, last |-> None]

Init == account = [u \in Users |-> NewAccount]

\* The account of u changes to used and total, and the entry says so.
Post(u, used, total) ==
  account' = [account EXCEPT ![u] =
    [used |-> used, total |-> total,
     last |-> [beforeUsed |-> @.used, afterUsed |-> used, beforeTotal |-> @.total, afterTotal |-> total]]]

\* A profile is added.
Take(u) == account[u].used < account[u].total /\ Post(u, account[u].used + 1, account[u].total)

\* An administrator changes the total.
Adjust(u) == \E total \in account[u].used .. Largest : Post(u, account[u].used, total)

Next == \E u \in Users : Take(u) \/ Adjust(u)

Spec == Init /\ [][Next]_account

\* No user has more profiles than the account allows.
WithinTotal == \A u \in Users : account[u].used <= account[u].total
===========================================================================
