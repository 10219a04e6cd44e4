---------------------------- MODULE GameTokens ----------------------------
(***************************************************************************)
(* Access tokens of the Yggdrasil API: login, refresh, invalidation and    *)
(* sign-out, statement by statement (logic/yggdrasil/auth.go,              *)
(* repository/txn/game_token.go, repository/game_token.go).                *)
(*                                                                         *)
(* PostgreSQL runs at READ COMMITTED: what a transaction writes appears at *)
(* its commit, an UPDATE picks its rows from a snapshot taken when the     *)
(* statement starts, waits for those another transaction has written, and  *)
(* then tests its condition again.  A client can present only an access    *)
(* token it was sent.                                                      *)
(***************************************************************************)
EXTENDS Naturals, FiniteSets

CONSTANTS
  Users,     \* users with a game password
  Profiles,  \* game profiles
  Owner,     \* the user each profile belongs to
  Tokens,    \* rows the table may get, each with its access token
  Procs,     \* requests in progress at a time
  Max,       \* YggdrasilTokenMaxPerUser
  Faults,    \* statements may fail and requests be cut off
  None

ASSUME OwnerAssumption == Owner \in [Profiles -> Users]
ASSUME MaxAssumption == Max \in Nat \ {0}
ASSUME FiniteAssumption == IsFiniteSet(Tokens) /\ IsFiniteSet(Profiles)
ASSUME ProcsAssumption == IsFiniteSet(Procs)
ASSUME NoneAssumption == None \notin Users \cup Profiles \cup Tokens

VARIABLES
  status,   \* column status, "unused" where there is no row
  user,     \* column user_id
  bound,    \* column bound_profile_id
  expired,  \* rows past their expires_at
  issued,   \* access tokens that have been sent to a client
  from,     \* history: the token a token was refreshed from
  pc,       \* the statement each slot executes next
  req       \* what its request knows

rows == <<status, user, bound, from>>
vars == <<status, user, bound, expired, issued, from, pc, req>>

Statuses == {"Valid", "TempInvalid", "Invalid"}

\* The statuses a refresh accepts.
Refreshable == {"Valid", "TempInvalid"}

Labels == {"idle", "count", "scanOldest", "revokeOldest", "create", "bind", "undo", "answer",
           "revokeOld", "replace", "scan", "invalidateAll", "recount", "scanLeft", "invalidateLeft"}

Requests == [user : Users \cup {None}, seen : SUBSET Tokens, tok : Tokens \cup {None},
             old : Tokens \cup {None}, bind : Profiles \cup {None}, before : SUBSET Tokens]

NoRequest == [user |-> None, seen |-> {}, tok |-> None, old |-> None, bind |-> None,
              before |-> {}]

Init ==
  /\ status = [t \in Tokens |-> "unused"]
  /\ user = [t \in Tokens |-> None]
  /\ bound = [t \in Tokens |-> None]
  /\ expired = {}
  /\ issued = {}
  /\ from = [t \in Tokens |-> None]
  /\ pc = [p \in Procs |-> "idle"]
  /\ req = [p \in Procs |-> NoRequest]

-----------------------------------------------------------------------------
(* What the statements look at. *)

\* WHERE user_id = u AND status = Valid AND expires_at > now.
Usable(u) == {t \in Tokens : user[t] = u /\ status[t] = "Valid" /\ t \notin expired}

ProfilesOf(u) == {f \in Profiles : Owner[f] = u}

\* The condition of RevokeValidOrTempInvalid.
CanRefresh(t) == status[t] \in Refreshable /\ t \notin expired

\* Rows slot p has updated in a transaction that is not over.
Locks(p) == IF pc[p] \in {"create", "replace"} THEN req[p].seen ELSE {}

\* No other transaction has updated a row of S.
Free(p, S) == \A q \in Procs \ {p} : S \cap Locks(q) = {}

\* Slot p goes on at label l with the request r.
Goes(p, l, r) ==
  /\ pc' = [pc EXCEPT ![p] = l]
  /\ req' = [req EXCEPT ![p] = r]

Ends(p) == Goes(p, "idle", NoRequest)

\* The rows of S after UPDATE ... SET status = Invalid.
Revoked(S) == [t \in Tokens |-> IF t \in S THEN "Invalid" ELSE status[t]]

\* The statuses once the rows of S are revoked and the row t is inserted.
Committed(S, t) == [Revoked(S) EXCEPT ![t] = "Valid"]

-----------------------------------------------------------------------------
(* Login. *)

\* The credentials are accepted.
Authenticate(p, u) ==
  /\ pc[p] = "idle"
  /\ Goes(p, "count", [NoRequest EXCEPT !.user = u])
  /\ UNCHANGED <<rows, expired, issued>>

\* Mutant: the limit is compared with > instead of >=.
CountValidAbove(p) ==
  /\ pc[p] = "count"
  /\ Goes(p, IF Cardinality(Usable(req[p].user)) > Max THEN "scanOldest" ELSE "create", req[p])
  /\ UNCHANGED <<rows, expired, issued>>

\* The valid tokens are counted, without a lock.
CountValid(p) ==
  /\ pc[p] = "count"
  /\ Goes(p, IF Cardinality(Usable(req[p].user)) >= Max THEN "scanOldest" ELSE "create", req[p])
  /\ UNCHANGED <<rows, expired, issued>>

\* The UPDATE of RevokeOldestByUserID picks its rows: all valid ones, as
\* PostgreSQL's UPDATE has neither ORDER BY nor LIMIT and GORM emits neither.
ScanOldest(p) ==
  /\ pc[p] = "scanOldest"
  /\ Goes(p, "revokeOldest", [req[p] EXCEPT !.seen = Usable(req[p].user)])
  /\ UNCHANGED <<rows, expired, issued>>

\* It gets their locks and keeps those that still satisfy its condition.
RevokeOldest(p) ==
  /\ pc[p] = "revokeOldest"
  /\ Free(p, req[p].seen)
  /\ Goes(p, "create", [req[p] EXCEPT !.seen = @ \cap Usable(req[p].user)])
  /\ UNCHANGED <<rows, expired, issued>>

\* The new row is inserted and the transaction commits.
CreateToken(p) ==
  /\ pc[p] = "create"
  /\ \E t \in Tokens :
       /\ status[t] = "unused"
       /\ status' = Committed(req[p].seen, t)
       /\ user' = [user EXCEPT ![t] = req[p].user]
       /\ Goes(p, IF Cardinality(ProfilesOf(req[p].user)) = 1 THEN "bind" ELSE "answer",
               [req[p] EXCEPT !.tok = t, !.seen = {}])
  /\ UNCHANGED <<bound, from, expired, issued>>

\* UPDATE ... SET bound_profile_id, by id alone, to the only profile.
Bind(p) == \E f \in ProfilesOf(req[p].user) : bound' = [bound EXCEPT ![req[p].tok] = f]

\* Mutant: the whole row is saved as it was read when it was created.
BindProfileSaves(p) ==
  /\ pc[p] = "bind"
  /\ Free(p, {req[p].tok})
  /\ Bind(p)
  /\ status' = [status EXCEPT ![req[p].tok] = "Valid"]
  /\ Goes(p, "answer", req[p])
  /\ UNCHANGED <<user, from, expired, issued>>

BindProfile(p) ==
  /\ pc[p] = "bind"
  /\ Free(p, {req[p].tok})
  /\ Bind(p)
  /\ Goes(p, "answer", req[p])
  /\ UNCHANGED <<status, user, from, expired, issued>>

\* The UPDATE fails, or it succeeds and reading the row back fails.
BindFails(p) ==
  /\ Faults
  /\ pc[p] = "bind"
  /\ Free(p, {req[p].tok})
  /\ Bind(p) \/ UNCHANGED bound
  /\ Goes(p, "undo", req[p])
  /\ UNCHANGED <<status, user, from, expired, issued>>

\* The token just created is invalidated; an error here is only logged.
UndoLogin(p) ==
  /\ pc[p] = "undo"
  /\ Free(p, {req[p].tok})
  /\ status' = Revoked({req[p].tok} \cap Usable(req[p].user))
  /\ Goes(p, "answer", req[p])
  /\ UNCHANGED <<user, bound, from, expired, issued>>

UndoFails(p) ==
  /\ Faults
  /\ pc[p] = "undo"
  /\ Goes(p, "answer", req[p])
  /\ UNCHANGED <<rows, expired, issued>>

\* The client gets the access token of a login or a refresh.
Answer(p) ==
  /\ pc[p] = "answer"
  /\ issued' = issued \cup {req[p].tok}
  /\ Ends(p)
  /\ UNCHANGED <<rows, expired>>

-----------------------------------------------------------------------------
(* Refresh. *)

\* Mutant: a profile may be selected although the token has one.
ChoicesAny(t) == ProfilesOf(user[t]) \cup {None}

\* The profile of the new token: that of the old one, or the one the client
\* selects among the user's when the old one has none.
Choices(t) == IF bound[t] = None THEN ProfilesOf(user[t]) \cup {None} ELSE {bound[t]}

ReadToken(p, t) ==
  /\ pc[p] = "idle"
  /\ t \in issued
  /\ CanRefresh(t)
  /\ \E f \in Choices(t) :
       Goes(p, "revokeOld", [NoRequest EXCEPT !.user = user[t], !.old = t, !.bind = f])
  /\ UNCHANGED <<rows, expired, issued>>

\* Mutant: the UPDATE revokes by id alone.
RevokeOldUnchecked(p) ==
  /\ pc[p] = "revokeOld"
  /\ Free(p, {req[p].old})
  /\ Goes(p, "replace", [req[p] EXCEPT !.seen = {req[p].old}])
  /\ UNCHANGED <<rows, expired, issued>>

\* The conditional UPDATE affects the row.
RevokeOld(p) ==
  /\ pc[p] = "revokeOld"
  /\ Free(p, {req[p].old})
  /\ CanRefresh(req[p].old)
  /\ Goes(p, "replace", [req[p] EXCEPT !.seen = {req[p].old}])
  /\ UNCHANGED <<rows, expired, issued>>

\* It affects none: the request is refused and rolled back.
RefreshRefused(p) ==
  /\ pc[p] = "revokeOld"
  /\ Free(p, {req[p].old})
  /\ ~CanRefresh(req[p].old)
  /\ Ends(p)
  /\ UNCHANGED <<rows, expired, issued>>

\* Mutant: the new row is inserted without its user.
ReplaceNoUser(p) ==
  /\ pc[p] = "replace"
  /\ \E t \in Tokens :
       /\ status[t] = "unused"
       /\ status' = Committed(req[p].seen, t)
       /\ bound' = [bound EXCEPT ![t] = req[p].bind]
       /\ from' = [from EXCEPT ![t] = req[p].old]
       /\ Goes(p, "answer", [req[p] EXCEPT !.tok = t, !.seen = {}])
  /\ UNCHANGED <<user, expired, issued>>

\* The new row is inserted and bound, and the transaction commits.
Replace(p) ==
  /\ pc[p] = "replace"
  /\ \E t \in Tokens :
       /\ status[t] = "unused"
       /\ status' = Committed(req[p].seen, t)
       /\ user' = [user EXCEPT ![t] = req[p].user]
       /\ bound' = [bound EXCEPT ![t] = req[p].bind]
       /\ from' = [from EXCEPT ![t] = req[p].old]
       /\ Goes(p, "answer", [req[p] EXCEPT !.tok = t, !.seen = {}])
  /\ UNCHANGED <<expired, issued>>

-----------------------------------------------------------------------------
(* Invalidation and sign-out. *)

\* One conditional UPDATE by access token.
Invalidate(t) ==
  /\ t \in issued
  /\ t \in Usable(user[t])
  /\ \A q \in Procs : t \notin Locks(q)
  /\ status' = Revoked({t})
  /\ UNCHANGED <<user, bound, from, expired, issued, pc, req>>

\* The credentials are accepted; before is history.
SignOut(p, u) ==
  /\ pc[p] = "idle"
  /\ Goes(p, "scan", [NoRequest EXCEPT !.user = u, !.before = {t \in issued : user[t] = u}])
  /\ UNCHANGED <<rows, expired, issued>>

\* Mutant: rows another transaction has updated are skipped.
ScanValidSkipsLocked(p) ==
  /\ pc[p] \in {"scan", "scanLeft"}
  /\ Goes(p, IF pc[p] = "scan" THEN "invalidateAll" ELSE "invalidateLeft",
          [req[p] EXCEPT !.seen = {t \in Usable(req[p].user) : Free(p, {t})}])
  /\ UNCHANGED <<rows, expired, issued>>

\* The UPDATE of InvalidateAllByUserID picks its rows.
ScanValid(p) ==
  /\ pc[p] \in {"scan", "scanLeft"}
  /\ Goes(p, IF pc[p] = "scan" THEN "invalidateAll" ELSE "invalidateLeft",
          [req[p] EXCEPT !.seen = Usable(req[p].user)])
  /\ UNCHANGED <<rows, expired, issued>>

InvalidateAll(p) ==
  /\ pc[p] \in {"invalidateAll", "invalidateLeft"}
  /\ Free(p, req[p].seen)
  /\ status' = Revoked(req[p].seen \cap Usable(req[p].user))
  /\ IF pc[p] = "invalidateAll" THEN Goes(p, "recount", [req[p] EXCEPT !.seen = {}]) ELSE Ends(p)
  /\ UNCHANGED <<user, bound, from, expired, issued>>

\* Tokens that came in meanwhile are invalidated in a second round.
Recount(p) ==
  /\ pc[p] = "recount"
  /\ IF Usable(req[p].user) = {} THEN Ends(p) ELSE Goes(p, "scanLeft", req[p])
  /\ UNCHANGED <<rows, expired, issued>>

-----------------------------------------------------------------------------
(* Time and faults. *)

\* A token gets to its expires_at.
Expire(t) ==
  /\ status[t] # "unused"
  /\ t \notin expired
  /\ expired' = expired \cup {t}
  /\ UNCHANGED <<rows, issued, pc, req>>

\* A statement fails or the request is cancelled: what is not committed is
\* rolled back, and no answer is sent.
CutOff(p) ==
  /\ Faults
  /\ pc[p] # "idle"
  /\ Ends(p)
  /\ UNCHANGED <<rows, expired, issued>>

-----------------------------------------------------------------------------
Login(p) ==
  \/ \E u \in Users : Authenticate(p, u)
  \/ CountValid(p) \/ ScanOldest(p) \/ RevokeOldest(p) \/ CreateToken(p)
  \/ BindProfile(p) \/ BindFails(p) \/ UndoLogin(p) \/ UndoFails(p) \/ Answer(p)

Refresh(p) ==
  \/ \E t \in Tokens : ReadToken(p, t)
  \/ RevokeOld(p) \/ RefreshRefused(p) \/ Replace(p)

SigningOut(p) ==
  \/ \E u \in Users : SignOut(p, u)
  \/ ScanValid(p) \/ InvalidateAll(p) \/ Recount(p)

Next ==
  \/ \E p \in Procs : Login(p) \/ Refresh(p) \/ SigningOut(p) \/ CutOff(p)
  \/ \E t \in Tokens : Invalidate(t) \/ Expire(t)

Spec == Init /\ [][Next]_vars

-----------------------------------------------------------------------------
TypeOK ==
  /\ status \in [Tokens -> Statuses \cup {"unused"}]
  /\ user \in [Tokens -> Users \cup {None}]
  /\ \A t \in Tokens : user[t] = None <=> status[t] = "unused"
  /\ bound \in [Tokens -> Profiles \cup {None}]
  /\ expired \subseteq Tokens
  /\ issued \subseteq {t \in Tokens : status[t] # "unused"}
  /\ from \in [Tokens -> Tokens \cup {None}]
  /\ pc \in [Procs -> Labels]
  /\ req \in [Procs -> Requests]

\* A refreshed token has one successor, however refreshes, logins at the limit
\* and sign-outs overlap, and is invalid once the successor exists
\* (RevokeAndCreate).
RefreshReplaces ==
  \A s, t \in Tokens :
    from[t] = s => status[s] = "Invalid" /\ \A r \in Tokens : from[r] = s => r = t

\* An invalid token stays invalid (GameTokenStatusInvalid, "cannot be
\* restored"), also when a login that was overtaken still binds it.
InvalidFinal == [][\A t \in Tokens : status[t] = "Invalid" => status'[t] = "Invalid"]_vars

\* A token belongs to a profile of its user, and refreshing it cannot change
\* the profile (RefreshToken, "Access token already has a profile assigned").
BindingKept ==
  \A t \in Tokens :
    /\ bound[t] # None => Owner[bound[t]] = user[t]
    /\ from[t] # None =>
         user[t] = user[from[t]] /\ (bound[from[t]] # None => bound[t] = bound[from[t]])

\* The valid tokens of u that a login made.
LoggedIn(u) == {t \in Usable(u) : from[t] = None}

\* Logins that overlap exceed the limit by less than their number, whatever
\* is refreshed, signed out or cut off meanwhile.  It counts what logins made:
\* tokens refreshed after a login at the limit picked its rows escape it, so
\* all of a user's tokens together are not bounded.
LimitOvershoot ==
  \A u \in Users : Cardinality(LoggedIn(u)) < Max + Cardinality(Procs)

\* Once a sign-out has invalidated the user's tokens, no token that a client
\* held when it arrived can be used, whatever locks it had to wait for.
SignOutEffective ==
  \A p \in Procs :
    pc[p] \in {"recount", "scanLeft", "invalidateLeft"} => req[p].before \cap Usable(req[p].user) = {}
============================================================================
