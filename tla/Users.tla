------------------------------- MODULE Users -------------------------------
(***************************************************************************)
(* Users: the row, its copy in a Redis hash, the copies kept per access    *)
(* token, the synchronisation with the identity provider and the change of *)
(* the game password (logic/user.go, logic/access_user.go,                 *)
(* repository/user.go, repository/cache/user.go, middleware/user.go,       *)
(* grpc/auth.go).                                                          *)
(*                                                                         *)
(* Requests run in slots.  A step is one SQL statement or Redis command;   *)
(* HSET and EXPIRE are two.  Role, ban and jail are only read here.        *)
(***************************************************************************)
EXTENDS Integers

CONSTANTS
  Accounts,   \* ids of users
  Tokens,     \* access tokens
  Owner,      \* Owner[k]: the user of the access token k
  Infos,      \* what the provider may say: nickname, e-mail and phone
  Passwords,  \* bcrypt hashes of game passwords
  Procs,      \* slots in which requests run
  Work,       \* Work[p]: the operations slot p may run
  Serial,     \* the requests of one user do not overlap
  Faults,     \* Redis commands may fail, and requests may be cut off
  None        \* no user, token, row or password

Ops == {"visit", "info", "password", "look"}

ASSUME OwnerAssumption == Owner \in [Tokens -> Accounts]
ASSUME WorkAssumption == Work \in [Procs -> SUBSET Ops]
ASSUME SwitchesAssumption == Serial \in BOOLEAN /\ Faults \in BOOLEAN
ASSUME NoneAssumption == None \notin Accounts \cup Tokens \cup Infos \cup Passwords

VARIABLES
  sso,    \* sso[u]: what the provider says of u
  row,    \* row[u]: the row of u in the database, or None
  entry,  \* entry[u]: the hash of u in Redis, or None
  token,  \* token[k]: the hash of the access token k in Redis, or None
  pc,     \* the next statement of each slot
  req     \* what its request has read

vars == <<sso, row, entry, token, pc, req>>

Rows == [info : Infos, password : Passwords \cup {None}]

ASSUME RowAssumption == None \notin Rows

\* A password that is not set has no field; ttl says whether the hash expires.
Hashes == [info : Infos, password : Passwords \cup {None}, ttl : BOOLEAN]

Statements ==
  {"idle", "get", "load", "hset", "expire", "save", "hsetToken", "expireToken"}

NoRequest == [op |-> "none", user |-> None, token |-> None, info |-> None, password |-> None,
              row |-> None, saved |-> FALSE]

Requests ==
  [op : Ops \cup {"none"}, user : Accounts \cup {None}, token : Tokens \cup {None},
   info : Infos \cup {None}, password : Passwords \cup {None}, row : Rows \cup {None},
   saved : BOOLEAN]

TypeOK ==
  /\ sso \in [Accounts -> Infos]
  /\ row \in [Accounts -> Rows \cup {None}]
  /\ entry \in [Accounts -> Hashes \cup {None}]
  /\ token \in [Tokens -> Hashes \cup {None}]
  /\ pc \in [Procs -> Statements]
  /\ req \in [Procs -> Requests]

Init ==
  /\ sso \in [Accounts -> Infos]
  /\ row = [u \in Accounts |-> None]
  /\ entry = [u \in Accounts |-> None]
  /\ token = [k \in Tokens |-> None]
  /\ pc = [p \in Procs |-> "idle"]
  /\ req = [p \in Procs |-> NoRequest]

-----------------------------------------------------------------------------
(* Helpers. *)

At(p, statement) == pc[p] = statement

Goes(p, statement, r) ==
  /\ pc' = [pc EXCEPT ![p] = statement]
  /\ req' = [req EXCEPT ![p] = r]

Ends(p) == Goes(p, "idle", NoRequest)

Served(u) == \E p \in Procs : req[p].user = u

\* A request of user u for op arrives in slot p.
Receive(p, op, u) ==
  /\ At(p, "idle") /\ op \in Work[p]
  /\ Serial => ~Served(u)

\* Mutant: the password is not among the fields.
FieldsWithoutPassword(r) == {"info"}

\* buildUserFields: the fields HSET writes, none for what is not set.
Fields(r) == {"info"} \cup (IF r.password = None THEN {} ELSE {"password"})

\* Mutant: the hash is written anew.
MergeAnew(h, r) == [info |-> r.info, password |-> r.password, ttl |-> FALSE]

\* HSET of r into the hash h leaves the other fields and the expiry.
Merge(h, r) ==
  LET old == IF h = None THEN [info |-> r.info, password |-> None, ttl |-> FALSE] ELSE h IN
  [f \in {"info", "password", "ttl"} |-> IF f \in Fields(r) THEN r[f] ELSE old[f]]

\* Mutant: what is read back is taken as it is.
ParseNothing(h) == h

\* parseUserFields.
Parse(h) == [info |-> h.info, password |-> h.password]

-----------------------------------------------------------------------------
(* Arrival. *)

\* GetUserByAT.
Known(k) == token[k] # None

\* Middleware User, ValidateToken: the token is not cached, so the provider is
\* asked who its user is.
StartVisit(p, k) ==
  /\ Receive(p, "visit", Owner[k])
  /\ ~Known(k)
  /\ Goes(p, "get", [NoRequest EXCEPT !.op = "visit", !.user = Owner[k], !.token = k,
                                      !.info = sso[Owner[k]]])
  /\ UNCHANGED <<sso, row, entry, token>>

\* UserCurrent always asks the provider and caches no token.
StartInfo(p, u) ==
  /\ Receive(p, "info", u)
  /\ Goes(p, "get", [NoRequest EXCEPT !.op = "info", !.user = u, !.info = sso[u]])
  /\ UNCHANGED <<sso, row, entry, token>>

StartPassword(p, u, w) ==
  /\ Receive(p, "password", u)
  /\ Goes(p, "get", [NoRequest EXCEPT !.op = "password", !.user = u, !.password = w])
  /\ UNCHANGED <<sso, row, entry, token>>

\* GetByID: roles and permissions, mails, names in answers.
StartLook(p, u) ==
  /\ Receive(p, "look", u)
  /\ Goes(p, "get", [NoRequest EXCEPT !.op = "look", !.user = u])
  /\ UNCHANGED <<sso, row, entry, token>>

-----------------------------------------------------------------------------
(* TakeUser, UpdateGamePassword. *)

\* The request has a user's row; the middleware caches it for the token.
Answers(p, r) == IF r.token = None THEN Ends(p) ELSE Goes(p, "hsetToken", r)

\* The request of slot p has got the row x.
Got(p, x) ==
  LET r == [req[p] EXCEPT !.row = x] IN
  CASE r.op = "look" -> Ends(p)
    [] r.op = "password" -> Goes(p, "save", [r EXCEPT !.row.password = r.password])
    [] OTHER -> IF x.info = r.info
                  THEN Answers(p, r)
                  ELSE Goes(p, "save", [r EXCEPT !.row.info = r.info])

\* A hit, or a miss.
Get(p) ==
  LET u == req[p].user IN
  /\ At(p, "get")
  /\ IF entry[u] # None THEN Got(p, Parse(entry[u])) ELSE Goes(p, "load", req[p])
  /\ UNCHANGED <<sso, row, entry, token>>

\* SELECT; a user who is not there is created with what the provider says.
Load(p) ==
  LET r == req[p] IN
  /\ At(p, "load")
  /\ CASE row[r.user] # None -> Goes(p, "hset", [r EXCEPT !.row = row[r.user]])
       [] row[r.user] = None /\ r.info # None ->
            Goes(p, "save", [r EXCEPT !.row = [info |-> r.info, password |-> None]])
       [] OTHER -> Ends(p)
  /\ UNCHANGED <<sso, row, entry, token>>

\* Mutant: only the database is written.
SaveOnly(p) ==
  /\ At(p, "save")
  /\ row' = [row EXCEPT ![req[p].user] = req[p].row]
  /\ Answers(p, req[p])
  /\ UNCHANGED <<sso, entry, token>>

\* Mutant: the error of Save is not looked at.
SaveUnchecked(p) ==
  /\ At(p, "save")
  /\ \/ row' = [row EXCEPT ![req[p].user] = req[p].row]
     \/ UNCHANGED row
  /\ Goes(p, "hset", [req[p] EXCEPT !.saved = TRUE])
  /\ UNCHANGED <<sso, entry, token>>

\* Save writes every column, or inserts the row.
Save(p) ==
  LET r == req[p] IN
  /\ At(p, "save")
  /\ row' = [row EXCEPT ![r.user] = r.row]
  /\ Goes(p, "hset", [r EXCEPT !.saved = TRUE])
  /\ UNCHANGED <<sso, entry, token>>

\* What follows when the row is cached, or when that failed.
Cached(p) == IF req[p].saved THEN Answers(p, req[p]) ELSE Got(p, req[p].row)

Hset(p) ==
  LET u == req[p].user IN
  /\ At(p, "hset")
  /\ entry' = [entry EXCEPT ![u] = Merge(@, req[p].row)]
  /\ Goes(p, "expire", req[p])
  /\ UNCHANGED <<sso, row, token>>

\* EXPIRE does nothing to a hash that is gone.
Lasting(h) == IF h = None THEN None ELSE [h EXCEPT !.ttl = TRUE]

SetExpiry(p) ==
  /\ At(p, "expire")
  /\ entry' = [entry EXCEPT ![req[p].user] = Lasting(@)]
  /\ Cached(p)
  /\ UNCHANGED <<sso, row, token>>

HsetToken(p) ==
  LET k == req[p].token IN
  /\ At(p, "hsetToken")
  /\ token' = [token EXCEPT ![k] = Merge(@, req[p].row)]
  /\ Goes(p, "expireToken", req[p])
  /\ UNCHANGED <<sso, row, entry>>

\* Mutant: no EXPIRE.
LastingTokenForever(h) == h

\* The expiry of a token's hash.
LastingToken(h) == IF h = None THEN None ELSE [h EXCEPT !.ttl = TRUE]

SetExpiryToken(p) ==
  /\ At(p, "expireToken")
  /\ token' = [token EXCEPT ![req[p].token] = LastingToken(@)]
  /\ Ends(p)
  /\ UNCHANGED <<sso, row, entry>>

-----------------------------------------------------------------------------
(* Failures and the outside. *)

\* Writing the cache failed: that is logged.
CacheFails(p) ==
  /\ Faults
  /\ \/ pc[p] \in {"hset", "expire"} /\ Cached(p)
     \/ pc[p] \in {"hsetToken", "expireToken"} /\ Ends(p)
  /\ UNCHANGED <<sso, row, entry, token>>

\* Another statement fails, or the request is cut off.
CutOff(p) ==
  /\ Faults
  /\ ~At(p, "idle")
  /\ Ends(p)
  /\ UNCHANGED <<sso, row, entry, token>>

\* The provider's data of u change.
Change(u, x) ==
  /\ sso[u] # x
  /\ sso' = [sso EXCEPT ![u] = x]
  /\ UNCHANGED <<row, entry, token, pc, req>>

\* Redis drops a hash whose time is over.
ExpireEntry(u) ==
  /\ entry[u] # None /\ entry[u].ttl
  /\ entry' = [entry EXCEPT ![u] = None]
  /\ UNCHANGED <<sso, row, token, pc, req>>

ExpireToken(k) ==
  /\ token[k] # None /\ token[k].ttl
  /\ token' = [token EXCEPT ![k] = None]
  /\ UNCHANGED <<sso, row, entry, pc, req>>

Arrive(p) ==
  \/ \E k \in Tokens : StartVisit(p, k)
  \/ \E u \in Accounts : StartInfo(p, u) \/ StartLook(p, u)
  \/ \E u \in Accounts, w \in Passwords : StartPassword(p, u, w)

\* A step of the request in slot p.
Step(p) ==
  \/ Get(p) \/ Load(p) \/ Save(p)
  \/ Hset(p) \/ SetExpiry(p) \/ HsetToken(p) \/ SetExpiryToken(p)

Next ==
  \/ \E p \in Procs : Arrive(p) \/ Step(p) \/ CacheFails(p) \/ CutOff(p)
  \/ \E u \in Accounts, x \in Infos : Change(u, x)
  \/ \E u \in Accounts : ExpireEntry(u)
  \/ \E k \in Tokens : ExpireToken(k)

Spec == Init /\ [][Next]_vars

\* Time passes for what expires; requests run on unless they are cut off.
FairSpec ==
  /\ Spec
  /\ \A p \in Procs : ~Faults => WF_vars(Step(p))
  /\ \A u \in Accounts : WF_vars(ExpireEntry(u))
  /\ \A k \in Tokens : WF_vars(ExpireToken(k))

-----------------------------------------------------------------------------
(***************************************************************************)
(* Properties.                                                             *)
(***************************************************************************)

\* The copy of a user no request is serving agrees with the row, through
\* expiries, synchronisations and changes of the password.
Coherent ==
  \A u \in Accounts :
    entry[u] # None /\ ~Served(u) => row[u] # None /\ Parse(entry[u]) = row[u]

\* A synchronisation leaves the password of a user who exists as it is: only
\* UpdateGamePassword changes it, to the one it was given.
PasswordKept ==
  [][\A u \in Accounts :
       row[u] # None /\ row'[u].password # row[u].password
         => \E p \in Procs : req[p].op = "password" /\ req[p].user = u
                               /\ req[p].password = row'[u].password]_vars

Behind(k) == token[k] # None /\ Parse(token[k]) # row[Owner[k]]

\* A copy made for an access token, which no write of the user's row reaches,
\* does not stay behind the row.
TokenCopyGoes == \A k \in Tokens : Behind(k) ~> ~Behind(k)

EntryBehind(u) == entry[u] # None /\ Parse(entry[u]) # row[u]

\* Nor does the copy of the user, whatever requests overlap or fail, once it
\* has an expiry: no HSET takes that away.
StaleEntryGoes == \A u \in Accounts : EntryBehind(u) /\ entry[u].ttl ~> ~EntryBehind(u)

\* Whoever is cached is in the database, also when requests are cut off: the
\* database is written first.
CopyHasRow ==
  /\ \A u \in Accounts : entry[u] # None => row[u] # None
  /\ \A k \in Tokens : token[k] # None => row[Owner[k]] # None
=============================================================================
